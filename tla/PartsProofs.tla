---------------------------- MODULE PartsProofs ----------------------------
(***************************************************************************)
(* Two of the parts of the mount, each on its own: the locks of its request *)
(* threads, and the opens of files that are not in its cache.               *)
(*                                                                         *)
(* The locks, for any number of threads, handles and requests: the only     *)
(* circular waits run through free_up_space and a write, and the table of   *)
(* open files has every handle the kernel may use.  What a thread holds     *)
(* follows from where it is in its script (LocksFollowScripts).  But for    *)
(* free_up_space, all scripts take the table before a file and a file       *)
(* before the database, and only a write takes the database under a file.   *)
(* So in a circle without free_up_space nobody waits for the database,      *)
(* hence for a file, hence for the table; and in one without a write nobody *)
(* waits for a file, hence for the table, hence for the database.           *)
(*                                                                         *)
(* The opens, for any number of them, of uploads, blocks and cancels, and   *)
(* any lists of programs: what is under the path is whole, unless the one   *)
(* download that is underway writes it, and then it has as many blocks as   *)
(* its entry in the list says; an entry is in the list as long as its open  *)
(* or upload runs, under an id that no other one ever had; and what is      *)
(* still to come of a folder, with what failed, accounts for all the        *)
(* command was given.                                                       *)
(***************************************************************************)
EXTENDS MCParts, Integers, FiniteSets, FiniteSetTheorems, TLAPS

\* The steps of a script at which each lock is held.
HasDb(r, k) == \/ r \in {"metadata", "open", "create", "freeUp"} /\ k = 2
               \/ r = "open" /\ k = 4
               \/ r = "write" /\ k = 4
               \/ r = "release" /\ k \in {5, 7, 9}
               \/ r = "freeUp" /\ k \in 4..9
HasTable(r, k) == \/ r = "open" /\ k \in {6, 7}
                  \/ r = "create" /\ k \in {4, 5}
                  \/ r = "release" /\ k \in {2, 3}
HasFile(r, k) == \/ r \in {"read", "flush"} /\ k = 3
                 \/ r = "write" /\ k \in 3..5
                 \/ r = "freeUp" /\ k = 7
Reads(r, k) == \/ r \in {"read", "flush"} /\ k \in 2..4
               \/ r = "write" /\ k \in 2..6
               \/ r = "freeUp" /\ k \in 5..8

\* what a thread holds is what its script took and did not give back
LocksFollowScripts ==
    \A t \in Threads :
      /\ owner["db"] = t <=> HasDb(request[t], at[t])
      /\ owner["table"] = t <=> HasTable(request[t], at[t])
      /\ \A h \in Handles :
           owner[h] = t <=> using[t] = h /\ HasFile(request[t], at[t])
      /\ t \in readers <=> Reads(request[t], at[t])

\* a request has the handle it is about, and free_up_space the one it locks
RequestsHaveHandles ==
    \A t \in Threads :
      /\ request[t] \in {"open", "create", "read", "write", "flush", "release"} =>
           using[t] \in Handles
      /\ request[t] = "freeUp" /\ at[t] \in {6, 7} => using[t] \in Handles

\* a handle that comes or goes is used by one request, in the table from the insert to
\* the removal, and not the kernel's
Exclusive == {"open", "create", "release"}
InTable(r, k) == \/ r = "open" /\ k > 6
                 \/ r = "create" /\ k > 4
                 \/ r = "release" /\ k < 3
HandlesComeAndGo ==
    \A t \in Threads : request[t] \in Exclusive =>
      /\ \A u \in Threads \ {t} : using[u] = using[t] => request[u] \in {"freeUp", "none"}
      /\ using[t] \in table <=> InTable(request[t], at[t])
      /\ using[t] \notin kernelOpen

IInv == TypeOK /\ LocksFollowScripts /\ RequestsHaveHandles /\ HandlesComeAndGo
        /\ KernelHandlesAreOpen

-----------------------------------------------------------------------------
\* What one step of a script, a verb and an object, does to what is held.
Effect(r, h, k, n, verb, l) ==
    /\ verb \in {"lock", "unlock", "read", "unread", "scan", "insert", "remove"}
    /\ l \in {"db", "table", h}
    /\ verb \in {"insert", "remove"} => l = h /\ r \in Exclusive /\ HasTable(r, k)
    /\ verb \in {"lock", "unlock"} /\ l = h => r \notin Exclusive \cup {"metadata"}
    /\ verb \in {"read", "unread", "scan"} => l = "table"
    /\ HasDb(r, n) <=> (\/ verb = "lock" /\ l = "db"
                        \/ HasDb(r, k) /\ ~(verb = "unlock" /\ l = "db"))
    /\ HasTable(r, n) <=> (\/ verb = "lock" /\ l = "table"
                           \/ HasTable(r, k) /\ ~(verb = "unlock" /\ l = "table"))
    /\ HasFile(r, n) <=> (\/ verb = "lock" /\ l = h
                          \/ HasFile(r, k) /\ ~(verb = "unlock" /\ l = h))
    /\ Reads(r, n) <=> verb = "read" \/ (Reads(r, k) /\ verb # "unread")
    /\ verb = "unlock" => (\/ l = "db" /\ HasDb(r, k)
                           \/ l = "table" /\ HasTable(r, k)
                           \/ l = h /\ HasFile(r, k))
    /\ r \in Exclusive =>
         (InTable(r, n) <=> verb = "insert" \/ (InTable(r, k) /\ verb # "remove"))
    /\ r = "freeUp" /\ n \in {6, 7} => k = 6
    /\ r = "freeUp" /\ l = h => k \in {6, 7}

\* The order in which a thread takes what it does not hold yet.
Order(r, h, k, verb, l) ==
    /\ HasDb(r, k) => \/ verb = "unlock"
                      \/ r = "freeUp" /\ verb \in {"read", "scan", "unread"}
                      \/ r = "freeUp" /\ verb = "lock" /\ l = h
    /\ HasTable(r, k) => verb \in {"insert", "remove", "unlock"}
    /\ HasFile(r, k) => \/ verb = "unlock"
                        \/ r = "write" /\ verb = "lock" /\ l = "db"
    /\ Reads(r, k) => \/ verb \in {"unlock", "unread", "scan"}
                      \/ r = "write" /\ verb = "lock" /\ l = "db"
                      \/ verb = "lock" /\ l = h

LEMMA ScriptSteps ==
    ASSUME NEW r \in Kinds \cup {"none"}, NEW h \in Handles \cup {Nobody},
           NEW k \in 1..Len(Script(r, h))
    PROVE  LET s == Script(r, h)[k]
               n == IF r = "freeUp" /\ s[1] = "unlock" /\ s[2] # "db" THEN k - 2 ELSE k + 1
           IN  /\ Order(r, h, k, s[1], s[2])
               /\ IF s[1] = "scan" THEN r = "freeUp" /\ k = 5 /\ s[2] = "table"
                  ELSE n \in 1..(Len(Script(r, h)) + 1) /\ Effect(r, h, k, n, s[1], s[2])
<1> USE LocksAssumption DEF Nobody, Take, Give, TakeRead, GiveRead
<1>0. h \notin {"db", "table"}
  OBVIOUS
<1> DEFINE s == Script(r, h)[k]
           n == IF r = "freeUp" /\ s[1] = "unlock" /\ s[2] # "db" THEN k - 2 ELSE k + 1
           Goal == /\ Order(r, h, k, s[1], s[2])
                   /\ IF s[1] = "scan" THEN r = "freeUp" /\ k = 5 /\ s[2] = "table"
                      ELSE n \in 1..(Len(Script(r, h)) + 1) /\ Effect(r, h, k, n, s[1], s[2])
<1> SUFFICES Goal
  OBVIOUS
<1> USE DEF Order, Effect, HasDb, HasTable, HasFile, Reads, Exclusive, InTable
<1>1. CASE r = "metadata"
  <2>1. Script(r, h) = Metadata
    BY <1>1 DEF Script
  <2>2. k \in 1..2
    BY SMTT(30), <2>1 DEF Metadata
  <2> USE <1>0, <1>1, <2>1 DEF Metadata
  <2>3. CASE k = 1  BY <2>3
  <2>4. CASE k = 2  BY <2>4
  <2> HIDE DEF Goal
  <2> QED BY <2>2, <2>3, <2>4
<1>2. CASE r = "open"
  <2>1. Script(r, h) = Open(h)
    BY <1>2 DEF Script
  <2>2. k \in 1..7
    BY <2>1 DEF Open
  <2> USE <1>0, <1>2, <2>1 DEF Open
  <2>3. CASE k = 1  BY <2>3
  <2>4. CASE k = 2  BY <2>4
  <2>5. CASE k = 3  BY SMTT(30), <2>5
  <2>6. CASE k = 4  BY <2>6
  <2>7. CASE k = 5  BY SMTT(30), <2>7
  <2>8. CASE k = 6  BY <2>8
  <2>9. CASE k = 7  BY SMTT(60), <2>9
  <2> HIDE DEF Goal
  <2> QED BY <2>2, <2>3, <2>4, <2>5, <2>6, <2>7, <2>8, <2>9
<1>3. CASE r = "create"
  <2>1. Script(r, h) = Create(h)
    BY <1>3 DEF Script
  <2>2. k \in 1..5
    BY <2>1 DEF Create
  <2> USE <1>0, <1>3, <2>1 DEF Create
  <2>3. CASE k = 1  BY <2>3
  <2>4. CASE k = 2  BY <2>4
  <2>5. CASE k = 3  BY <2>5
  <2>6. CASE k = 4  BY <2>6
  <2>7. CASE k = 5  BY SMTT(60), <2>7
  <2> HIDE DEF Goal
  <2> QED BY <2>2, <2>3, <2>4, <2>5, <2>6, <2>7
<1>4. CASE r = "read"
  <2>1. Script(r, h) = Read(h)
    BY <1>4 DEF Script
  <2>2. k \in 1..4
    BY <2>1 DEF Read
  <2> USE <1>0, <1>4, <2>1 DEF Read
  <2>3. CASE k = 1  BY SMTT(30), <2>3
  <2>4. CASE k = 2  BY <2>4
  <2>5. CASE k = 3  BY <2>5
  <2>6. CASE k = 4  BY SMTT(60), <2>6
  <2> HIDE DEF Goal
  <2> QED BY <2>2, <2>3, <2>4, <2>5, <2>6
<1>5. CASE r = "write"
  <2>1. Script(r, h) = Write(h)
    BY <1>5 DEF Script
  <2>2. k \in 1..6
    BY <2>1 DEF Write
  <2> USE <1>0, <1>5, <2>1 DEF Write
  <2>3. CASE k = 1  BY <2>3
  <2>4. CASE k = 2  BY SMTT(30), <2>4
  <2>5. CASE k = 3  BY SMTT(30), <2>5
  <2>6. CASE k = 4  BY SMTT(30), <2>6
  <2>7. CASE k = 5  BY SMTT(30), <2>7
  <2>8. CASE k = 6  BY SMTT(60), <2>8
  <2> HIDE DEF Goal
  <2> QED BY <2>2, <2>3, <2>4, <2>5, <2>6, <2>7, <2>8
<1>6. CASE r = "flush"
  <2>1. Script(r, h) = Flush(h)
    BY <1>6 DEF Script
  <2>2. k \in 1..4
    BY <2>1 DEF Flush
  <2> USE <1>0, <1>6, <2>1 DEF Flush
  <2>3. CASE k = 1  BY <2>3
  <2>4. CASE k = 2  BY <2>4
  <2>5. CASE k = 3  BY <2>5
  <2>6. CASE k = 4  BY SMTT(60), <2>6
  <2> HIDE DEF Goal
  <2> QED BY <2>2, <2>3, <2>4, <2>5, <2>6
<1>7. CASE r = "release"
  <2>1. Script(r, h) = Release(h)
    BY <1>7 DEF Script
  <2>2. k \in 1..9
    BY <2>1 DEF Release
  <2> USE <1>0, <1>7, <2>1 DEF Release
  <2>3. CASE k = 1  BY <2>3
  <2>4. CASE k = 2  BY <2>4
  <2>5. CASE k = 3  BY SMTT(30), <2>5
  <2>6. CASE k = 4  BY <2>6
  <2>7. CASE k = 5  BY <2>7
  <2>8. CASE k = 6  BY <2>8
  <2>9. CASE k = 7  BY SMTT(30), <2>9
  <2>10. CASE k = 8  BY SMTT(30), <2>10
  <2>11. CASE k = 9  BY SMTT(60), <2>11
  <2> HIDE DEF Goal
  <2> QED BY <2>2, <2>3, <2>4, <2>5, <2>6, <2>7, <2>8, <2>9, <2>10, <2>11
<1>8. CASE r = "freeUp"
  <2>1. Script(r, h) = FreeUp(h)
    BY <1>8 DEF Script
  <2>2. k \in 1..9
    BY <2>1 DEF FreeUp
  <2> USE <1>0, <1>8, <2>1 DEF FreeUp
  <2>3. CASE k = 1  BY <2>3
  <2>4. CASE k = 2  BY <2>4
  <2>5. CASE k = 3  BY SMTT(30), <2>5
  <2>6. CASE k = 4  BY SMTT(30), <2>6
  <2>7. CASE k = 5  BY SMTT(30), <2>7
  <2>8. CASE k = 6  BY <2>8
  <2>9. CASE k = 7  BY <2>9
  <2>10. CASE k = 8  BY SMTT(30), <2>10
  <2>11. CASE k = 9  BY SMTT(60), <2>11
  <2> HIDE DEF Goal
  <2> QED BY <2>2, <2>3, <2>4, <2>5, <2>6, <2>7, <2>8, <2>9, <2>10, <2>11
<1>9. CASE r = "none"
  <2>1. Script(r, h) = <<>>
    BY <1>9 DEF Script
  <2>2. k \in 1..0
    BY SMTT(30), <2>1
  <2> QED BY <2>2
<1> QED BY ZenonT(60), <1>1, <1>2, <1>3, <1>4, <1>5, <1>6, <1>7, <1>8, <1>9 DEF Kinds

\* A script has an end, at which nothing is held.
LEMMA ScriptEnds ==
    ASSUME NEW r \in Kinds \cup {"none"}, NEW h \in Handles \cup {Nobody}
    PROVE  LET n == Len(Script(r, h)) IN
           /\ n \in Nat
           /\ ~HasDb(r, n + 1) /\ ~HasTable(r, n + 1) /\ ~HasFile(r, n + 1) /\ ~Reads(r, n + 1)
           /\ r \in Exclusive => (InTable(r, n + 1) <=> r # "release")
           /\ r = "none" => n = 0
           /\ r = "freeUp" => n = 9
<1> USE DEF Script, HasDb, HasTable, HasFile, Reads, InTable, Exclusive
<1>1. CASE r = "metadata"
  BY <1>1 DEF Metadata
<1>2. CASE r = "open"
  BY <1>2 DEF Open
<1>3. CASE r = "create"
  BY <1>3 DEF Create
<1>4. CASE r = "read"
  BY <1>4 DEF Read
<1>5. CASE r = "write"
  BY <1>5 DEF Write
<1>6. CASE r = "flush"
  BY <1>6 DEF Flush
<1>7. CASE r = "release"
  BY <1>7 DEF Release
<1>8. CASE r = "freeUp"
  BY <1>8 DEF FreeUp
<1>9. CASE r = "none"
  BY <1>9
<1> QED BY <1>1, <1>2, <1>3, <1>4, <1>5, <1>6, <1>7, <1>8, <1>9 DEF Kinds

-----------------------------------------------------------------------------
\* A step about a file has the file's handle.
LEMMA HandleIsKnown ==
    ASSUME IInv, NEW t \in Threads, at[t] \in 1..Len(Steps(t)),
           Next1(t)[1] \in {"lock", "unlock", "insert", "remove"}, Next1(t)[2] = using[t]
    PROVE  using[t] \in Handles
<1> DEFINE r == request[t]
           h == using[t]
           k == at[t]
           n == IF r = "freeUp" /\ Next1(t)[1] = "unlock" /\ Next1(t)[2] # "db"
                THEN k - 2 ELSE k + 1
<1>1. RequestsHaveHandles /\ r \in Kinds \cup {"none"} /\ h \in Handles \cup {Nobody}
  BY DEF IInv, TypeOK
<1>2. Effect(r, h, k, n, Next1(t)[1], h)
  BY <1>1, ScriptSteps DEF Steps, Next1
<1>3. r # "none"
  BY DEF Steps, Script
<1>4. CASE r = "freeUp"
  BY <1>1, <1>2, <1>4 DEF RequestsHaveHandles, Effect
<1>5. CASE r # "freeUp"
  <2>1. r \in {"open", "create", "read", "write", "flush", "release"}
    BY <1>1, <1>2, <1>3, <1>5 DEF Effect, Kinds, Exclusive
  <2> QED BY <1>1, <2>1 DEF RequestsHaveHandles
<1> QED BY <1>4, <1>5

\* A step of a script other than the scan of the table.
LEMMA StepKeeps ==
    ASSUME IInv, NEW t \in Threads, at[t] \in 1..Len(Steps(t)),
           NEW v, NEW l, v = Next1(t)[1], l = Next1(t)[2], v # "scan",
           v = "lock" => owner[l] = Nobody,
           at' = [at EXCEPT ![t] = IF request[t] = "freeUp" /\ v = "unlock" /\ l # "db"
                                   THEN at[t] - 2 ELSE at[t] + 1],
           owner' = IF v = "lock" THEN [owner EXCEPT ![l] = t]
                    ELSE IF v = "unlock" THEN [owner EXCEPT ![l] = Nobody] ELSE owner,
           readers' = IF v = "read" THEN readers \cup {t}
                      ELSE IF v = "unread" THEN readers \ {t} ELSE readers,
           table' = IF v = "insert" THEN table \cup {l}
                    ELSE IF v = "remove" THEN table \ {l} ELSE table,
           UNCHANGED <<request, served, kernelOpen, using, scanned>>
    PROVE  IInv'
<1> DEFINE r == request[t]
           h == using[t]
           k == at[t]
           n == IF r = "freeUp" /\ v = "unlock" /\ l # "db" THEN k - 2 ELSE k + 1
<1>0. /\ TypeOK /\ LocksFollowScripts /\ RequestsHaveHandles
      /\ HandlesComeAndGo /\ KernelHandlesAreOpen
  BY DEF IInv
<1>1. r \in Kinds \cup {"none"} /\ h \in Handles \cup {Nobody}
  BY SMTT(30), <1>0 DEF TypeOK
<1>2. n \in 1..(Len(Script(r, h)) + 1) /\ Effect(r, h, k, n, v, l)
  BY <1>1, ScriptSteps DEF Steps, Next1
<1>3. at'[t] = n /\ \A u \in Threads \ {t} : at'[u] = at[u]
  BY <1>0 DEF TypeOK
<1>4. l \in Mutexes \cup {Nobody}
  BY <1>1, <1>2 DEF Effect, Mutexes
<1>4a. h # Nobody => h \in Mutexes /\ h \in Handles
  BY <1>1 DEF Mutexes
<1>5. v \in {"lock", "unlock", "insert", "remove"} /\ l = h => h \in Handles
  BY HandleIsKnown
<1>6. h \notin {"db", "table"}
  BY <1>1, LocksAssumption DEF Nobody
<1>7. TypeOK'
  <2>1. Steps(t)' = Script(r, h) /\ \A u \in Threads : Steps(u)' = Steps(u)
    BY DEF Steps
  <2>2. at' \in [Threads -> Nat]
    BY <1>0, <1>2 DEF TypeOK
  <2>3. \A u \in Threads : at'[u] \in 1..(Len(Steps(u)') + 1)
    BY <1>0, <1>2, <1>3, <2>1 DEF TypeOK
  <2>4. owner' \in [Mutexes -> Threads \cup {Nobody}]
    BY <1>0, <1>4 DEF TypeOK
  <2>5. readers' \subseteq Threads
    BY <1>0 DEF TypeOK
  <2>6. table' \subseteq Handles
    BY <1>0, <1>2, <1>5 DEF TypeOK, Effect
  <2> QED BY <1>0, <2>2, <2>3, <2>4, <2>5, <2>6 DEF TypeOK
<1>8. LocksFollowScripts'
  <2> SUFFICES ASSUME NEW u \in Threads
               PROVE /\ owner'["db"] = u <=> HasDb(request[u], at'[u])
                     /\ owner'["table"] = u <=> HasTable(request[u], at'[u])
                     /\ \A x \in Handles :
                          owner'[x] = u <=> using[u] = x /\ HasFile(request[u], at'[u])
                     /\ u \in readers' <=> Reads(request[u], at'[u])
    BY DEF LocksFollowScripts, HasDb, HasTable, HasFile, Reads
  <2>0. /\ owner["db"] = u <=> HasDb(request[u], at[u])
        /\ owner["table"] = u <=> HasTable(request[u], at[u])
        /\ \A x \in Handles :
             owner[x] = u <=> using[u] = x /\ HasFile(request[u], at[u])
        /\ u \in readers <=> Reads(request[u], at[u])
    BY <1>0 DEF LocksFollowScripts
  <2>t. /\ owner["db"] = t <=> HasDb(r, k)
        /\ owner["table"] = t <=> HasTable(r, k)
        /\ \A x \in Handles : owner[x] = t <=> h = x /\ HasFile(r, k)
    BY <1>0 DEF LocksFollowScripts
  <2>1. u # Nobody /\ t # Nobody
    BY LocksAssumption
  <2>2. \A m \in Mutexes : owner'[m] = IF v = "lock" /\ m = l THEN t
                                      ELSE IF v = "unlock" /\ m = l THEN Nobody
                                      ELSE owner[m]
    BY <1>0 DEF TypeOK
  <2>3. owner'["db"] = u <=> HasDb(request[u], at'[u])
    <3>1. CASE u = t
      BY <1>2, <1>3, <1>6, <2>0, <2>1, <2>2, <3>1 DEF Effect, Mutexes
    <3>2. CASE u # t
      BY <1>2, <1>3, <1>6, <2>0, <2>t, <2>1, <2>2, <3>2 DEF Effect, Mutexes
    <3> QED BY <3>1, <3>2
  <2>4. owner'["table"] = u <=> HasTable(request[u], at'[u])
    <3>1. CASE u = t
      BY <1>2, <1>3, <1>6, <2>0, <2>1, <2>2, <3>1 DEF Effect, Mutexes
    <3>2. CASE u # t
      BY <1>2, <1>3, <1>6, <2>0, <2>t, <2>1, <2>2, <3>2 DEF Effect, Mutexes
    <3> QED BY <3>1, <3>2
  <2>5. ASSUME NEW x \in Handles
        PROVE  owner'[x] = u <=> using[u] = x /\ HasFile(request[u], at'[u])
    <3>0. x \in Mutexes /\ x \notin {"db", "table"}
      BY LocksAssumption DEF Mutexes
    <3>1. CASE u = t
      BY <1>2, <1>3, <2>0, <2>1, <2>2, <3>0, <3>1 DEF Effect
    <3>2. CASE u # t
      BY <1>2, <1>3, <2>0, <2>t, <2>1, <2>2, <3>0, <3>2 DEF Effect
    <3> QED BY <3>1, <3>2
  <2>6. u \in readers' <=> Reads(request[u], at'[u])
    BY <1>2, <1>3, <2>0 DEF Effect
  <2> QED BY <2>3, <2>4, <2>5, <2>6
<1>9. RequestsHaveHandles'
  BY <1>0, <1>2, <1>3 DEF RequestsHaveHandles, Effect
<1>10. HandlesComeAndGo'
  <2> SUFFICES ASSUME NEW u \in Threads, request[u] \in Exclusive
               PROVE  using[u] \in table' <=> InTable(request[u], at'[u])
    BY <1>0 DEF HandlesComeAndGo
  <2>1. CASE u = t
    BY <1>0, <1>2, <1>3, <2>1 DEF HandlesComeAndGo, Effect
  <2>2. CASE u # t
    <3>1. v \in {"insert", "remove"} => l # using[u]
      BY <1>0, <1>2, <2>2 DEF HandlesComeAndGo, Effect, Exclusive
    <3> QED BY <1>0, <1>3, <2>2, <3>1 DEF HandlesComeAndGo
  <2> QED BY <2>1, <2>2
<1>11. KernelHandlesAreOpen'
  <2>1. v \in {"insert", "remove"} => l \notin kernelOpen /\ using[t] = l /\ r \in Exclusive
    BY <1>0, <1>2 DEF HandlesComeAndGo, Effect
  <2> QED BY <1>0, <2>1 DEF KernelHandlesAreOpen, Exclusive
<1> QED BY <1>7, <1>8, <1>9, <1>10, <1>11 DEF IInv

\* free_up_space looks for the next handle, or has seen them all.
LEMMA ScanKeeps ==
    ASSUME IInv, NEW t \in Threads, ScanTable(t)
    PROVE  IInv'
<1>0. /\ TypeOK /\ LocksFollowScripts /\ RequestsHaveHandles
      /\ HandlesComeAndGo /\ KernelHandlesAreOpen
  BY DEF IInv
<1>1. request[t] = "freeUp" /\ at[t] = 5
  <2> DEFINE r == request[t]
             h == using[t]
             k == at[t]
  <2>1. r \in Kinds \cup {"none"} /\ h \in Handles \cup {Nobody}
    BY <1>0 DEF TypeOK
  <2>2. k \in 1..Len(Script(r, h)) /\ Script(r, h)[k][1] = "scan"
    BY DEF ScanTable, At, Next1, Steps
  <2> QED BY <2>1, <2>2, ScriptSteps
<1>2. \A h : Len(Script("freeUp", h)) = 9
  BY DEF Script, FreeUp
<1>3. /\ UNCHANGED <<request, served, owner, readers, table, kernelOpen>>
      /\ \A u \in Threads \ {t} : at'[u] = at[u] /\ using'[u] = using[u]
      /\ using' \in [Threads -> Handles \cup {Nobody}]
      /\ scanned' \in [Threads -> SUBSET Handles]
      /\ at' \in [Threads -> Nat]
      /\ \/ at'[t] = 6 /\ using'[t] \in Handles
         \/ at'[t] = 8
  <2>1. table \subseteq Handles
    BY <1>0 DEF TypeOK
  <2>2. CASE \E h \in table \ scanned[t] :
               /\ using' = [using EXCEPT ![t] = h]
               /\ scanned' = [scanned EXCEPT ![t] = @ \cup {h}]
               /\ at' = [at EXCEPT ![t] = at[t] + 1]
    <3>1. PICK h \in Handles :
               /\ using' = [using EXCEPT ![t] = h]
               /\ scanned' = [scanned EXCEPT ![t] = @ \cup {h}]
               /\ at' = [at EXCEPT ![t] = at[t] + 1]
      BY <2>1, <2>2
    <3> QED BY <1>0, <1>1, <3>1 DEF ScanTable, TypeOK
  <2>3. CASE /\ using' = [using EXCEPT ![t] = Nobody]
             /\ scanned' = [scanned EXCEPT ![t] = {}]
             /\ at' = [at EXCEPT ![t] = at[t] + 3]
    BY <1>0, <1>1, <2>3 DEF ScanTable, TypeOK
  <2> QED BY <2>2, <2>3 DEF ScanTable, Goto
<1>4. TypeOK'
  <2>1. \A u \in Threads : at'[u] \in 1..(Len(Steps(u)') + 1)
    <3>1. at'[t] \in 1..(Len(Steps(t)') + 1)
      <4>1. Steps(t)' = Script("freeUp", using'[t])
        BY <1>1, <1>3 DEF Steps
      <4>2. Len(Steps(t)') = 9
        BY <1>2, <4>1
      <4> QED BY <1>3, <4>2
    <3>2. \A u \in Threads \ {t} : Steps(u)' = Steps(u)
      BY <1>3 DEF Steps
    <3> QED BY <1>0, <1>3, <3>1, <3>2 DEF TypeOK
  <2> QED BY <1>0, <1>3, <2>1 DEF TypeOK
<1>5. LocksFollowScripts'
  BY <1>0, <1>1, <1>3 DEF LocksFollowScripts, HasDb, HasTable, HasFile, Reads
<1>6. RequestsHaveHandles'
  BY <1>0, <1>1, <1>3 DEF RequestsHaveHandles
<1>7. HandlesComeAndGo'
  BY <1>0, <1>1, <1>3 DEF HandlesComeAndGo, Exclusive, InTable
<1>8. KernelHandlesAreOpen'
  BY <1>0, <1>1, <1>3 DEF KernelHandlesAreOpen
<1> QED BY <1>4, <1>5, <1>6, <1>7, <1>8 DEF IInv

\* A request begins: it holds nothing, and the handle it is about is its own if it is
\* to come or to go.
LEMMA BeginKeeps ==
    ASSUME IInv, NEW t \in Threads, NEW r \in Requests, NEW h \in Handles \cup {Nobody},
           Begin(t, r, h)
    PROVE  IInv'
<1>0. /\ TypeOK /\ LocksFollowScripts /\ RequestsHaveHandles
      /\ HandlesComeAndGo /\ KernelHandlesAreOpen
  BY DEF IInv
<1>1. /\ request[t] = "none" /\ at[t] = 1 /\ r \in Kinds
      /\ UNCHANGED <<at, owner, readers, table, scanned>>
      /\ request' \in [Threads -> Kinds \cup {"none"}]
      /\ using' \in [Threads -> Handles \cup {Nobody}]
      /\ request'[t] = r /\ using'[t] = h
      /\ \A u \in Threads \ {t} : request'[u] = request[u] /\ using'[u] = using[u]
      /\ served' \in 0..MaxRequests
      /\ kernelOpen' = IF r = "release" THEN kernelOpen \ {h} ELSE kernelOpen
  <2>1. request[t] = "none"
    BY DEF Begin
  <2>2. Steps(t) = <<>>
    BY <2>1 DEF Steps, Script
  <2>3. at[t] = 1
    BY <1>0, <2>2 DEF TypeOK
  <2> QED BY <1>0, <2>1, <2>3, LocksAssumption DEF Begin, TypeOK
<1>2. h \in Candidates(r)
  BY DEF Begin
<1>3. TypeOK'
  <2>1. \A u \in Threads : at'[u] \in 1..(Len(Steps(u)') + 1)
    <3>1. at'[t] \in 1..(Len(Steps(t)') + 1)
      BY <1>1, ScriptEnds DEF Steps
    <3>2. \A u \in Threads \ {t} : Steps(u)' = Steps(u)
      BY <1>1 DEF Steps
    <3> QED BY <1>0, <1>1, <3>1, <3>2 DEF TypeOK
  <2> QED BY <1>0, <1>1, <2>1 DEF TypeOK
<1>4. LocksFollowScripts'
  BY <1>0, <1>1 DEF LocksFollowScripts, HasDb, HasTable, HasFile, Reads, Kinds
<1>5. RequestsHaveHandles'
  <2>1. r \in {"open", "create", "read", "write", "flush", "release"} => h \in Handles
    BY <1>0, <1>2, LocksAssumption DEF Candidates, TypeOK
  <2> QED BY <1>0, <1>1, <2>1 DEF RequestsHaveHandles
<1>6. HandlesComeAndGo'
  <2> SUFFICES ASSUME NEW u \in Threads, request'[u] \in Exclusive
      PROVE  /\ \A w \in Threads \ {u} :
                  using'[w] = using'[u] => request'[w] \in {"freeUp", "none"}
             /\ using'[u] \in table <=> InTable(request'[u], at[u])
             /\ using'[u] \notin kernelOpen'
    BY <1>1 DEF HandlesComeAndGo, InTable
  <2>1. CASE u = t
    <3>1. ~Busy(h)
      BY <1>1, <1>2, <2>1 DEF Candidates, Exclusive
    <3>2. h \in table <=> r = "release"
      BY <1>0, <1>1, <1>2, <2>1 DEF Candidates, Exclusive, KernelHandlesAreOpen
    <3>3. h \notin kernelOpen'
      BY <1>1, <1>2, <2>1 DEF Candidates, Exclusive
    <3> QED BY <1>1, <2>1, <3>1, <3>2, <3>3 DEF Busy, Exclusive, InTable
  <2>2. CASE u # t
    <3>1. using[u] # h \/ r = "freeUp"
      <4>1. using[u] \in Handles /\ using[u] \notin kernelOpen
        BY <1>0, <1>1, <2>2 DEF RequestsHaveHandles, HandlesComeAndGo, Exclusive
      <4>2. using[u] = h => Busy(h)
        BY <1>1, <2>2 DEF Busy, Exclusive
      <4> QED BY <1>1, <1>2, <4>1, <4>2, LocksAssumption DEF Candidates, Kinds
    <3> QED BY <1>0, <1>1, <2>2, <3>1 DEF HandlesComeAndGo
  <2> QED BY <2>1, <2>2
<1>7. KernelHandlesAreOpen'
  BY <1>0, <1>1, <1>2 DEF KernelHandlesAreOpen
<1> QED BY <1>3, <1>4, <1>5, <1>6, <1>7 DEF IInv

\* A request is answered: it holds nothing any more.
LEMMA ReplyKeeps ==
    ASSUME IInv, NEW t \in Threads, Reply(t)
    PROVE  IInv'
<1>0. /\ TypeOK /\ LocksFollowScripts /\ RequestsHaveHandles
      /\ HandlesComeAndGo /\ KernelHandlesAreOpen
  BY DEF IInv
<1> DEFINE r == request[t]
           h == using[t]
           n == Len(Script(r, h))
<1>1. /\ r \in Kinds /\ h \in Handles \cup {Nobody} /\ at[t] = n + 1
      /\ UNCHANGED <<served, owner, readers, table, scanned>>
      /\ request' \in [Threads -> Kinds \cup {"none"}]
      /\ using' \in [Threads -> Handles \cup {Nobody}]
      /\ at' \in [Threads -> Nat]
      /\ request'[t] = "none" /\ using'[t] = Nobody /\ at'[t] = 1
      /\ \A u \in Threads \ {t} :
           request'[u] = request[u] /\ using'[u] = using[u] /\ at'[u] = at[u]
      /\ kernelOpen' = IF r \in {"open", "create"} THEN kernelOpen \cup {h} ELSE kernelOpen
  <2>1. n \in Nat
    BY <1>0, ScriptEnds DEF TypeOK
  <2> QED BY <1>0, <2>1 DEF Reply, TypeOK, Goto, Steps
<1>2. /\ ~HasDb(r, n + 1) /\ ~HasTable(r, n + 1) /\ ~HasFile(r, n + 1) /\ ~Reads(r, n + 1)
      /\ r \in Exclusive => (InTable(r, n + 1) <=> r # "release")
  BY <1>1, ScriptEnds
<1>3. TypeOK'
  <2>1. \A u \in Threads : at'[u] \in 1..(Len(Steps(u)') + 1)
    <3>1. Len(Steps(t)') = 0
      BY <1>1 DEF Steps, Script
    <3>2. \A u \in Threads \ {t} : Steps(u)' = Steps(u)
      BY <1>1 DEF Steps
    <3>3. at'[t] \in 1..(Len(Steps(t)') + 1)
      BY <1>1, <3>1
    <3>4. \A u \in Threads \ {t} : at'[u] \in 1..(Len(Steps(u)') + 1)
      BY <1>0, <1>1, <3>2 DEF TypeOK
    <3> QED BY <3>3, <3>4
  <2>2. kernelOpen' \subseteq Handles
    BY <1>0, <1>1 DEF TypeOK, RequestsHaveHandles
  <2> QED BY <1>0, <1>1, <2>1, <2>2 DEF TypeOK
<1>4. LocksFollowScripts'
  <2> SUFFICES ASSUME NEW u \in Threads
               PROVE /\ owner["db"] = u <=> HasDb(request'[u], at'[u])
                     /\ owner["table"] = u <=> HasTable(request'[u], at'[u])
                     /\ \A x \in Handles :
                          owner[x] = u <=> using'[u] = x /\ HasFile(request'[u], at'[u])
                     /\ u \in readers <=> Reads(request'[u], at'[u])
    BY <1>1 DEF LocksFollowScripts, HasDb, HasTable, HasFile, Reads
  <2>1. CASE u = t
    <3>1. /\ ~HasDb("none", 1) /\ ~HasTable("none", 1)
          /\ ~HasFile("none", 1) /\ ~Reads("none", 1)
      BY DEF HasDb, HasTable, HasFile, Reads
    <3> QED BY <1>0, <1>1, <1>2, <2>1, <3>1 DEF LocksFollowScripts
  <2>2. CASE u # t
    BY SMTT(30), <1>0, <1>1, <2>2 DEF LocksFollowScripts
  <2> QED BY <2>1, <2>2
<1>5. RequestsHaveHandles'
  BY <1>0, <1>1 DEF RequestsHaveHandles
<1>6. HandlesComeAndGo'
  <2> SUFFICES ASSUME NEW u \in Threads \ {t}, request[u] \in Exclusive
      PROVE  /\ \A w \in Threads \ {u} :
                  using'[w] = using[u] => request'[w] \in {"freeUp", "none"}
             /\ using[u] \in table <=> InTable(request[u], at[u])
             /\ using[u] \notin kernelOpen'
    BY <1>1 DEF HandlesComeAndGo, InTable, Exclusive
  <2>1. r \in {"open", "create"} => using[u] # h
    BY <1>0, <1>1 DEF HandlesComeAndGo
  <2> QED BY <1>0, <1>1, <2>1 DEF HandlesComeAndGo
<1>7. KernelHandlesAreOpen'
  <2>1. r \in Exclusive => (h \in table <=> r # "release")
    BY <1>0, <1>1, <1>2 DEF HandlesComeAndGo
  <2> QED BY <1>0, <1>1, <2>1 DEF KernelHandlesAreOpen, Exclusive
<1> QED BY <1>3, <1>4, <1>5, <1>6, <1>7 DEF IInv

-----------------------------------------------------------------------------
LEMMA InitInv == Init => IInv
<1> SUFFICES ASSUME Init PROVE IInv
  OBVIOUS
<1>1. TypeOK
  <2>1. \A t \in Threads : Steps(t) = <<>>
    BY DEF Init, Steps, Script
  <2> QED BY <2>1, LocksAssumption DEF Init, TypeOK
<1>2. LocksFollowScripts
  BY LocksAssumption DEF Init, LocksFollowScripts, Mutexes, HasDb, HasTable, HasFile, Reads
<1> QED BY <1>1, <1>2 DEF Init, IInv, RequestsHaveHandles, HandlesComeAndGo,
                          KernelHandlesAreOpen, Exclusive

LEMMA NextInv == IInv /\ [Next]_vars => IInv'
<1> SUFFICES ASSUME IInv, [Next]_vars PROVE IInv'
  OBVIOUS
<1>1. ASSUME NEW t \in Threads, NEW r \in Requests, NEW h \in Handles \cup {Nobody},
             Begin(t, r, h)
      PROVE  IInv'
  BY <1>1, BeginKeeps
<1>2. ASSUME NEW t \in Threads, Lock(t)
      PROVE  IInv'
  <2> DEFINE l == Next1(t)[2]
  <2>1. /\ at[t] \in 1..Len(Steps(t)) /\ Next1(t)[1] = "lock" /\ owner[l] = Nobody
        /\ owner' = [owner EXCEPT ![l] = t]
        /\ at' = [at EXCEPT ![t] = at[t] + 1]
        /\ UNCHANGED <<request, served, readers, table, kernelOpen, using, scanned>>
    BY <1>2 DEF Lock, At, Goto
  <2> QED BY <2>1, StepKeeps
<1>3. ASSUME NEW t \in Threads, Unlock(t)
      PROVE  IInv'
  <2> DEFINE l == Next1(t)[2]
  <2>1. /\ at[t] \in 1..Len(Steps(t)) /\ Next1(t)[1] = "unlock"
        /\ owner' = [owner EXCEPT ![l] = Nobody]
        /\ at' = [at EXCEPT ![t] = IF request[t] = "freeUp" /\ l # "db"
                                   THEN at[t] - 2 ELSE at[t] + 1]
        /\ UNCHANGED <<request, served, readers, table, kernelOpen, using, scanned>>
    BY <1>3 DEF Unlock, At, Goto
  <2> QED BY <2>1, StepKeeps
<1>4. ASSUME NEW t \in Threads, ReadTable(t) \/ UnreadTable(t)
      PROVE  IInv'
  <2>1. /\ at[t] \in 1..Len(Steps(t)) /\ Next1(t)[1] \in {"read", "unread"}
        /\ readers' = IF Next1(t)[1] = "read" THEN readers \cup {t} ELSE readers \ {t}
        /\ at' = [at EXCEPT ![t] = at[t] + 1]
        /\ UNCHANGED <<request, served, owner, table, kernelOpen, using, scanned>>
    BY <1>4 DEF ReadTable, UnreadTable, At, Goto
  <2> QED BY <2>1, StepKeeps
<1>5. ASSUME NEW t \in Threads, EditTable(t)
      PROVE  IInv'
  <2> DEFINE l == Next1(t)[2]
  <2>1. /\ at[t] \in 1..Len(Steps(t)) /\ Next1(t)[1] \in {"insert", "remove"}
        /\ table' = IF Next1(t)[1] = "insert" THEN table \cup {l} ELSE table \ {l}
        /\ at' = [at EXCEPT ![t] = at[t] + 1]
        /\ UNCHANGED <<request, served, owner, readers, kernelOpen, using, scanned>>
    BY <1>5 DEF EditTable, At, Goto
  <2> QED BY <2>1, StepKeeps
<1>6. ASSUME NEW t \in Threads, ScanTable(t) \/ Reply(t)
      PROVE  IInv'
  BY <1>6, ScanKeeps, ReplyKeeps
<1>7. CASE UNCHANGED vars
  BY <1>7 DEF vars, IInv, TypeOK, LocksFollowScripts, RequestsHaveHandles, HandlesComeAndGo,
              KernelHandlesAreOpen, Steps
<1> QED BY <1>1, <1>2, <1>3, <1>4, <1>5, <1>6, <1>7 DEF Next, Step

-----------------------------------------------------------------------------
\* What a thread waits for, and what one that holds a lock does next.
LEMMA HoldersGoOn ==
    ASSUME IInv, NEW t \in Threads
    PROVE  /\ (\/ HasDb(request[t], at[t])
               \/ HasTable(request[t], at[t])
               \/ HasFile(request[t], at[t])
               \/ Reads(request[t], at[t])) =>
                 /\ at[t] \in 1..Len(Steps(t))
                 /\ Order(request[t], using[t], at[t], Next1(t)[1], Next1(t)[2])
           /\ At(t, "lock") => Next1(t)[2] \in {"db", "table"} \cup Handles
           /\ using[t] \notin {"db", "table"}
<1> DEFINE r == request[t]
           h == using[t]
           k == at[t]
<1>1. r \in Kinds \cup {"none"} /\ h \in Handles \cup {Nobody} /\ k \in 1..(Len(Steps(t)) + 1)
  BY DEF IInv, TypeOK
<1>2. Len(Steps(t)) \in Nat
  BY <1>1, ScriptEnds DEF Steps
<1>3. k = Len(Steps(t)) + 1 => /\ ~HasDb(r, k) /\ ~HasTable(r, k)
                               /\ ~HasFile(r, k) /\ ~Reads(r, k)
  BY <1>1, ScriptEnds DEF Steps
<1>4. k \in 1..Len(Steps(t)) => Order(r, h, k, Next1(t)[1], Next1(t)[2])
  BY <1>1, ScriptSteps DEF Steps, Next1
<1>5. h \notin {"db", "table"}
  BY <1>1, LocksAssumption DEF Nobody
<1>6. At(t, "lock") => Next1(t)[2] \in {"db", "table"} \cup Handles
  <2> SUFFICES ASSUME At(t, "lock") PROVE Next1(t)[2] \in {"db", "table"} \cup Handles
    OBVIOUS
  <2>1. k \in 1..Len(Steps(t)) /\ Next1(t)[1] = "lock"
    BY DEF At
  <2>2. Next1(t)[2] \in {"db", "table", h}
    BY <1>1, <2>1, ScriptSteps DEF Steps, Next1, Effect
  <2> QED BY <2>1, <2>2, HandleIsKnown
<1> QED BY <1>1, <1>2, <1>3, <1>4, <1>5, <1>6

\* Whom a thread waits for: it holds what the thread asks for, or asks for the table.
LEMMA WaitsForHolder ==
    ASSUME IInv, NEW t \in Threads, NEW w \in Blockers(t)
    PROVE  /\ w \in Threads
           /\ At(t, "lock") \/ At(t, "read")
           /\ At(t, "lock") /\ Next1(t)[2] = "db" => HasDb(request[w], at[w])
           /\ At(t, "lock") /\ Next1(t)[2] \in Handles => HasFile(request[w], at[w])
           /\ WaitsToWriteTable(t) =>
                HasTable(request[w], at[w]) \/ Reads(request[w], at[w])
           /\ At(t, "read") => HasTable(request[w], at[w]) \/ WaitsToWriteTable(w)
<1>1. LocksFollowScripts
  BY DEF IInv
<1>2. At(t, "lock") => ~At(t, "read")
  BY DEF At
<1> QED BY <1>1, <1>2, LocksAssumption
        DEF Blockers, LocksFollowScripts, WaitsToWriteTable

\* The circles: an order of the locks without free_up_space, another without a write.
LEMMA CirclesNeedBoth == IInv => DeadlockNeedsFreeUp
<1> SUFFICES ASSUME IInv, NEW C \in SUBSET Threads, Stuck(C)
             PROVE  /\ \E t \in C : request[t] = "freeUp"
                    /\ \E t \in C : request[t] = "write"
  BY DEF DeadlockNeedsFreeUp
<1> DEFINE ForDb(t) == At(t, "lock") /\ Next1(t)[2] = "db"
           ForFile(t) == At(t, "lock") /\ Next1(t)[2] \in Handles
           ForTable(t) == WaitsToWriteTable(t) \/ At(t, "read")
<1>1. \A t \in C : ForDb(t) \/ ForFile(t) \/ ForTable(t)
  <2> SUFFICES ASSUME NEW t \in C PROVE ForDb(t) \/ ForFile(t) \/ ForTable(t)
    OBVIOUS
  <2>1. PICK w \in Blockers(t) : TRUE
    BY DEF Stuck
  <2> QED BY <2>1, WaitsForHolder, HoldersGoOn DEF WaitsToWriteTable
\* whoever holds the table for writing waits for nothing
<1>2. \A t \in C : ~HasTable(request[t], at[t])
  <2> SUFFICES ASSUME NEW t \in C, HasTable(request[t], at[t]) PROVE FALSE
    OBVIOUS
  <2>1. Next1(t)[1] \in {"insert", "remove", "unlock"}
    BY HoldersGoOn DEF Order
  <2> QED BY <1>1, <2>1 DEF At, WaitsToWriteTable
\* without the table's readers nobody waits for the table
<1>3. ASSUME \A t \in C : ~Reads(request[t], at[t])
      PROVE  \A t \in C : ~ForTable(t)
  <2>1. ASSUME NEW t \in C, WaitsToWriteTable(t) PROVE FALSE
    <3>1. PICK w \in C : w \in Blockers(t)
      BY DEF Stuck
    <3> QED BY <1>2, <1>3, <2>1, <3>1, WaitsForHolder
  <2>2. ASSUME NEW t \in C, At(t, "read") PROVE FALSE
    <3>1. PICK w \in C : w \in Blockers(t)
      BY DEF Stuck
    <3> QED BY <1>2, <2>1, <2>2, <3>1, WaitsForHolder
  <2> QED BY <2>1, <2>2
<1>4. ASSUME \A t \in C : request[t] # "freeUp" PROVE FALSE
  <2>1. \A t \in C : ~HasDb(request[t], at[t])
    <3> SUFFICES ASSUME NEW t \in C, HasDb(request[t], at[t]) PROVE FALSE
      OBVIOUS
    <3>1. Next1(t)[1] = "unlock"
      BY <1>4, HoldersGoOn DEF Order
    <3> QED BY <1>1, <3>1 DEF At, WaitsToWriteTable
  <2>2. \A t \in C : ~ForDb(t)
    <3> SUFFICES ASSUME NEW t \in C, ForDb(t) PROVE FALSE
      OBVIOUS
    <3>1. PICK w \in C : w \in Blockers(t)
      BY DEF Stuck
    <3> QED BY <2>1, <3>1, WaitsForHolder
  <2>3. \A t \in C : ~HasFile(request[t], at[t])
    <3> SUFFICES ASSUME NEW t \in C, HasFile(request[t], at[t]) PROVE FALSE
      OBVIOUS
    <3>1. \/ Next1(t)[1] = "unlock"
          \/ ForDb(t)
      BY HoldersGoOn DEF Order, At
    <3> QED BY <1>1, <2>2, <3>1 DEF At, WaitsToWriteTable
  <2>4. \A t \in C : ~ForFile(t)
    <3> SUFFICES ASSUME NEW t \in C, ForFile(t) PROVE FALSE
      OBVIOUS
    <3>1. PICK w \in C : w \in Blockers(t)
      BY DEF Stuck
    <3> QED BY <2>3, <3>1, WaitsForHolder
  <2>5. \A t \in C : ~Reads(request[t], at[t])
    <3> SUFFICES ASSUME NEW t \in C, Reads(request[t], at[t]) PROVE FALSE
      OBVIOUS
    <3>1. Next1(t)[1] \in {"lock", "unlock", "unread", "scan"}
          /\ ~(At(t, "lock") /\ Next1(t)[2] = "table")
      BY HoldersGoOn DEF Order, At
    <3> QED BY <1>1, <2>2, <2>4, <3>1 DEF At, WaitsToWriteTable
  <2>6. C = {}
    BY <1>1, <1>3, <2>2, <2>4, <2>5
  <2> QED BY <2>6 DEF Stuck
<1>5. ASSUME \A t \in C : request[t] # "write" PROVE FALSE
  <2>1. \A t \in C : ~HasFile(request[t], at[t])
    <3> SUFFICES ASSUME NEW t \in C, HasFile(request[t], at[t]) PROVE FALSE
      OBVIOUS
    <3>1. Next1(t)[1] = "unlock"
      BY <1>5, HoldersGoOn DEF Order
    <3> QED BY <1>1, <3>1 DEF At, WaitsToWriteTable
  <2>2. \A t \in C : ~ForFile(t)
    <3> SUFFICES ASSUME NEW t \in C, ForFile(t) PROVE FALSE
      OBVIOUS
    <3>1. PICK w \in C : w \in Blockers(t)
      BY DEF Stuck
    <3> QED BY <2>1, <3>1, WaitsForHolder
  <2>3. \A t \in C : ~Reads(request[t], at[t])
    <3> SUFFICES ASSUME NEW t \in C, Reads(request[t], at[t]) PROVE FALSE
      OBVIOUS
    <3>1. \/ Next1(t)[1] \in {"unlock", "unread", "scan"}
          \/ At(t, "lock") /\ Next1(t)[2] = using[t]
      BY <1>5, HoldersGoOn DEF Order, At
    <3> QED BY <1>1, <2>2, <3>1, HoldersGoOn DEF At, WaitsToWriteTable
  <2>4. \A t \in C : ~ForTable(t)
    BY <1>3, <2>3
  <2>5. \A t \in C : ~HasDb(request[t], at[t])
    <3> SUFFICES ASSUME NEW t \in C, HasDb(request[t], at[t]) PROVE FALSE
      OBVIOUS
    <3>1. \/ Next1(t)[1] \in {"unlock", "unread", "scan"}
          \/ At(t, "read")
          \/ At(t, "lock") /\ Next1(t)[2] = using[t]
      BY <1>5, HoldersGoOn DEF Order, At
    <3> QED BY <1>1, <2>2, <2>4, <3>1, HoldersGoOn DEF At, WaitsToWriteTable
  <2>6. \A t \in C : ~ForDb(t)
    <3> SUFFICES ASSUME NEW t \in C, ForDb(t) PROVE FALSE
      OBVIOUS
    <3>1. PICK w \in C : w \in Blockers(t)
      BY DEF Stuck
    <3> QED BY <2>5, <3>1, WaitsForHolder
  <2>7. C = {}
    BY <1>1, <2>2, <2>4, <2>6
  <2> QED BY <2>7 DEF Stuck
<1> QED BY <1>4, <1>5

\* In every reachable state the table and the kernel agree, and only circles through
\* free_up_space and a write can form (fs.rs:31: metadata requests keep flowing).
THEOREM CirclesNeedFreeUp == Spec => []LocksAreSound
<1>1. IInv => LocksAreSound
  BY CirclesNeedBoth DEF IInv, LocksAreSound
<1> QED BY <1>1, InitInv, NextInv, PTL DEF Spec

-----------------------------------------------------------------------------
(* Opens of files that are not in the cache.  The list first, whatever happens: each
   entry has an id of its own and is of an open, or an upload, that runs. *)

OpenRecord == [pc : {"closed", "look", "create", "register", "run", "failed", "opened"},
               inode : 0 .. MaxOpens + 1, id : Nat \cup {-1}, cached : BOOLEAN,
               by : Programs \cup {Viewer, O!Command}]
ListTypes ==
  /\ next \in Nat /\ cachePath \in 0 .. MaxOpens + 1
  /\ entries \subseteq [id : 0 .. next - 1, who : Opens \cup Uploads, done : 0 .. Blocks]
  /\ opens \in [Opens -> OpenRecord]
  /\ upload \in [Uploads -> [pc : {"idle", "run", "ended", "panicked"}, id : Nat \cup {-1}]]
RowType == row.cached \in BOOLEAN /\ DOMAIN row = {"cached", "size"}

Transfers(r) == r.pc \in {"create", "register", "run", "failed"}
Uploading(r) == r.pc \in {"run", "panicked"}
EntryOf(es, x, id) == \E e \in es : e.id = id /\ e.who = x
HasOwner(os, us, e) == \/ e.who \in Opens /\ os[e.who].id = e.id
                       \/ e.who \in Uploads /\ us[e.who].id = e.id /\ Uploading(us[e.who])

ListInv ==
  /\ ListTypes
  /\ \A e, f \in entries : e.id = f.id => e = f
  /\ \A o \in Opens : IF Transfers(opens[o]) THEN EntryOf(entries, o, opens[o].id) ELSE opens[o].id = -1
  /\ \A u \in Uploads : Uploading(upload[u]) => EntryOf(entries, u, upload[u].id)
  /\ \A e \in entries : HasOwner(opens, upload, e)
  /\ "panic" \notin cacheFeatures => \A u \in Uploads : upload[u].pc # "panicked"
  /\ \A h \in handles : EntryOf(entries, h[2], h[1])

\* What the user saw is still told by its ids, unless they began again.
SeenIsKnown ==
  /\ "kill" \notin cacheFeatures =>
       /\ \A e \in seen : e.id \in 0 .. next - 1 /\ \A f \in entries : f.id = e.id => f.who = e.who
       /\ aborted \subseteq meant

\* One at a time, and no kills: the file under the path is whole unless a download is
\* writing it, and then it has the blocks the list says.
Alone == cacheFeatures \cap {"overlap", "kill"} = {}
Underway(r) == r.pc \notin {"closed", "opened"}
Writes(r) == r.pc \in {"register", "run"}

FileTypes ==
  /\ inodes \in [1 .. MaxOpens + 1 -> SUBSET (1 .. Blocks)]

\* What is so of an open r, with these entries, files, path, and row.
FileOf(r, es, files, p, w) ==
  /\ r.pc = "opened" => r.inode # 0 /\ files[r.inode] = 1 .. Blocks /\ r.by # O!Command
  /\ r.pc = "create" => p = 0 /\ \A e \in es : e.id = r.id => e.done = 0
  /\ Writes(r) => p = r.inode /\ p # 0 /\ \A e \in es : e.id = r.id => files[p] = 1 .. e.done
  /\ Transfers(r) => ~w.cached /\ (r.by \in Thumbnailers => r.cached)
  /\ r.pc = "look" => (r.by \in Thumbnailers => r.cached) /\ (r.cached => w.cached \/ p = 0)
PathIsWhole == (cachePath # 0 /\ \A o \in Opens : ~Transfers(opens[o])) => inodes[cachePath] = 1 .. Blocks
RowIsTrue == /\ row.cached => cachePath # 0 /\ row.size = Blocks
             /\ kept = "yes" => row.cached

FilesAreWhole ==
  /\ \A o, p \in Opens : Underway(opens[o]) /\ Underway(opens[p]) => o = p
  /\ \A o \in Opens : FileOf(opens[o], entries, inodes, cachePath, row)
  /\ PathIsWhole /\ RowIsTrue

Below == {"document", "file", "gone"}
CommandIsTrue ==
  /\ offline \in [value : {"none", "offline", "online-only"}, below : SUBSET Below, left : Seq(Below),
                  failed : Nat]
  /\ "gone" \in offline.below => offline.failed > 0 \/ \E i \in DOMAIN offline.left : offline.left[i] = "gone"
  /\ (offline.value = "offline" /\ "file" \in offline.below) =>
       \/ offline.failed > 0 \/ kept # "no" \/ O!Waits
       \/ \E i \in DOMAIN offline.left : offline.left[i] = "file"

ListsAreLoaded ==
  config \in (IF "programs" \in cacheFeatures THEN {O!Load(f) : f \in ConfigFiles} ELSE {O!Defaults})

OpensInv == /\ RowType /\ ListInv /\ SeenIsKnown /\ ListsAreLoaded
            /\ Alone => FileTypes /\ FilesAreWhole /\ CommandIsTrue

\* A step that leaves the list alone, and of an open the id.
LEMMA ListStays ==
    ASSUME ListInv, NEW o \in Opens, NEW r,
           r \in OpenRecord,
           opens' = [opens EXCEPT ![o] = r], r.id = opens[o].id,
           Transfers(r) <=> Transfers(opens[o]),
           UNCHANGED <<cacheFeatures, next, entries, upload>>, cachePath' \in 0 .. MaxOpens + 1,
           \A h \in handles' : h \in handles \/ EntryOf(entries, h[2], h[1])
    PROVE  ListInv'
<1>1. /\ opens'[o] = r /\ \A p \in Opens : p # o => opens'[p] = opens[p]
      /\ \A p \in Opens : opens'[p].id = opens[p].id /\ (Transfers(opens'[p]) <=> Transfers(opens[p]))
  BY DEF ListInv, ListTypes, OpenRecord, Transfers
<1>2. ListTypes'
  BY DEF ListInv, ListTypes
<1>3. \A x, id : EntryOf(entries', x, id) <=> EntryOf(entries, x, id)
  BY DEF EntryOf
<1>4. \A u : Uploading(upload'[u]) <=> Uploading(upload[u])
  BY DEF Uploading
<1> QED BY <1>1, <1>2, <1>3, <1>4 DEF ListInv, HasOwner

\* One that ends a transfer takes its entry and its handle out of the list.
LEMMA ListEnds ==
    ASSUME ListInv, NEW o \in Opens, NEW r \in OpenRecord, Transfers(opens[o]), O!Mark(opens[o].id),
           opens' = [opens EXCEPT ![o] = r], r.id = -1,
           ~Transfers(r),
           UNCHANGED <<cacheFeatures, next, upload>>, cachePath' \in 0 .. MaxOpens + 1
    PROVE  ListInv'
<1>1. /\ opens'[o] = r /\ ~Transfers(opens'[o]) /\ opens'[o].id = -1
      /\ \A p \in Opens : p # o => opens'[p] = opens[p] /\ (Transfers(opens'[p]) <=> Transfers(opens[p]))
  BY DEF ListInv, ListTypes, OpenRecord, Transfers
<1>2. /\ entries' = {e \in entries : e.id # opens[o].id}
      /\ handles' = {h \in handles : h[1] # opens[o].id}
  BY DEF O!Mark
<1>3. ListTypes'
  BY <1>2 DEF ListInv, ListTypes
<1>4. \A x, id : EntryOf(entries, x, id) /\ id # opens[o].id => EntryOf(entries', x, id)
  BY <1>2 DEF EntryOf
<1>5. \A x, id : EntryOf(entries, x, id) /\ x # o => id # opens[o].id
  BY DEF ListInv, EntryOf
<1>6. \A p \in Opens : IF Transfers(opens'[p]) THEN EntryOf(entries', p, opens'[p].id) ELSE opens'[p].id = -1
  BY <1>1, <1>4, <1>5 DEF ListInv
<1>7. \A u \in Uploads : Uploading(upload'[u]) => EntryOf(entries', u, upload'[u].id)
  BY <1>4, <1>5, OpensAreGiven DEF ListInv, Uploading
<1>8. \A e \in entries' : HasOwner(opens', upload', e)
  BY <1>1, <1>2 DEF ListInv, HasOwner
<1>9. \A h \in handles' : EntryOf(entries', h[2], h[1])
  BY <1>2, <1>4 DEF ListInv
<1> QED BY <1>2, <1>3, <1>6, <1>7, <1>8, <1>9 DEF ListInv

\* A transfer that begins has the next id.
LEMMA ListGrows ==
    ASSUME ListInv, NEW x \in Opens \cup Uploads, O!Add(x)
    PROVE  /\ next' \in Nat /\ entries' \subseteq [id : 0 .. next' - 1, who : Opens \cup Uploads, done : 0 .. Blocks]
           /\ \A e, f \in entries' : e.id = f.id => e = f
           /\ \A y, id : EntryOf(entries, y, id) => EntryOf(entries', y, id)
           /\ EntryOf(entries', x, next)
           /\ \A e \in entries' : e \in entries \/ (e.who = x /\ e.id = next /\ e.done = 0)
<1>1. entries' = entries \cup {[id |-> next, who |-> x, done |-> 0]} /\ next' = next + 1
  BY DEF O!Add, O!Entry
<1>2. /\ next \in Nat /\ \A e, f \in entries : e.id = f.id => e = f
      /\ entries \subseteq [id : 0 .. next - 1, who : Opens \cup Uploads, done : 0 .. Blocks]
  BY DEF ListInv, ListTypes
<1>3. [id |-> next, who |-> x, done |-> 0] \in [id : 0 .. next' - 1, who : Opens \cup Uploads, done : 0 .. Blocks]
  BY <1>1, <1>2, OpensAreGiven
<1>4. ASSUME NEW e \in entries
      PROVE  e.id < next /\ e \in [id : 0 .. next' - 1, who : Opens \cup Uploads, done : 0 .. Blocks]
  <2>1. e \in [id : 0 .. next - 1, who : Opens \cup Uploads, done : 0 .. Blocks]
    BY <1>2
  <2>2. 0 .. next - 1 \subseteq 0 .. next' - 1
    BY <1>1, <1>2
  <2>3. e.id < next
    BY <2>1, <1>2
  <2> QED BY <2>1, <2>2, <2>3
<1> DEFINE new == [id |-> next, who |-> x, done |-> 0]
<1>5. /\ new.id = next /\ new.who = x /\ new.done = 0
      /\ new \in [id : 0 .. next' - 1, who : Opens \cup Uploads, done : 0 .. Blocks]
      /\ entries' = entries \cup {new} /\ \A e \in entries : e.id # new.id
  BY <1>1, <1>2, <1>3, <1>4
<1>6. next' \in Nat
  BY <1>1, <1>2
<1> HIDE DEF new
<1>7. \A e, f \in entries' : e.id = f.id => e = f
  BY <1>2, <1>5
<1>8. EntryOf(entries', x, next) /\ \A y, id : EntryOf(entries, y, id) => EntryOf(entries', y, id)
  BY <1>5 DEF EntryOf
<1>9. entries' \subseteq [id : 0 .. next' - 1, who : Opens \cup Uploads, done : 0 .. Blocks]
  BY <1>4, <1>5
<1>10. \A e \in entries' : e \in entries \/ (e.who = x /\ e.id = next /\ e.done = 0)
  BY <1>5
<1> QED BY <1>6, <1>7, <1>8, <1>9, <1>10

LEMMA DownloadLists ==
    ASSUME ListInv, NEW o \in Opens, O!Download(o)
    PROVE  ListInv'
<1>1. /\ opens[o].pc = "look" /\ O!Add(o) /\ UNCHANGED <<cacheFeatures, upload, cachePath, handles>>
      /\ opens' = [opens EXCEPT ![o] = [opens[o] EXCEPT !.pc = "create", !.id = next]]
  BY DEF O!Download, O!At, O!Set
<1>a. opens \in [Opens -> OpenRecord] /\ next \in Nat
  BY DEF ListInv, ListTypes
<1>b. opens[o].id = -1
  BY <1>1 DEF ListInv, Transfers
<1>g. EntryOf(entries', o, next) /\ \A y, id : EntryOf(entries, y, id) => EntryOf(entries', y, id)
  BY <1>1, ListGrows
<1>2. /\ opens'[o].pc = "create" /\ opens'[o].id = next /\ Transfers(opens'[o])
      /\ opens'[o] \in OpenRecord
      /\ \A p \in Opens : p # o => opens'[p] = opens[p] /\ (Transfers(opens'[p]) <=> Transfers(opens[p]))
  BY <1>1, <1>a DEF OpenRecord, Transfers
<1>3. opens' \in [Opens -> OpenRecord]
  BY <1>1, <1>2 DEF ListInv, ListTypes
<1>4. \A e \in entries : e.id \in Nat
  BY DEF ListInv, ListTypes
<1>5. \A p \in Opens : IF Transfers(opens'[p]) THEN EntryOf(entries', p, opens'[p].id) ELSE opens'[p].id = -1
  BY <1>2, <1>g DEF ListInv
<1>6. \A u \in Uploads : Uploading(upload'[u]) => EntryOf(entries', u, upload'[u].id)
  BY <1>1, ListGrows DEF ListInv, Uploading
<1>7. \A e \in entries' : HasOwner(opens', upload', e)
  <2> SUFFICES ASSUME NEW e \in entries' PROVE HasOwner(opens', upload', e)
    OBVIOUS
  <2>1. CASE e \in entries
    BY <2>1, <1>1, <1>b, <1>2, <1>4 DEF ListInv, HasOwner
  <2>2. CASE e.who = o /\ e.id = next
    BY <2>2, <1>2 DEF HasOwner
  <2> QED BY <1>1, <2>1, <2>2, ListGrows
<1>8. \A h \in handles' : EntryOf(entries', h[2], h[1])
  BY <1>1, ListGrows DEF ListInv
<1> QED BY <1>1, <1>3, <1>5, <1>6, <1>7, <1>8, ListGrows DEF ListInv, ListTypes

LEMMA UploadLists ==
    ASSUME ListInv, NEW u \in Uploads, O!Upload(u)
    PROVE  ListInv'
<1>1. UNCHANGED <<cacheFeatures, cachePath, opens>> /\ \A o \in Opens : Transfers(opens'[o]) <=> Transfers(opens[o])
  BY DEF O!Upload, Transfers
<1>2. CASE /\ upload[u].pc = "idle" /\ O!Add(u) /\ UNCHANGED handles
           /\ upload' = [upload EXCEPT ![u] = [pc |-> "run", id |-> next]]
  <2>1. /\ upload'[u] = [pc |-> "run", id |-> next] /\ Uploading(upload'[u]) /\ ~Uploading(upload[u])
        /\ \A v \in Uploads : v # u => upload'[v] = upload[v] /\ (Uploading(upload'[v]) <=> Uploading(upload[v]))
        /\ upload' \in [Uploads -> [pc : {"idle", "run", "ended", "panicked"}, id : Nat \cup {-1}]]
    BY <1>2 DEF ListInv, ListTypes, Uploading
  <2>2. \A v \in Uploads : Uploading(upload'[v]) => EntryOf(entries', v, upload'[v].id)
    BY <2>1, <1>2, ListGrows DEF ListInv
  <2>3. \A p \in Opens : IF Transfers(opens'[p]) THEN EntryOf(entries', p, opens'[p].id) ELSE opens'[p].id = -1
    BY <1>1, <1>2, ListGrows DEF ListInv
  <2>4. \A e \in entries' : HasOwner(opens', upload', e)
    <3> SUFFICES ASSUME NEW e \in entries' PROVE HasOwner(opens', upload', e)
      OBVIOUS
    <3>1. CASE e \in entries
      BY <3>1, <1>1, <2>1 DEF ListInv, HasOwner
    <3>2. CASE e.who = u /\ e.id = next
      BY <3>2, <2>1 DEF HasOwner
    <3> QED BY <1>2, <3>1, <3>2, ListGrows
  <2>5. \A h \in handles' : EntryOf(entries', h[2], h[1])
    BY <1>2, ListGrows DEF ListInv
  <2>6. "panic" \notin cacheFeatures' => \A v \in Uploads : upload'[v].pc # "panicked"
    BY <1>1, <2>1 DEF ListInv
  <2> QED BY <1>1, <1>2, <2>1, <2>2, <2>3, <2>4, <2>5, <2>6, ListGrows DEF ListInv, ListTypes
<1>3. CASE /\ upload[u].pc = "run" /\ O!Mark(upload[u].id) /\ UNCHANGED next
           /\ upload' = [upload EXCEPT ![u].pc = "ended"]
  <2>1. /\ ~Uploading(upload'[u]) /\ Uploading(upload[u])
        /\ \A v \in Uploads : v # u => upload'[v] = upload[v] /\ (Uploading(upload'[v]) <=> Uploading(upload[v]))
        /\ upload' \in [Uploads -> [pc : {"idle", "run", "ended", "panicked"}, id : Nat \cup {-1}]]
        /\ \A v \in Uploads : upload'[v].pc = "panicked" => upload[v].pc = "panicked"
    BY <1>3 DEF ListInv, ListTypes, Uploading
  <2>2. /\ entries' = {e \in entries : e.id # upload[u].id}
        /\ handles' = {h \in handles : h[1] # upload[u].id}
    BY <1>3 DEF O!Mark
  <2>3. \A x, id : EntryOf(entries, x, id) /\ id # upload[u].id => EntryOf(entries', x, id)
    BY <2>2 DEF EntryOf
  <2>4. \A x, id : EntryOf(entries, x, id) /\ x # u => id # upload[u].id
    BY <2>1 DEF ListInv, EntryOf
  <2>5. \A p \in Opens : IF Transfers(opens'[p]) THEN EntryOf(entries', p, opens'[p].id) ELSE opens'[p].id = -1
    BY <1>1, <2>3, <2>4, OpensAreGiven DEF ListInv
  <2>6. \A v \in Uploads : Uploading(upload'[v]) => EntryOf(entries', v, upload'[v].id)
    BY <2>1, <2>3, <2>4 DEF ListInv
  <2>7. \A e \in entries' : HasOwner(opens', upload', e)
    BY <1>1, <2>1, <2>2 DEF ListInv, HasOwner
  <2>8. \A h \in handles' : EntryOf(entries', h[2], h[1])
    BY <2>2, <2>3 DEF ListInv
  <2>9. ListTypes'
    BY <1>1, <1>3, <2>1, <2>2 DEF ListInv, ListTypes
  <2> QED BY <1>1, <2>1, <2>2, <2>5, <2>6, <2>7, <2>8, <2>9 DEF ListInv
<1>4. CASE /\ "panic" \in cacheFeatures /\ upload[u].pc = "run"
           /\ upload' = [upload EXCEPT ![u].pc = "panicked"] /\ UNCHANGED <<next, entries, handles>>
  <2>1. /\ \A v \in Uploads : upload'[v].id = upload[v].id /\ (Uploading(upload'[v]) <=> Uploading(upload[v]))
        /\ upload' \in [Uploads -> [pc : {"idle", "run", "ended", "panicked"}, id : Nat \cup {-1}]]
    BY <1>4 DEF ListInv, ListTypes, Uploading
  <2>2. \A x, id : EntryOf(entries', x, id) <=> EntryOf(entries, x, id)
    BY <1>4 DEF EntryOf
  <2> QED BY <1>1, <1>4, <2>1, <2>2 DEF ListInv, ListTypes, HasOwner
<1> QED BY <1>2, <1>3, <1>4 DEF O!Upload, O!Tracker

\* The blocks of a download that were written are those its entry says.
LEMMA WrittenIsDone ==
    ASSUME ListInv, NEW o \in Opens
    PROVE  /\ O!Written(o) \in 0 .. Blocks
           /\ \A e \in entries : e.id = opens[o].id => O!Written(o) = e.done
<1> DEFINE blocks == {b \in 1 .. Blocks : \E e \in entries : e.id = opens[o].id /\ b <= e.done}
<1>a. \A n : O!Cardinality(n) = Cardinality(n)
  BY DEF O!Cardinality, Cardinality
<1>1. O!Written(o) = Cardinality(blocks)
  BY <1>a DEF O!Written, O!Whole
<1>2. CASE \E e \in entries : e.id = opens[o].id
  <2>1. PICK e \in entries : e.id = opens[o].id
    BY <1>2
  <2>2. e.done \in 0 .. Blocks /\ \A f \in entries : f.id = opens[o].id => f = e
    BY <2>1 DEF ListInv, ListTypes
  <2>3. blocks = 1 .. e.done
    BY <2>1, <2>2, OpensAreGiven
  <2>4. Cardinality(1 .. e.done) = e.done
    BY <2>2, FS_Interval, OpensAreGiven
  <2> QED BY <1>1, <2>2, <2>3, <2>4
<1>3. CASE \A e \in entries : e.id # opens[o].id
  <2>1. blocks = {}
    BY <1>3
  <2>2. O!Written(o) = 0
    BY <1>1, <2>1, FS_EmptySet
  <2> QED BY <1>3, <2>2, OpensAreGiven
<1> QED BY <1>2, <1>3

\* What an open ends with.
LEMMA EndsAs ==
    ASSUME ListInv, NEW o \in Opens, O!End(o)
    PROVE  \E r \in OpenRecord :
             /\ opens' = [opens EXCEPT ![o] = r] /\ r.id = -1 /\ ~Transfers(r)
<1>1. opens[o] \in OpenRecord /\ cachePath \in 0 .. MaxOpens + 1
  BY DEF ListInv, ListTypes
<1>2. O!Closed \in OpenRecord /\ O!Closed.id = -1 /\ ~Transfers(O!Closed)
  BY OpensAreGiven DEF O!Closed, OpenRecord, O!NoFile, Transfers
<1>3. CASE opens' = [opens EXCEPT ![o] = O!Closed]
  BY <1>2, <1>3
<1>4. CASE opens' = [opens EXCEPT ![o] = [opens[o] EXCEPT !.pc = "opened", !.inode = cachePath, !.id = -1]]
  <2> DEFINE r == [opens[o] EXCEPT !.pc = "opened", !.inode = cachePath, !.id = -1]
  <2>1. r \in OpenRecord /\ r.id = -1 /\ ~Transfers(r)
    BY <1>1 DEF OpenRecord, Transfers
  <2> QED BY <2>1, <1>4
<1> QED BY <1>3, <1>4 DEF O!End, O!Set

\* The list stays true with every step of an open.
LEMMA OpenLists ==
    ASSUME ListInv, RowType, NEW o \in Opens,
           \/ O!Open(o) \/ O!Serve(o) \/ O!Download(o) \/ O!Create(o) \/ O!Register(o) \/ O!Block(o)
           \/ O!Fail(o) \/ O!Complete(o) \/ O!RemovePartial(o) \/ O!Close(o)
    PROVE  ListInv'
<1>1. /\ opens[o] \in OpenRecord /\ opens[o].id \in Nat \cup {-1} /\ cachePath \in 0 .. MaxOpens + 1
      /\ ~Transfers(opens[o]) => opens[o].id = -1
      /\ Transfers(opens[o]) => EntryOf(entries, o, opens[o].id)
  BY DEF ListInv, ListTypes, OpenRecord
<1>2. O!Closed \in OpenRecord /\ O!Closed.id = -1 /\ ~Transfers(O!Closed)
  BY OpensAreGiven DEF O!Closed, OpenRecord, O!NoFile, Transfers
<1>b. opens \in [Opens -> OpenRecord]
  BY DEF ListInv, ListTypes
<1>3. CASE O!Open(o)
  <2>1. PICK by \in Programs \cup {Viewer} :
             opens' = [opens EXCEPT ![o] = [O!Closed EXCEPT !.pc = "look", !.cached = row.cached, !.by = by]]
    BY <1>3 DEF O!Open, O!Set
  <2> DEFINE r == [O!Closed EXCEPT !.pc = "look", !.cached = row.cached, !.by = by]
  <2>2. r \in OpenRecord /\ r.id = -1 /\ ~Transfers(r)
    BY <1>2 DEF OpenRecord, Transfers, RowType
  <2>3. /\ opens[o].pc = "closed" /\ UNCHANGED <<cacheFeatures, next, entries, upload, cachePath, handles>>
    BY <1>3 DEF O!Open, O!At, O!Tracker
  <2>4. r.id = opens[o].id /\ ~Transfers(opens[o])
    BY <1>1, <2>2, <2>3 DEF Transfers
  <2> QED BY <1>1, <2>1, <2>2, <2>3, <2>4, ListStays
<1>4. CASE O!Serve(o)
  <2>1. PICK r \in OpenRecord : opens' = [opens EXCEPT ![o] = r] /\ r.id = -1 /\ ~Transfers(r)
    BY <1>4, EndsAs DEF O!Serve
  <2>2. /\ opens[o].pc = "look" /\ UNCHANGED <<cacheFeatures, next, entries, upload, cachePath, handles>>
    BY <1>4 DEF O!Serve, O!At, O!Tracker
  <2> QED BY <1>1, <2>1, <2>2, ListStays DEF Transfers
<1>5. CASE O!Download(o)
  BY SMTT(30), <1>5, DownloadLists
<1>6. CASE O!Create(o)
  <2>1. /\ opens[o].pc = "create" /\ UNCHANGED <<cacheFeatures, next, entries, upload, handles>>
    BY <1>6 DEF O!Create, O!At, O!Tracker
  <2>2. CASE \E i \in 1 .. MaxOpens + 1 :
               cachePath' = i /\ opens' = [opens EXCEPT ![o] = [opens[o] EXCEPT !.pc = "register", !.inode = i]]
    <3>1. PICK i \in 1 .. MaxOpens + 1 :
               cachePath' = i /\ opens' = [opens EXCEPT ![o] = [opens[o] EXCEPT !.pc = "register", !.inode = i]]
      BY <2>2
    <3> DEFINE r == [opens[o] EXCEPT !.pc = "register", !.inode = i]
    <3>2. i \in 0 .. MaxOpens + 1
      BY OpensAreGiven
    <3>3. r \in OpenRecord /\ r.id = opens[o].id /\ Transfers(r)
      BY <1>1, <3>2 DEF OpenRecord, Transfers
    <3>4. Transfers(opens[o]) /\ cachePath' \in 0 .. MaxOpens + 1
      BY <2>1, <3>1, <3>2 DEF Transfers
    <3> QED BY <2>1, <3>1, <3>3, <3>4, ListStays
  <2>3. CASE opens' = [opens EXCEPT ![o].pc = "failed"] /\ UNCHANGED cachePath
    <3> DEFINE r == [opens[o] EXCEPT !.pc = "failed"]
    <3>1. r \in OpenRecord /\ r.id = opens[o].id /\ Transfers(r) /\ Transfers(opens[o])
      BY <1>1, <2>1 DEF OpenRecord, Transfers
    <3> QED BY <1>1, <2>1, <2>3, <3>1, ListStays
  <2>4. \A i \in {j \in O!Inodes : O!Unused(j) /\ \A k \in 1 .. j - 1 : ~O!Unused(k)} : i \in 1 .. MaxOpens + 1
    BY DEF O!Inodes
  <2>5. cachePath # 0 => cachePath \in 1 .. MaxOpens + 1
    BY <1>1, OpensAreGiven
  <2> QED BY ZenonT(60), <1>6, <2>2, <2>3, <2>4, <2>5 DEF O!Create, O!Set, O!Goto, O!NoFile
<1>7. CASE O!Register(o)
  <2>1. /\ opens[o].pc = "register" /\ UNCHANGED <<cacheFeatures, next, entries, upload, cachePath>>
        /\ opens' = [opens EXCEPT ![o].pc = "run"]
        /\ handles' \in {handles, handles \cup {<<opens[o].id, o>>}}
    BY <1>7 DEF O!Register, O!At, O!Goto, O!RegisterCancel
  <2> DEFINE r == [opens[o] EXCEPT !.pc = "run"]
  <2>2. r \in OpenRecord /\ r.id = opens[o].id /\ Transfers(r) /\ Transfers(opens[o])
    BY <1>1, <2>1 DEF OpenRecord, Transfers
  <2>3. \A h \in handles' : h \in handles \/ EntryOf(entries, h[2], h[1])
    BY <1>1, <2>1, <2>2
  <2> QED BY <1>1, <2>1, <2>2, <2>3, ListStays
<1>8. CASE O!Block(o)
  <2> DEFINE n == O!Written(o) + 1
             later(e) == IF e.id = opens[o].id THEN [e EXCEPT !.done = n] ELSE e
  <2>1. /\ O!Written(o) < Blocks /\ UNCHANGED <<cacheFeatures, next, upload, cachePath, opens, handles>>
        /\ entries' = {later(e) : e \in entries}
    BY <1>8 DEF O!Block, O!At, O!Progress
  <2>2. n \in 0 .. Blocks
    BY <2>1, WrittenIsDone, OpensAreGiven
  <2> HIDE DEF n
  <2>3. \A e \in entries : later(e).id = e.id /\ later(e).who = e.who /\ later(e) \in [id : 0 .. next - 1, who : Opens \cup Uploads, done : 0 .. Blocks]
    BY <2>2 DEF ListInv, ListTypes
  <2> HIDE DEF later
  <2>4. \A x, id : EntryOf(entries', x, id) <=> EntryOf(entries, x, id)
    BY <2>1, <2>3 DEF EntryOf
  <2>5. \A e, f \in entries' : e.id = f.id => e = f
    BY <2>1, <2>3 DEF ListInv
  <2>6. \A e \in entries' : HasOwner(opens', upload', e)
    BY <2>1, <2>3 DEF ListInv, HasOwner
  <2>7. ListTypes'
    BY <2>1, <2>3 DEF ListInv, ListTypes
  <2> QED BY <2>1, <2>4, <2>5, <2>6, <2>7 DEF ListInv
<1>9. CASE O!Fail(o)
  <2>1. /\ opens[o].pc = "run" /\ UNCHANGED <<cacheFeatures, next, entries, upload, cachePath, handles>>
        /\ opens' = [opens EXCEPT ![o].pc = "failed"]
    BY <1>9 DEF O!Fail, O!At, O!Goto, O!Tracker
  <2> DEFINE r == [opens[o] EXCEPT !.pc = "failed"]
  <2>2. r \in OpenRecord /\ r.id = opens[o].id /\ Transfers(r) /\ Transfers(opens[o])
    BY <1>1, <2>1 DEF OpenRecord, Transfers
  <2> QED BY <1>1, <2>1, <2>2, ListStays
<1>10. CASE O!Complete(o)
  <2>1. PICK r \in OpenRecord : opens' = [opens EXCEPT ![o] = r] /\ r.id = -1 /\ ~Transfers(r)
    BY <1>10, EndsAs DEF O!Complete
  <2>2. /\ opens[o].pc = "run" /\ UNCHANGED <<cacheFeatures, next, upload, cachePath>> /\ O!Mark(opens[o].id)
    BY <1>10 DEF O!Complete, O!At
  <2> QED BY <1>1, <2>1, <2>2, ListEnds DEF Transfers
<1>11. CASE O!RemovePartial(o)
  <2>1. /\ opens[o].pc = "failed" /\ UNCHANGED <<cacheFeatures, next, upload>> /\ O!Mark(opens[o].id)
        /\ cachePath' = 0 /\ opens' = [opens EXCEPT ![o] = O!Closed]
    BY <1>11 DEF O!RemovePartial, O!At, O!Set, O!NoFile
  <2>2. cachePath' \in 0 .. MaxOpens + 1
    BY <2>1, OpensAreGiven
  <2> QED BY <1>2, <2>1, <2>2, ListEnds DEF Transfers
<1>12. CASE O!Close(o)
  <2>1. /\ opens[o].pc = "opened" /\ UNCHANGED <<cacheFeatures, next, entries, upload, cachePath, handles>>
        /\ opens' = [opens EXCEPT ![o] = O!Closed]
    BY <1>12 DEF O!Close, O!At, O!Set, O!Tracker
  <2> QED BY <1>1, <1>2, <2>1, ListStays DEF Transfers
<1> QED BY <1>3, <1>4, <1>5, <1>6, <1>7, <1>8, <1>9, <1>10, <1>11, <1>12

\* The set that a command opens with its own program.
LEMMA KeepsOpens ==
    ASSUME ListInv, RowType, O!SetAvailability
    PROVE  \/ UNCHANGED opens
           \/ \E o \in Opens, r \in OpenRecord :
                /\ opens[o].pc = "closed" /\ opens' = [opens EXCEPT ![o] = r]
                /\ r.pc = "look" /\ r.id = -1 /\ r.by = O!Command /\ r.cached = row.cached
                /\ offline.value = "offline" /\ Head(offline.left) = "file"
                /\ UNCHANGED <<cachePath, row, kept>> /\ offline' = [offline EXCEPT !.left = Tail(@)]
                /\ "overlap" \in cacheFeatures \/ O!Reading = {}
<1>1. ASSUME ~UNCHANGED opens
      PROVE  \E o \in Opens, r \in OpenRecord :
                /\ opens[o].pc = "closed" /\ opens' = [opens EXCEPT ![o] = r]
                /\ r.pc = "look" /\ r.id = -1 /\ r.by = O!Command /\ r.cached = row.cached
                /\ offline.value = "offline" /\ Head(offline.left) = "file"
                /\ UNCHANGED <<cachePath, row, kept>> /\ offline' = [offline EXCEPT !.left = Tail(@)]
                /\ "overlap" \in cacheFeatures \/ O!Reading = {}
  <2>1. PICK o \in Opens :
          /\ opens[o].pc = "closed"
          /\ opens' = [opens EXCEPT ![o] = [O!Closed EXCEPT !.pc = "look", !.cached = row.cached, !.by = O!Command]]
          /\ offline.value = "offline" /\ Head(offline.left) = "file"
          /\ UNCHANGED <<cachePath, row, kept>> /\ offline' = [offline EXCEPT !.left = Tail(@)]
          /\ "overlap" \in cacheFeatures \/ O!Reading = {}
    BY <1>1 DEF O!SetAvailability, O!Set
  <2> DEFINE r == [O!Closed EXCEPT !.pc = "look", !.cached = row.cached, !.by = O!Command]
  <2>2. O!Closed \in OpenRecord /\ O!Closed.id = -1
    BY OpensAreGiven DEF O!Closed, OpenRecord, O!NoFile
  <2>3. r \in OpenRecord /\ r.pc = "look" /\ r.id = -1 /\ r.by = O!Command /\ r.cached = row.cached
    BY <2>2 DEF OpenRecord, RowType
  <2> QED BY <2>1, <2>3
<1> QED BY <1>1

\* And with every other step.
LEMMA ListIsKept == ASSUME RowType, ListInv, O!Next PROVE RowType' /\ ListInv'
<1>1. ASSUME NEW o \in Opens,
             \/ O!Open(o) \/ O!Serve(o) \/ O!Download(o) \/ O!Create(o) \/ O!Register(o) \/ O!Block(o)
             \/ O!Fail(o) \/ O!Complete(o) \/ O!RemovePartial(o) \/ O!Close(o)
      PROVE  RowType' /\ ListInv'
  <2>1. ListInv'
    BY SMTT(30), <1>1, OpenLists
  <2>2. \/ UNCHANGED row
        \/ row' = [cached |-> (row.cached \/ ~opens[o].cached), size |-> O!Size(cachePath)]
        \/ row' = [cached |-> TRUE, size |-> IF cachePath = 0 THEN row.size ELSE O!Size(cachePath)]
    BY <1>1 DEF O!Open, O!Serve, O!Download, O!Create, O!Register, O!Block, O!Fail, O!Complete, O!RemovePartial,
                O!Close, O!NoFile
  <2>a. CASE UNCHANGED row
    BY <2>1, <2>a DEF RowType
  <2>b. CASE row' = [cached |-> (row.cached \/ ~opens[o].cached), size |-> O!Size(cachePath)]
    BY <2>1, <2>b DEF RowType
  <2>c. CASE row' = [cached |-> TRUE, size |-> IF cachePath = 0 THEN row.size ELSE O!Size(cachePath)]
    BY <2>1, <2>c DEF RowType
  <2> QED BY <2>2, <2>a, <2>b, <2>c
<1>2. ASSUME NEW u \in Uploads, O!Upload(u) PROVE RowType' /\ ListInv'
  BY <1>2, UploadLists DEF O!Upload, RowType
<1>3. ASSUME UNCHANGED <<cacheFeatures, next, entries, opens, upload, handles>>, cachePath' \in 0 .. MaxOpens + 1
      PROVE  ListInv'
  BY <1>3 DEF ListInv, ListTypes, HasOwner
<1>a. 0 \in 0 .. MaxOpens + 1 /\ cachePath \in 0 .. MaxOpens + 1 /\ opens \in [Opens -> OpenRecord]
  BY OpensAreGiven DEF ListInv, ListTypes
<1>4. CASE O!FreeUp \/ O!RemoteUpdate
  <2>1. UNCHANGED <<cacheFeatures, next, entries, opens, upload, handles>> /\ cachePath' = 0
    BY <1>4 DEF O!FreeUp, O!RemoteUpdate, O!FreeUpSpace, O!NoFile, O!Tracker
  <2>2. row' = [row EXCEPT !.cached = FALSE]
    BY <1>4 DEF O!FreeUp, O!RemoteUpdate, O!FreeUpSpace
  <2>3. RowType'
    BY <2>2 DEF RowType
  <2> QED BY <1>3, <1>a, <2>1, <2>3
<1>5. CASE O!Snapshot \/ O!Apply \/ \E e \in seen : O!Cancel(e)
  <2>1. UNCHANGED <<cacheFeatures, next, entries, opens, upload, handles, cachePath, row>>
    BY <1>5 DEF O!Snapshot, O!Apply, O!Cancel, O!Tracker
  <2> QED BY <1>3, <1>a, <2>1 DEF RowType
<1>6. CASE O!Restart
  <2>1. /\ opens' = [o \in Opens |-> O!Closed] /\ upload' = [u \in Uploads |-> O!NoUpload]
        /\ next' = 0 /\ entries' = {} /\ handles' = {} /\ UNCHANGED <<cacheFeatures, cachePath, row>>
    BY <1>6 DEF O!Restart
  <2>2. /\ O!Closed \in OpenRecord /\ O!Closed.id = -1 /\ ~Transfers(O!Closed)
        /\ O!NoUpload \in [pc : {"idle", "run", "ended", "panicked"}, id : Nat \cup {-1}]
        /\ ~Uploading(O!NoUpload) /\ O!NoUpload.pc # "panicked"
    BY OpensAreGiven DEF O!Closed, OpenRecord, O!NoFile, Transfers, Uploading, O!NoUpload
  <2>3. ListTypes'
    BY <1>a, <2>1, <2>2 DEF ListTypes
  <2> QED BY <2>1, <2>2, <2>3 DEF ListInv, RowType
<1>7. CASE O!SetAvailability
  <2>1. UNCHANGED <<cacheFeatures, next, entries, upload, handles>>
    BY <1>7 DEF O!SetAvailability, O!Tracker
  <2>2. /\ cachePath' \in {0, cachePath}
        /\ UNCHANGED row \/ row' = [row EXCEPT !.cached = FALSE]
    BY <1>7 DEF O!SetAvailability, O!FreeUpSpace, O!NoFile
  <2>3. RowType'
    BY <2>2 DEF RowType
  <2>4. CASE UNCHANGED opens
    BY <1>3, <1>a, <2>1, <2>2, <2>3, <2>4
  <2>5. ASSUME NEW o \in Opens, NEW r \in OpenRecord, opens[o].pc = "closed", opens' = [opens EXCEPT ![o] = r],
               r.pc = "look", r.id = -1
        PROVE  ListInv'
    <3>1. ~Transfers(r) /\ ~Transfers(opens[o]) /\ r.id = opens[o].id
      BY <2>5 DEF Transfers, ListInv
    <3> QED BY <1>a, <2>1, <2>2, <2>5, <3>1, ListStays
  <2> QED BY <1>7, <2>3, <2>4, <2>5, KeepsOpens
<1> QED BY <1>1, <1>2, <1>4, <1>5, <1>6, <1>7 DEF O!Next

\* What the user saw keeps its meaning as the list changes, since an id is not given twice.
LEMMA KnownGrows ==
    ASSUME SeenIsKnown, ListInv, UNCHANGED cacheFeatures, next' \in {next, next + 1}, seen' \subseteq seen,
           aborted' \subseteq aborted, meant \subseteq meant',
           \A f \in entries' : f.id = next \/ EntryOf(entries, f.who, f.id)
    PROVE  SeenIsKnown'
<1>1. next \in Nat
  BY DEF ListInv, ListTypes
<1>2. SUFFICES ASSUME "kill" \notin cacheFeatures
               PROVE  /\ \A e \in seen' : e.id \in 0 .. next' - 1 /\ \A f \in entries' : f.id = e.id => f.who = e.who
                      /\ aborted' \subseteq meant'
  BY DEF SeenIsKnown
<1>3. ASSUME NEW e \in seen PROVE e.id \in 0 .. next - 1 /\ \A f \in entries : f.id = e.id => f.who = e.who
  BY <1>2, <1>3 DEF SeenIsKnown
<1>4. ASSUME NEW e \in seen' PROVE e.id \in 0 .. next' - 1
  BY <1>1, <1>3, <1>4
<1>5. ASSUME NEW e \in seen', NEW f \in entries', f.id = e.id PROVE f.who = e.who
  <2>1. e.id # next
    BY <1>1, <1>3
  <2>2. PICK g \in entries : g.id = f.id /\ g.who = f.who
    BY <1>5, <2>1 DEF EntryOf
  <2> QED BY <1>3, <1>5, <2>2
<1>6. aborted' \subseteq meant'
  BY <1>2 DEF SeenIsKnown
<1> QED BY <1>4, <1>5, <1>6

LEMMA OpensKeepKnown ==
    ASSUME SeenIsKnown, ListInv, NEW o \in Opens,
           \/ O!Open(o) \/ O!Serve(o) \/ O!Download(o) \/ O!Create(o) \/ O!Register(o) \/ O!Block(o)
           \/ O!Fail(o) \/ O!Complete(o) \/ O!RemovePartial(o) \/ O!Close(o)
    PROVE  SeenIsKnown' /\ UNCHANGED <<cacheFeatures, config>>
<1>1. UNCHANGED <<cacheFeatures, config, seen, meant>>
  BY ZenonT(60) DEF O!Open, O!Serve, O!Download, O!Create, O!Register, O!Block, O!Fail, O!Complete, O!RemovePartial, O!Close,
         O!At, O!User
<1>2. next' \in {next, next + 1} /\ aborted' \subseteq aborted
  BY ZenonT(60) DEF O!Open, O!Serve, O!Download, O!Create, O!Register, O!Block, O!Fail, O!Complete, O!RemovePartial, O!Close,
         O!Tracker, O!Add
<1>3. \/ entries' \subseteq entries
      \/ entries' = entries \cup {O!Entry(next, o)}
      \/ entries' = {IF e.id = opens[o].id THEN [e EXCEPT !.done = O!Written(o) + 1] ELSE e : e \in entries}
  BY DEF O!Open, O!Serve, O!Download, O!Create, O!Register, O!Block, O!Fail, O!Complete, O!RemovePartial, O!Close,
         O!Tracker, O!Add, O!Progress, O!Mark
<1>4. \A f \in entries' : f.id = next \/ EntryOf(entries, f.who, f.id)
  <2>1. CASE entries' \subseteq entries
    BY <2>1 DEF EntryOf
  <2>2. CASE entries' = entries \cup {O!Entry(next, o)}
    BY <2>2 DEF EntryOf, O!Entry
  <2>3. CASE entries' = {IF e.id = opens[o].id THEN [e EXCEPT !.done = O!Written(o) + 1] ELSE e : e \in entries}
    <3> DEFINE later(e) == IF e.id = opens[o].id THEN [e EXCEPT !.done = O!Written(o) + 1] ELSE e
    <3>1. \A e \in entries : later(e).id = e.id /\ later(e).who = e.who
      BY DEF ListInv, ListTypes
    <3>2. entries' = {later(e) : e \in entries}
      BY <2>3
    <3> HIDE DEF later
    <3> QED BY <3>1, <3>2 DEF EntryOf
  <2> QED BY <1>3, <2>1, <2>2, <2>3
<1> QED BY <1>1, <1>2, <1>4, KnownGrows

\* A task that is aborted is that of the entry that the user saw.
LEMMA CancelIsMeant ==
    ASSUME SeenIsKnown, ListInv, NEW e \in seen, O!Cancel(e)
    PROVE  SeenIsKnown'
<1>1. /\ UNCHANGED <<cacheFeatures, next, entries, handles>> /\ seen' = {} /\ meant' = meant \cup {e.who}
      /\ aborted' = aborted \cup {o \in {h[2] : h \in {x \in handles : x[1] = e.id}} : opens[o].pc = "run"}
  BY DEF O!Cancel, O!Tracker
<1>2. ASSUME "kill" \notin cacheFeatures, NEW h \in handles, h[1] = e.id PROVE h[2] = e.who
  <2>1. PICK f \in entries : f.id = e.id /\ f.who = h[2]
    BY <1>2 DEF ListInv, EntryOf
  <2> QED BY <1>2, <2>1 DEF SeenIsKnown
<1> QED BY <1>1, <1>2 DEF SeenIsKnown

LEMMA SeenIsKept ==
    ASSUME SeenIsKnown, ListsAreLoaded, ListInv, O!Next
    PROVE  SeenIsKnown' /\ ListsAreLoaded'
<1>1. ASSUME NEW o \in Opens,
             \/ O!Open(o) \/ O!Serve(o) \/ O!Download(o) \/ O!Create(o) \/ O!Register(o) \/ O!Block(o)
             \/ O!Fail(o) \/ O!Complete(o) \/ O!RemovePartial(o) \/ O!Close(o)
      PROVE  SeenIsKnown' /\ UNCHANGED <<cacheFeatures, config>>
  BY <1>1, OpensKeepKnown
<1>2. ASSUME NEW u \in Uploads, O!Upload(u)
      PROVE  SeenIsKnown' /\ UNCHANGED <<cacheFeatures, config>>
  <2>1. /\ UNCHANGED <<cacheFeatures, config, seen, meant, aborted>> /\ next' \in {next, next + 1}
        /\ \/ entries' \subseteq entries
           \/ entries' = entries \cup {O!Entry(next, u)}
    BY <1>2 DEF O!Upload, O!User, O!Add, O!Mark, O!Tracker
  <2>2. \A f \in entries' : f.id = next \/ EntryOf(entries, f.who, f.id)
    BY <2>1 DEF EntryOf, O!Entry
  <2> QED BY <2>1, <2>2, KnownGrows
<1>3. CASE O!FreeUp \/ O!RemoteUpdate \/ O!Apply \/ O!SetAvailability
  <2>1. UNCHANGED <<cacheFeatures, config, seen, meant, aborted, next, entries>>
    BY <1>3 DEF O!FreeUp, O!RemoteUpdate, O!Apply, O!SetAvailability, O!User, O!Tracker
  <2> QED BY SMTT(30), <2>1 DEF SeenIsKnown, ListsAreLoaded
<1>4. CASE O!Snapshot
  <2>1. UNCHANGED <<cacheFeatures, config, meant, aborted, next, entries>> /\ seen' = entries
    BY <1>4 DEF O!Snapshot, O!Tracker
  <2>2. \A e \in entries : e.id \in 0 .. next - 1 /\ \A f \in entries : f.id = e.id => f.who = e.who
    BY DEF ListInv, ListTypes
  <2> QED BY <2>1, <2>2 DEF SeenIsKnown, ListsAreLoaded
<1>5. ASSUME NEW e \in seen, O!Cancel(e) PROVE SeenIsKnown' /\ ListsAreLoaded'
  BY <1>5, CancelIsMeant DEF O!Cancel, ListsAreLoaded
<1>6. CASE O!Restart
  BY <1>6 DEF O!Restart, SeenIsKnown, ListsAreLoaded, O!User
<1> QED BY <1>1, <1>2, <1>3, <1>4, <1>5, <1>6 DEF O!Next, ListsAreLoaded

\* Files are still whole when one open moved, the only one underway.
LEMMA OneOpen ==
    ASSUME FilesAreWhole, opens \in [Opens -> OpenRecord], NEW o \in Opens, NEW r, opens' = [opens EXCEPT ![o] = r],
           Underway(r) => Underway(opens[o]) \/ \A p \in Opens : ~Underway(opens[p]),
           \/ Underway(opens[o])
           \/ \A p \in Opens : ~Underway(opens[p])
           \/ UNCHANGED <<inodes, cachePath, row, entries>>,
           \A p \in Opens : (p # o /\ opens[p].pc = "opened") => inodes'[opens[p].inode] = inodes[opens[p].inode],
           FileOf(r, entries', inodes', cachePath', row'), PathIsWhole', RowIsTrue'
    PROVE  FilesAreWhole'
<1>1. opens'[o] = r /\ \A p \in Opens : p # o => opens'[p] = opens[p]
  OBVIOUS
<1>2. \A p, q \in Opens : Underway(opens'[p]) /\ Underway(opens'[q]) => p = q
  BY <1>1 DEF FilesAreWhole
<1>3. ASSUME NEW p \in Opens PROVE FileOf(opens'[p], entries', inodes', cachePath', row')
  <2>1. CASE p = o
    BY <1>1, <2>1
  <2>2. CASE p # o /\ Underway(opens[p])
    <3>1. UNCHANGED <<inodes, cachePath, row, entries>> /\ opens'[p] = opens[p]
      BY <1>1, <2>2 DEF FilesAreWhole
    <3> QED BY <3>1 DEF FilesAreWhole
  <2>3. CASE p # o /\ ~Underway(opens[p])
    <3>1. opens'[p] = opens[p] /\ opens[p].pc \in {"closed", "opened"} /\ opens[p] \in OpenRecord
      BY <1>1, <2>3 DEF Underway
    <3>2. opens[p].pc = "opened" => inodes'[opens[p].inode] = inodes[opens[p].inode]
      BY <2>3
    <3>3. FileOf(opens[p], entries, inodes, cachePath, row)
      BY DEF FilesAreWhole
    <3> QED BY <3>1, <3>2, <3>3 DEF FileOf, Writes, Transfers
  <2> QED BY <2>1, <2>2, <2>3
<1> QED BY <1>2, <1>3 DEF FilesAreWhole

\* What is whole has the size of the revision.
LEMMA SizeIsWhole ==
    ASSUME inodes[cachePath] = 1 .. Blocks
    PROVE  O!Size(cachePath) = Blocks
<1>1. CASE Blocks = 0
  BY <1>1 DEF O!Size
<1>2. CASE Blocks # 0
  <2>1. Blocks \in 1 .. Blocks /\ \A x \in 1 .. Blocks : x <= Blocks
    BY <1>2, OpensAreGiven
  <2>2. O!Max(1 .. Blocks) = Blocks
    BY <2>1, OpensAreGiven DEF O!Max
  <2> QED BY <2>1, <2>2 DEF O!Size
<1> QED BY <1>1, <1>2

\* A thumbnailer may not have a file downloaded, whatever the user's lists say.
LEMMA ThumbnailersAreBlocked ==
    ASSUME NEW by \in Thumbnailers, NEW f \in ConfigFiles, config = O!Load(f)
    PROVE  O!IsBlockedProcess(by)
<1>1. DOMAIN by = 1 .. Len(by)
  BY ThumbnailersAreGiven
<1>2. PICK i \in DOMAIN by :
        /\ i <= 16 /\ "thumbnail" \in {by[i].exe, by[i].name, by[i].plugin}
        /\ \A j \in 1 .. i - 1 :
             /\ "thumbnail" \notin {by[j].exe, by[j].name, by[j].plugin}
             /\ by[j].exe \notin config.allowedExes \cup config.blockedExes
             /\ by[j].name \notin config.allowedNames \cup config.blockedNames
  BY ThumbnailersAreGiven
<1> DEFINE listed == {j \in DOMAIN by : j <= 16 /\ O!Classify(by[j]) # "unknown"}
<1>3. O!Classify(by[i]) = "blocked"
  BY <1>2 DEF O!Classify
<1>4. \A j \in 1 .. i - 1 : O!Classify(by[j]) = "unknown"
  BY <1>2 DEF O!Classify
<1>5. i \in listed /\ \A j \in listed : i <= j
  <2>1. i \in listed
    BY <1>2, <1>3
  <2>2. ASSUME NEW j \in listed PROVE i <= j
    <3>1. i \in Int /\ j \in Int /\ 1 <= j
      BY <1>1
    <3>2. ~(j \in 1 .. i - 1)
      BY <1>4
    <3> QED BY <3>1, <3>2
  <2> QED BY <2>1, <2>2
<1>6. listed \subseteq Int
  BY <1>1
<1> HIDE DEF listed
<1>7. O!Min(listed) = i
  BY <1>5, <1>6 DEF O!Min
<1>8. O!IsBlockedProcess(by) <=> (listed # {} /\ O!Classify(by[O!Min(listed)]) = "blocked")
  BY DEF O!IsBlockedProcess, listed
<1> QED BY <1>3, <1>5, <1>7, <1>8

\* A download's entry stays its own when others come.
LEMMA EntriesOfOthers ==
    ASSUME ListInv, NEW o \in Opens, Transfers(opens[o])
    PROVE  opens[o].id # next /\ \E e \in entries : e.id = opens[o].id
<1>1. PICK e \in entries : e.id = opens[o].id
  BY DEF ListInv, EntryOf
<1>2. e.id \in 0 .. next - 1 /\ next \in Nat
  BY DEF ListInv, ListTypes
<1> QED BY <1>1, <1>2

\* The steps that touch neither the files nor the opens.
LEMMA FilesSame ==
    ASSUME FilesAreWhole, ListInv, UNCHANGED <<inodes, cachePath, row, opens, kept>>,
           \A e \in entries' : e \in entries \/ e.id = next
    PROVE  FilesAreWhole'
<1>1. ASSUME NEW o \in Opens PROVE FileOf(opens[o], entries', inodes, cachePath, row)
  <2>1. FileOf(opens[o], entries, inodes, cachePath, row)
    BY DEF FilesAreWhole
  <2>2. CASE Transfers(opens[o])
    BY <2>1, <2>2, EntriesOfOthers DEF FileOf
  <2>3. CASE ~Transfers(opens[o])
    BY <2>1, <2>3 DEF FileOf, Transfers, Writes
  <2> QED BY <2>2, <2>3
<1>2. opens' = opens /\ inodes' = inodes /\ cachePath' = cachePath /\ row' = row /\ kept' = kept
  OBVIOUS
<1>3. \A o \in Opens : FileOf(opens'[o], entries', inodes', cachePath', row')
  BY <1>1, <1>2
<1> QED BY <1>2, <1>3 DEF FilesAreWhole, PathIsWhole, RowIsTrue

\* Alone, an open begins when none is underway.
LEMMA NoneUnderway ==
    ASSUME Alone, "overlap" \in cacheFeatures \/ O!Reading = {}
    PROVE  \A p \in Opens : ~Underway(opens[p])
  BY DEF Alone, O!Reading, Underway

LEMMA OpenKeepsFiles ==
    ASSUME FilesAreWhole, FileTypes, ListInv, RowType, ListsAreLoaded, Alone, NEW o \in Opens, O!Open(o)
    PROVE  FilesAreWhole' /\ FileTypes'
<1>1. PICK by \in (IF "programs" \in cacheFeatures THEN Programs ELSE {Viewer}) :
             /\ O!IsAvailableOffline \/ ~O!IsBlockedProcess(by)
             /\ opens' = [opens EXCEPT ![o] = [O!Closed EXCEPT !.pc = "look", !.cached = row.cached, !.by = by]]
  BY DEF O!Open, O!Set
<1> DEFINE r == [O!Closed EXCEPT !.pc = "look", !.cached = row.cached, !.by = by]
<1>2. /\ "overlap" \in cacheFeatures \/ O!Reading = {}
      /\ UNCHANGED <<cachePath, inodes, row, entries, kept>>
  BY DEF O!Open, O!Tracker, O!Offline
<1>3. \A p \in Opens : ~Underway(opens[p])
  BY <1>2, NoneUnderway
<1>4. r.pc = "look" /\ r.cached = row.cached /\ r.by = by
  BY DEF O!Closed
<1>5. by \in Thumbnailers => row.cached
  <2>1. SUFFICES ASSUME by \in Thumbnailers PROVE row.cached
    OBVIOUS
  <2>2. "programs" \in cacheFeatures
    BY <2>1, ThumbnailersAreGiven
  <2>3. PICK f \in ConfigFiles : config = O!Load(f)
    BY <2>2 DEF ListsAreLoaded
  <2>4. O!IsBlockedProcess(by)
    BY <2>1, <2>3, ThumbnailersAreBlocked
  <2> QED BY <1>1, <2>4 DEF O!IsAvailableOffline
<1>6. FileOf(r, entries', inodes', cachePath', row')
  BY <1>2, <1>4, <1>5 DEF FileOf, Writes, Transfers
<1>7. PathIsWhole' /\ RowIsTrue'
  <2>1. \A p \in Opens : ~Transfers(opens[p])
    BY <1>3 DEF Underway, Transfers
  <2> QED BY <1>2, <2>1 DEF FilesAreWhole, PathIsWhole, RowIsTrue
<1>8. opens \in [Opens -> OpenRecord] /\ opens' = [opens EXCEPT ![o] = r]
  BY <1>1 DEF ListInv, ListTypes
<1> HIDE DEF r
<1>9. FilesAreWhole'
  BY <1>2, <1>3, <1>6, <1>7, <1>8, OneOpen
<1> QED BY <1>2, <1>9 DEF FileTypes

\* What an open ends with is whole, and so is what stays for it.
LEMMA EndKeepsFiles ==
    ASSUME FilesAreWhole, ListInv, NEW o \in Opens, O!End(o), Underway(opens[o]), UNCHANGED <<cachePath, inodes>>,
           cachePath # 0, inodes[cachePath] = 1 .. Blocks,
           row'.cached, row'.size = Blocks
    PROVE  FilesAreWhole'
<1>1. opens \in [Opens -> OpenRecord]
  BY DEF ListInv, ListTypes
<1>2. PathIsWhole'
  BY DEF PathIsWhole
<1>3. RowIsTrue'
  BY DEF RowIsTrue
<1>4. CASE opens' = [opens EXCEPT ![o] = O!Closed]
  <2>1. FileOf(O!Closed, entries', inodes', cachePath', row') /\ ~Underway(O!Closed)
    BY DEF FileOf, O!Closed, Writes, Transfers, Underway
  <2> QED BY <1>1, <1>2, <1>3, <1>4, <2>1, OneOpen
<1>5. CASE /\ opens[o].by # O!Command
           /\ opens' = [opens EXCEPT ![o] = [opens[o] EXCEPT !.pc = "opened", !.inode = cachePath, !.id = -1]]
  <2> DEFINE r == [opens[o] EXCEPT !.pc = "opened", !.inode = cachePath, !.id = -1]
  <2>1. r.pc = "opened" /\ r.inode = cachePath /\ r.by = opens[o].by
    BY <1>1 DEF OpenRecord
  <2> HIDE DEF r
  <2>2. FileOf(r, entries', inodes', cachePath', row') /\ ~Underway(r)
    BY <1>5, <2>1 DEF FileOf, Writes, Transfers, Underway
  <2>3. opens' = [opens EXCEPT ![o] = r]
    BY <1>5 DEF r
  <2> QED BY <1>1, <1>2, <1>3, <2>2, <2>3, OneOpen
<1> QED BY <1>4, <1>5 DEF O!End, O!Set, O!NoFile

LEMMA ServeKeepsFiles ==
    ASSUME FilesAreWhole, FileTypes, ListInv, RowType, NEW o \in Opens, O!Serve(o)
    PROVE  FilesAreWhole' /\ FileTypes'
<1>1. /\ opens[o].pc = "look" /\ cachePath # 0 /\ UNCHANGED <<cachePath, inodes>> /\ O!End(o)
      /\ row' = [cached |-> (row.cached \/ ~opens[o].cached), size |-> O!Size(cachePath)]
  BY DEF O!Serve, O!At, O!NoFile
<1>2. Underway(opens[o]) /\ \A p \in Opens : ~Transfers(opens[p])
  BY <1>1 DEF FilesAreWhole, Underway, Transfers
<1>3. inodes[cachePath] = 1 .. Blocks
  BY <1>1, <1>2 DEF FilesAreWhole, PathIsWhole
<1>4. row'.size = Blocks
  BY <1>1, <1>3, SizeIsWhole
<1>5. opens[o].cached \in BOOLEAN /\ row.cached \in BOOLEAN /\ (opens[o].cached => row.cached)
  BY <1>1 DEF ListInv, ListTypes, OpenRecord, RowType, FilesAreWhole, FileOf
<1>6. row'.cached
  BY <1>1, <1>5
<1> QED BY <1>1, <1>2, <1>3, <1>4, <1>6, EndKeepsFiles DEF FileTypes

LEMMA CompleteKeepsFiles ==
    ASSUME FilesAreWhole, FileTypes, ListInv, RowType, NEW o \in Opens, O!Complete(o)
    PROVE  FilesAreWhole' /\ FileTypes'
<1>1. /\ opens[o].pc = "run" /\ UNCHANGED <<cachePath, inodes>> /\ O!End(o) /\ O!Written(o) = Blocks
      /\ row' = [cached |-> TRUE, size |-> IF cachePath = 0 THEN row.size ELSE O!Size(cachePath)]
  BY DEF O!Complete, O!At, O!NoFile
<1>2. Underway(opens[o]) /\ Writes(opens[o]) /\ Transfers(opens[o])
  BY <1>1 DEF Underway, Transfers, Writes
<1>3. PICK e \in entries : e.id = opens[o].id
  BY <1>2, EntriesOfOthers
<1>4. cachePath # 0 /\ inodes[cachePath] = 1 .. e.done
  BY <1>2, <1>3 DEF FilesAreWhole, FileOf
<1>5. e.done = Blocks
  BY <1>1, <1>3, WrittenIsDone
<1>6. row'.size = Blocks /\ row'.cached
  BY <1>1, <1>4, <1>5, SizeIsWhole
<1> QED BY <1>1, <1>2, <1>4, <1>5, <1>6, EndKeepsFiles DEF FileTypes

LEMMA DownloadKeepsFiles ==
    ASSUME FilesAreWhole, FileTypes, ListInv, RowType, NEW o \in Opens, O!Download(o)
    PROVE  FilesAreWhole' /\ FileTypes'
<1> DEFINE r == [opens[o] EXCEPT !.pc = "create", !.id = next]
<1>1. /\ opens[o].pc = "look" /\ cachePath = 0 /\ UNCHANGED <<cachePath, inodes, row, kept>>
      /\ entries' = entries \cup {O!Entry(next, o)} /\ opens' = [opens EXCEPT ![o] = r]
  BY DEF O!Download, O!At, O!NoFile, O!Add, O!Set, O!Offline
<1>2. Underway(opens[o]) /\ opens \in [Opens -> OpenRecord] /\ opens[o] \in OpenRecord
  BY <1>1 DEF Underway, ListInv, ListTypes
<1>3. r.pc = "create" /\ r.id = next /\ r.by = opens[o].by /\ r.cached = opens[o].cached
  BY <1>2 DEF OpenRecord
<1>4. \A e \in entries' : e.id = next => e.done = 0
  <2>1. \A e \in entries : e.id # next
    BY DEF ListInv, ListTypes
  <2> QED BY <1>1, <2>1 DEF O!Entry
<1>5. ~row.cached /\ (opens[o].by \in Thumbnailers => opens[o].cached)
  BY <1>1 DEF FilesAreWhole, FileOf, RowIsTrue
<1> HIDE DEF r
<1>6. FileOf(r, entries', inodes', cachePath', row')
  BY <1>1, <1>3, <1>4, <1>5 DEF FileOf, Writes, Transfers
<1>7. PathIsWhole' /\ RowIsTrue'
  BY <1>1 DEF FilesAreWhole, PathIsWhole, RowIsTrue
<1>8. FilesAreWhole'
  BY <1>1, <1>2, <1>6, <1>7, OneOpen
<1> QED BY <1>1, <1>8 DEF FileTypes

\* An open that only moves on: to run, or to fail.
LEMMA MovesOn ==
    ASSUME FilesAreWhole, FileTypes, ListInv, NEW o \in Opens, NEW pc \in {"run", "failed"},
           opens' = [opens EXCEPT ![o].pc = pc], Transfers(opens[o]), opens[o].pc = "register" \/ pc = "failed",
           UNCHANGED <<cachePath, inodes, row, entries, kept>>
    PROVE  FilesAreWhole' /\ FileTypes'
<1> DEFINE r == [opens[o] EXCEPT !.pc = pc]
<1>1. opens \in [Opens -> OpenRecord] /\ opens[o] \in OpenRecord /\ opens' = [opens EXCEPT ![o] = r]
  BY DEF ListInv, ListTypes
<1>2. /\ r.pc = pc /\ r.id = opens[o].id /\ r.by = opens[o].by /\ r.inode = opens[o].inode
      /\ r.cached = opens[o].cached
  BY <1>1 DEF OpenRecord
<1> HIDE DEF r
<1>3. FileOf(opens[o], entries, inodes, cachePath, row) /\ Underway(opens[o])
  BY DEF FilesAreWhole, Underway, Transfers
<1>4. FileOf(r, entries', inodes', cachePath', row')
  BY <1>2, <1>3 DEF FileOf, Writes, Transfers
<1>5. Transfers(opens'[o])
  BY <1>1, <1>2 DEF Transfers
<1>6. PathIsWhole' /\ RowIsTrue'
  BY <1>5 DEF FilesAreWhole, PathIsWhole, RowIsTrue
<1>7. FilesAreWhole'
  BY <1>1, <1>3, <1>4, <1>6, OneOpen
<1> QED BY <1>7 DEF FileTypes

LEMMA CreateKeepsFiles ==
    ASSUME FilesAreWhole, FileTypes, ListInv, RowType, NEW o \in Opens, O!Create(o)
    PROVE  FilesAreWhole' /\ FileTypes'
<1>1. opens[o].pc = "create" /\ UNCHANGED <<row, entries, kept>>
  BY DEF O!Create, O!At, O!Tracker, O!Offline
<1>2. /\ cachePath = 0 /\ Transfers(opens[o]) /\ Underway(opens[o]) /\ ~row.cached
      /\ opens[o].by \in Thumbnailers => opens[o].cached
      /\ \A e \in entries : e.id = opens[o].id => e.done = 0
  BY <1>1 DEF FilesAreWhole, FileOf, Transfers, Underway
<1>3. CASE opens' = [opens EXCEPT ![o].pc = "failed"] /\ UNCHANGED <<cachePath, inodes>>
  BY <1>1, <1>2, <1>3, MovesOn
<1>4. ASSUME NEW i \in 1 .. MaxOpens + 1, O!Unused(i), cachePath' = i, inodes' = [inodes EXCEPT ![i] = {}],
             opens' = [opens EXCEPT ![o] = [opens[o] EXCEPT !.pc = "register", !.inode = i]]
      PROVE  FilesAreWhole' /\ FileTypes'
  <2> DEFINE r == [opens[o] EXCEPT !.pc = "register", !.inode = i]
  <2>1. opens \in [Opens -> OpenRecord] /\ opens[o] \in OpenRecord /\ opens' = [opens EXCEPT ![o] = r]
    BY <1>4 DEF ListInv, ListTypes
  <2>2. /\ r.pc = "register" /\ r.id = opens[o].id /\ r.by = opens[o].by /\ r.inode = i
        /\ r.cached = opens[o].cached
    BY <2>1 DEF OpenRecord
  <2> HIDE DEF r
  <2>3. i # 0 /\ inodes'[i] = {} /\ 1 .. 0 = {} /\ FileTypes'
    BY <1>4 DEF FileTypes
  <2>4. \A p \in Opens : inodes'[opens[p].inode] = inodes[opens[p].inode]
    <3>1. \A p \in Opens : opens[p].inode # i
      BY <1>4 DEF O!Unused
    <3> QED BY <1>4, <3>1 DEF FileTypes
  <2>5. FileOf(r, entries', inodes', cachePath', row')
    BY <1>1, <1>2, <1>4, <2>2, <2>3 DEF FileOf, Writes, Transfers
  <2>6. Transfers(opens'[o])
    BY <2>1, <2>2 DEF Transfers
  <2>7. PathIsWhole' /\ RowIsTrue'
    BY <1>1, <1>2, <2>6 DEF PathIsWhole, RowIsTrue, FilesAreWhole
  <2> QED BY <1>2, <2>1, <2>3, <2>4, <2>5, <2>7, OneOpen
<1>5. \A i \in {j \in O!Inodes : O!Unused(j) /\ \A k \in 1 .. j - 1 : ~O!Unused(k)} :
         i \in 1 .. MaxOpens + 1 /\ O!Unused(i)
  BY SMTT(30) DEF O!Inodes
<1>6. \/ opens' = [opens EXCEPT ![o].pc = "failed"] /\ UNCHANGED <<cachePath, inodes>>
      \/ \E i \in {j \in O!Inodes : O!Unused(j) /\ \A k \in 1 .. j - 1 : ~O!Unused(k)} :
           /\ cachePath' = i /\ inodes' = [inodes EXCEPT ![i] = {}]
           /\ opens' = [opens EXCEPT ![o] = [opens[o] EXCEPT !.pc = "register", !.inode = i]]
  BY <1>2 DEF O!Create, O!NoFile, O!Set, O!Goto
<1> QED BY ZenonT(60), <1>3, <1>4, <1>5, <1>6

LEMMA BlockKeepsFiles ==
    ASSUME FilesAreWhole, FileTypes, ListInv, RowType, NEW o \in Opens, O!Block(o)
    PROVE  FilesAreWhole' /\ FileTypes'
<1> DEFINE n == O!Written(o) + 1
           later(e) == IF e.id = opens[o].id THEN [e EXCEPT !.done = n] ELSE e
<1>1. /\ opens[o].pc = "run" /\ O!Written(o) < Blocks /\ UNCHANGED <<cachePath, row, opens, kept>>
      /\ inodes' = [inodes EXCEPT ![opens[o].inode] = @ \cup {n}] /\ entries' = {later(e) : e \in entries}
  BY DEF O!Block, O!At, O!Progress, O!Offline
<1>2. n \in 1 .. Blocks /\ n - 1 = O!Written(o) /\ n - 1 < Blocks /\ n - 1 \in Nat
  BY <1>1, WrittenIsDone, OpensAreGiven
<1> HIDE DEF n
<1>3. Underway(opens[o]) /\ Writes(opens[o]) /\ Transfers(opens[o])
  BY <1>1 DEF Underway, Transfers, Writes
<1>4. PICK e \in entries : e.id = opens[o].id
  BY <1>3, EntriesOfOthers
<1>5. /\ cachePath # 0 /\ cachePath = opens[o].inode /\ inodes[cachePath] = 1 .. e.done
      /\ ~row.cached /\ (opens[o].by \in Thumbnailers => opens[o].cached)
  BY <1>3, <1>4 DEF FilesAreWhole, FileOf
<1>6. e.done = n - 1
  BY <1>2, <1>4, WrittenIsDone
<1>7. cachePath \in 1 .. MaxOpens + 1
  BY <1>5, OpensAreGiven DEF ListInv, ListTypes
<1>8. inodes'[cachePath] = 1 .. n /\ FileTypes' /\ \A i : i # cachePath => inodes'[i] = inodes[i]
  <2>1. 1 .. n = 1 .. n - 1 \cup {n}
    BY <1>2
  <2>2. inodes' = [inodes EXCEPT ![cachePath] = @ \cup {n}]
    BY <1>1, <1>5
  <2>3. inodes'[cachePath] = 1 .. n
    BY <1>5, <1>6, <1>7, <2>1, <2>2 DEF FileTypes
  <2>4. FileTypes'
    BY <1>2, <1>7, <2>2 DEF FileTypes
  <2>5. \A i : i # cachePath => inodes'[i] = inodes[i]
    BY <2>2 DEF FileTypes
  <2> QED BY <2>3, <2>4, <2>5
<1>9. \A f \in entries' : f.id = opens[o].id => f.done = n
  BY <1>1 DEF ListInv, ListTypes
<1>10. ASSUME NEW p \in Opens PROVE FileOf(opens[p], entries', inodes', cachePath, row)
  <2>1. CASE p = o
    BY <1>1, <1>5, <1>8, <1>9, <2>1 DEF FileOf, Writes, Transfers
  <2>2. CASE p # o /\ opens[p].pc = "opened"
    <3>1. FileOf(opens[p], entries, inodes, cachePath, row)
      BY DEF FilesAreWhole
    <3>2. Blocks \in 1 .. Blocks /\ ~(Blocks \in 1 .. n - 1)
      BY <1>2, OpensAreGiven
    <3>3. opens[p].inode # cachePath
      BY <1>5, <1>6, <2>2, <3>1, <3>2 DEF FileOf
    <3> QED BY <1>8, <2>2, <3>1, <3>3 DEF FileOf, Writes, Transfers
  <2>3. CASE p # o /\ opens[p].pc # "opened"
    <3>1. opens[p].pc = "closed"
      BY <1>3, <2>3 DEF FilesAreWhole, Underway
    <3> QED BY <3>1 DEF FileOf, Writes, Transfers
  <2> QED BY <2>1, <2>2, <2>3
<1>11. PathIsWhole' /\ RowIsTrue'
  BY <1>1, <1>3 DEF PathIsWhole, RowIsTrue, FilesAreWhole
<1>12. opens' = opens /\ cachePath' = cachePath /\ row' = row
  BY <1>1
<1> QED BY <1>8, <1>10, <1>11, <1>12 DEF FilesAreWhole

LEMMA RemovePartialKeepsFiles ==
    ASSUME FilesAreWhole, FileTypes, ListInv, RowType, NEW o \in Opens, O!RemovePartial(o)
    PROVE  FilesAreWhole' /\ FileTypes'
<1>1. /\ opens[o].pc = "failed" /\ cachePath' = 0 /\ opens' = [opens EXCEPT ![o] = O!Closed]
      /\ UNCHANGED <<inodes, row, kept>>
  BY DEF O!RemovePartial, O!At, O!NoFile, O!Set
<1>2. Underway(opens[o]) /\ ~row.cached /\ opens \in [Opens -> OpenRecord]
  BY <1>1 DEF FilesAreWhole, FileOf, Transfers, Underway, ListInv, ListTypes
<1>3. FileOf(O!Closed, entries', inodes', cachePath', row') /\ ~Underway(O!Closed)
  BY DEF FileOf, O!Closed, Writes, Transfers, Underway
<1>4. PathIsWhole' /\ RowIsTrue'
  BY <1>1, <1>2 DEF PathIsWhole, RowIsTrue, FilesAreWhole
<1> QED BY <1>1, <1>2, <1>3, <1>4, OneOpen DEF FileTypes

LEMMA CloseKeepsFiles ==
    ASSUME FilesAreWhole, FileTypes, ListInv, RowType, NEW o \in Opens, O!Close(o)
    PROVE  FilesAreWhole' /\ FileTypes'
<1>1. /\ opens[o].pc = "opened" /\ opens' = [opens EXCEPT ![o] = O!Closed]
      /\ UNCHANGED <<inodes, row, kept, cachePath, entries>>
  BY DEF O!Close, O!At, O!Set, O!Tracker, O!Offline
<1>2. opens \in [Opens -> OpenRecord]
  BY DEF ListInv, ListTypes
<1>3. FileOf(O!Closed, entries', inodes', cachePath', row') /\ ~Underway(O!Closed) /\ ~Transfers(O!Closed)
  BY DEF FileOf, O!Closed, Writes, Transfers, Underway
<1>4. \A p \in Opens : Transfers(opens'[p]) <=> Transfers(opens[p])
  BY <1>1, <1>2, <1>3 DEF Transfers
<1>5. PathIsWhole' /\ RowIsTrue'
  BY <1>1, <1>4 DEF PathIsWhole, RowIsTrue, FilesAreWhole
<1> QED BY <1>1, <1>2, <1>3, <1>5, OneOpen DEF FileTypes

\* A copy that is freed is of a file that nobody has open.
LEMMA FreedKeepsFiles ==
    ASSUME FilesAreWhole, RowType, \A p \in Opens : ~Underway(opens[p]), O!FreeUpSpace,
           UNCHANGED <<opens, inodes, entries>>
    PROVE  FilesAreWhole'
<1>1. /\ cachePath' = 0 /\ row' = [row EXCEPT !.cached = FALSE]
      /\ kept' = (IF kept = "yes" THEN "freed" ELSE kept)
  BY DEF O!FreeUpSpace, O!NoFile
<1>2. row'.cached = FALSE /\ kept' # "yes"
  BY <1>1 DEF RowType
<1>3. PathIsWhole' /\ RowIsTrue'
  BY <1>1, <1>2 DEF PathIsWhole, RowIsTrue
<1>4. ASSUME NEW p \in Opens PROVE FileOf(opens[p], entries, inodes, 0, row')
  <2>1. FileOf(opens[p], entries, inodes, cachePath, row) /\ opens[p].pc \in {"closed", "opened"}
    BY DEF FilesAreWhole, Underway
  <2> QED BY <2>1 DEF FileOf, Writes, Transfers
<1>5. opens' = opens /\ inodes' = inodes /\ entries' = entries
  OBVIOUS
<1>6. \A p \in Opens : FileOf(opens'[p], entries', inodes', cachePath', row')
  BY <1>1, <1>4, <1>5
<1> QED BY <1>3, <1>5, <1>6 DEF FilesAreWhole

\* The command opens the file as its own, or frees it, when nobody else is at it.
LEMMA SetKeepsFiles ==
    ASSUME FilesAreWhole, FileTypes, ListInv, RowType, Alone, O!SetAvailability
    PROVE  FilesAreWhole' /\ FileTypes'
<1>1. UNCHANGED <<inodes, entries>>
  BY DEF O!SetAvailability, O!Tracker
<1>2. CASE UNCHANGED <<cachePath, row, kept, opens>>
  BY <1>1, <1>2, FilesSame DEF FileTypes
<1>3. CASE O!FreeUpSpace /\ UNCHANGED opens /\ ("overlap" \in cacheFeatures \/ O!Reading = {})
  BY <1>1, <1>3, NoneUnderway, FreedKeepsFiles DEF FileTypes
<1>4. ASSUME NEW o \in Opens, NEW r \in OpenRecord,
             opens[o].pc = "closed" /\ opens' = [opens EXCEPT ![o] = r],
             r.pc = "look" /\ r.by = O!Command /\ r.cached = row.cached,
             UNCHANGED <<cachePath, row, kept>>,
             "overlap" \in cacheFeatures \/ O!Reading = {}
      PROVE  FilesAreWhole' /\ FileTypes'
  <2>1. \A p \in Opens : ~Underway(opens[p])
    BY <1>4, NoneUnderway
  <2>2. FileOf(r, entries', inodes', cachePath', row')
    BY <1>1, <1>4, ThumbnailersAreGiven DEF FileOf, Writes, Transfers, O!Command
  <2>3. \A p \in Opens : ~Transfers(opens[p])
    BY <2>1 DEF Underway, Transfers
  <2>4. PathIsWhole' /\ RowIsTrue'
    BY <1>1, <1>4, <2>3 DEF PathIsWhole, RowIsTrue, FilesAreWhole
  <2>5. opens \in [Opens -> OpenRecord]
    BY DEF ListInv, ListTypes
  <2> QED BY <1>1, <1>4, <2>1, <2>2, <2>4, <2>5, OneOpen DEF FileTypes
<1>5. \/ UNCHANGED <<cachePath, row, kept, opens>>
      \/ O!FreeUpSpace /\ UNCHANGED opens /\ ("overlap" \in cacheFeatures \/ O!Reading = {})
      \/ ~UNCHANGED opens
  BY DEF O!SetAvailability
<1> QED BY <1>2, <1>3, <1>4, <1>5, KeepsOpens

\* What an event tells of has a copy: no download is underway, and who is about to look
\* for the copy finds none.
LEMMA EventKeepsFiles ==
    ASSUME FilesAreWhole, FileTypes, RowType, O!RemoteUpdate
    PROVE  FilesAreWhole' /\ FileTypes'
<1>1. /\ row.cached /\ cachePath' = 0 /\ row' = [row EXCEPT !.cached = FALSE]
      /\ kept' = (IF kept = "yes" THEN "freed" ELSE kept)
      /\ UNCHANGED <<opens, inodes, entries>>
  BY DEF O!RemoteUpdate, O!FreeUpSpace, O!NoFile, O!Tracker
<1>2. row'.cached = FALSE /\ kept' # "yes"
  BY <1>1 DEF RowType
<1>3. PathIsWhole' /\ RowIsTrue'
  BY <1>1, <1>2 DEF PathIsWhole, RowIsTrue
<1>4. ASSUME NEW p \in Opens PROVE FileOf(opens[p], entries, inodes, 0, row')
  <2>1. FileOf(opens[p], entries, inodes, cachePath, row) /\ ~Transfers(opens[p])
    BY <1>1 DEF FilesAreWhole, FileOf
  <2> QED BY <2>1 DEF FileOf, Writes, Transfers
<1>5. \A p \in Opens : FileOf(opens'[p], entries', inodes', cachePath', row')
  BY <1>1, <1>4
<1>6. \A o, p \in Opens : Underway(opens'[o]) /\ Underway(opens'[p]) => o = p
  BY <1>1 DEF FilesAreWhole
<1> QED BY <1>1, <1>3, <1>5, <1>6 DEF FilesAreWhole, FileTypes

LEMMA FilesAreKept ==
    ASSUME FilesAreWhole, FileTypes, ListInv, RowType, ListsAreLoaded, Alone, O!Next
    PROVE  FilesAreWhole' /\ FileTypes'
<1>1. ASSUME NEW o \in Opens, O!Register(o) \/ O!Fail(o) PROVE FilesAreWhole' /\ FileTypes'
  <2>1. CASE O!Register(o)
    <3>1. /\ opens[o].pc = "register" /\ opens' = [opens EXCEPT ![o].pc = "run"]
          /\ UNCHANGED <<cachePath, inodes, row, entries, kept>>
      BY <2>1 DEF O!Register, O!At, O!Goto, O!Offline
    <3> QED BY <3>1, MovesOn DEF Transfers
  <2>2. CASE O!Fail(o)
    <3>1. /\ opens[o].pc = "run" /\ opens' = [opens EXCEPT ![o].pc = "failed"]
          /\ UNCHANGED <<cachePath, inodes, row, entries, kept>>
      BY <2>2 DEF O!Fail, O!At, O!Goto, O!Offline, O!Tracker
    <3> QED BY <3>1, MovesOn DEF Transfers
  <2> QED BY <1>1, <2>1, <2>2
<1>2. CASE O!FreeUp
  <2>1. /\ O!FreeUpSpace /\ UNCHANGED <<opens, inodes, entries>>
        /\ "overlap" \in cacheFeatures \/ \A o \in Opens : opens[o].pc = "closed"
    BY <1>2 DEF O!FreeUp, O!Tracker
  <2>2. \A p \in Opens : ~Underway(opens[p])
    BY <2>1 DEF Alone, Underway
  <2> QED BY <2>1, <2>2, FreedKeepsFiles DEF FileTypes
<1>3. CASE O!Snapshot \/ O!Apply \/ \E e \in seen : O!Cancel(e)
  <2>1. UNCHANGED <<inodes, cachePath, row, opens, kept, entries>>
    BY <1>3 DEF O!Snapshot, O!Apply, O!Cancel, O!Tracker, O!Offline
  <2> QED BY <2>1, FilesSame DEF FileTypes
<1>4. ASSUME NEW u \in Uploads, O!Upload(u) PROVE FilesAreWhole' /\ FileTypes'
  <2>1. /\ UNCHANGED <<inodes, cachePath, row, opens, kept>>
        /\ \/ entries' \subseteq entries
           \/ entries' = entries \cup {O!Entry(next, u)}
    BY <1>4 DEF O!Upload, O!Add, O!Mark, O!Tracker, O!Offline
  <2>2. \A e \in entries' : e \in entries \/ e.id = next
    BY <2>1 DEF O!Entry
  <2> QED BY <2>1, <2>2, FilesSame DEF FileTypes
<1>5. ~O!Restart
  BY DEF O!Restart, Alone
<1> QED BY <1>1, <1>2, <1>3, <1>4, <1>5, OpenKeepsFiles, ServeKeepsFiles, DownloadKeepsFiles, CreateKeepsFiles,
           BlockKeepsFiles, CompleteKeepsFiles, RemovePartialKeepsFiles, CloseKeepsFiles, SetKeepsFiles, EventKeepsFiles
       DEF O!Next

-----------------------------------------------------------------------------
(* pdcli offline: what it has not counted as failed is still to come, waits, or was kept. *)

\* The command stands as it is while it waits, or the file was kept.
LEMMA CommandStays ==
    ASSUME CommandIsTrue, UNCHANGED offline, kept # "no" => kept' # "no",
           O!Waits => O!Waits' \/ kept' # "no"
    PROVE  CommandIsTrue'
BY DEF CommandIsTrue

\* An open that is not of the command ends without it; that of the command keeps the file.
LEMMA OpensKeepCommand ==
    ASSUME CommandIsTrue, FilesAreWhole, ListInv, NEW o \in Opens,
           \/ O!Open(o) \/ O!Serve(o) \/ O!Download(o) \/ O!Create(o) \/ O!Register(o) \/ O!Block(o)
           \/ O!Fail(o) \/ O!Complete(o) \/ O!RemovePartial(o) \/ O!Close(o)
    PROVE  CommandIsTrue'
<1>1. opens \in [Opens -> OpenRecord] /\ opens[o] \in OpenRecord
  BY DEF ListInv, ListTypes
<1>2. ASSUME UNCHANGED <<offline, kept>>, NEW r, opens' = [opens EXCEPT ![o] = r],
             \/ opens[o].pc = "closed" \/ opens[o].by # O!Command
             \/ r.pc # "closed" /\ r.by = opens[o].by
      PROVE  CommandIsTrue'
  <2>1. O!Waits => O!Waits'
    BY <1>1, <1>2 DEF O!Waits
  <2> QED BY <1>2, <2>1, CommandStays
<1>3. CASE O!Open(o)
  <2>1. /\ opens[o].pc = "closed" /\ UNCHANGED <<offline, kept>>
        /\ \E r : opens' = [opens EXCEPT ![o] = r]
    BY <1>3 DEF O!Open, O!At, O!Set, O!Offline
  <2> QED BY <1>2, <2>1
<1>4. CASE O!Serve(o) \/ O!Complete(o)
  <2>1. O!End(o)
    BY <1>4 DEF O!Serve, O!Complete
  <2>2. CASE opens[o].by = O!Command
    <3>1. UNCHANGED offline /\ kept' = "yes"
      BY <2>1, <2>2 DEF O!End
    <3> QED BY <3>1, CommandStays
  <2>3. CASE opens[o].by # O!Command
    <3>1. UNCHANGED <<offline, kept>> /\ \E r : opens' = [opens EXCEPT ![o] = r]
      BY <2>1, <2>3 DEF O!End, O!Set, O!Offline
    <3> QED BY <1>2, <2>3, <3>1
  <2> QED BY <2>2, <2>3
<1>5. CASE O!Download(o)
  <2> DEFINE r == [opens[o] EXCEPT !.pc = "create", !.id = next]
  <2>1. UNCHANGED <<offline, kept>> /\ opens' = [opens EXCEPT ![o] = r]
    BY <1>5 DEF O!Download, O!Set, O!Offline
  <2>2. r.pc # "closed" /\ r.by = opens[o].by
    BY <1>1 DEF OpenRecord
  <2> QED BY <1>2, <2>1, <2>2
<1>6. ASSUME NEW i, opens' = [opens EXCEPT ![o] = [opens[o] EXCEPT !.pc = "register", !.inode = i]],
             UNCHANGED <<offline, kept>>
      PROVE  CommandIsTrue'
  <2> DEFINE r == [opens[o] EXCEPT !.pc = "register", !.inode = i]
  <2>1. r.pc # "closed" /\ r.by = opens[o].by
    BY <1>1 DEF OpenRecord
  <2> QED BY <1>2, <1>6, <2>1
<1>7. ASSUME NEW pc \in {"run", "failed"}, opens' = [opens EXCEPT ![o].pc = pc], UNCHANGED <<offline, kept>>
      PROVE  CommandIsTrue'
  <2> DEFINE r == [opens[o] EXCEPT !.pc = pc]
  <2>1. r.pc # "closed" /\ r.by = opens[o].by /\ opens' = [opens EXCEPT ![o] = r]
    BY SMTT(30), <1>1, <1>7 DEF OpenRecord
  <2> QED BY <1>2, <1>7, <2>1
<1>8. CASE O!Create(o)
  <2>1. /\ UNCHANGED <<offline, kept>>
        /\ \/ \E i : opens' = [opens EXCEPT ![o] = [opens[o] EXCEPT !.pc = "register", !.inode = i]]
           \/ opens' = [opens EXCEPT ![o].pc = "failed"]
    BY <1>8 DEF O!Create, O!Set, O!Goto, O!Offline
  <2> QED BY ZenonT(60), <1>6, <1>7, <2>1
<1>9. CASE O!Register(o) \/ O!Fail(o)
  <2>1. \E pc \in {"run", "failed"} : opens' = [opens EXCEPT ![o].pc = pc] /\ UNCHANGED <<offline, kept>>
    BY <1>9 DEF O!Register, O!Fail, O!Goto, O!Offline
  <2> QED BY <1>7, <2>1
<1>10. CASE O!Block(o)
  <2>1. UNCHANGED <<offline, kept, opens>>
    BY <1>10 DEF O!Block, O!Offline
  <2> QED BY <2>1, CommandStays DEF O!Waits
<1>11. CASE O!RemovePartial(o)
  <2>1. CASE opens[o].by = O!Command
    <3>1. offline' = [offline EXCEPT !.failed = offline.failed + 1] /\ UNCHANGED kept
      BY <1>11, <2>1 DEF O!RemovePartial, O!Failed
    <3>2. /\ offline'.failed = offline.failed + 1 /\ offline'.below = offline.below
          /\ offline' \in [value : {"none", "offline", "online-only"}, below : SUBSET Below, left : Seq(Below),
                           failed : Nat]
      BY <3>1 DEF CommandIsTrue
    <3>3. offline'.failed > 0
      BY <3>2 DEF CommandIsTrue
    <3> QED BY <3>2, <3>3 DEF CommandIsTrue
  <2>2. CASE opens[o].by # O!Command
    <3>1. UNCHANGED <<offline, kept>> /\ \E r : opens' = [opens EXCEPT ![o] = r]
      BY <1>11, <2>2 DEF O!RemovePartial, O!Set
    <3> QED BY <1>2, <2>2, <3>1
  <2> QED BY <2>1, <2>2
<1>12. CASE O!Close(o)
  <2>1. opens[o].pc = "opened" /\ UNCHANGED <<offline, kept>> /\ \E r : opens' = [opens EXCEPT ![o] = r]
    BY <1>12 DEF O!Close, O!At, O!Set, O!Offline
  <2>2. opens[o].by # O!Command
    BY <2>1 DEF FilesAreWhole, FileOf
  <2> QED BY <1>2, <2>1, <2>2
<1> QED BY <1>3, <1>4, <1>5, <1>8, <1>9, <1>10, <1>11, <1>12

\* What is next is counted when it fails, and waits when it is the file.
LEMMA NextOfFolder ==
    ASSUME NEW left \in Seq(Below), left # <<>>
    PROVE  /\ Tail(left) \in Seq(Below)
           /\ \A x \in Below : (\E i \in DOMAIN left : left[i] = x) =>
                 Head(left) = x \/ \E i \in DOMAIN Tail(left) : Tail(left)[i] = x
<1>1. Len(left) \in Nat \ {0} /\ DOMAIN left = 1 .. Len(left) /\ Head(left) = left[1]
  OBVIOUS
<1>2. Tail(left) \in Seq(Below) /\ Len(Tail(left)) = Len(left) - 1
      /\ \A i \in 1 .. Len(left) - 1 : Tail(left)[i] = left[i + 1]
  OBVIOUS
<1>3. DOMAIN Tail(left) = 1 .. Len(left) - 1
  BY <1>2
<1>4. ASSUME NEW x \in Below, NEW i \in DOMAIN left, left[i] = x
      PROVE  Head(left) = x \/ \E j \in DOMAIN Tail(left) : Tail(left)[j] = x
  <2>1. CASE i = 1
    BY <1>1, <1>4, <2>1
  <2>2. CASE i # 1
    <3>1. i - 1 \in 1 .. Len(left) - 1 /\ (i - 1) + 1 = i
      BY <1>1, <2>2
    <3>2. Tail(left)[i - 1] = x
      BY <1>2, <1>4, <3>1
    <3> QED BY <1>3, <3>1, <3>2
  <2> QED BY <2>1, <2>2
<1> QED BY <1>2, <1>4

LEMMA SetKeepsCommand ==
    ASSUME CommandIsTrue, ListInv, RowType, O!SetAvailability
    PROVE  CommandIsTrue'
<1> DEFINE rest == [offline EXCEPT !.left = Tail(offline.left)]
           error == [offline EXCEPT !.left = Tail(offline.left), !.failed = offline.failed + 1]
<1>1. /\ offline.value \in {"none", "offline", "online-only"} /\ offline.below \subseteq Below
      /\ offline.left \in Seq(Below) /\ offline.failed \in Nat /\ offline.left # <<>>
      /\ offline \in [value : {"none", "offline", "online-only"}, below : SUBSET Below, left : Seq(Below), failed : Nat]
  BY DEF CommandIsTrue, O!SetAvailability
<1>2. /\ Tail(offline.left) \in Seq(Below)
      /\ \A x \in Below : (\E i \in DOMAIN offline.left : offline.left[i] = x) =>
            Head(offline.left) = x \/ \E i \in DOMAIN Tail(offline.left) : Tail(offline.left)[i] = x
  BY <1>1, NextOfFolder
<1>3. /\ rest \in [value : {"none", "offline", "online-only"}, below : SUBSET Below, left : Seq(Below), failed : Nat]
      /\ rest.value = offline.value /\ rest.below = offline.below /\ rest.left = Tail(offline.left)
      /\ rest.failed = offline.failed
  BY <1>1, <1>2
<1>4. /\ error \in [value : {"none", "offline", "online-only"}, below : SUBSET Below, left : Seq(Below), failed : Nat]
      /\ error.value = offline.value /\ error.below = offline.below /\ error.failed > 0
  <2>1. offline.failed + 1 \in Nat /\ offline.failed + 1 > 0
    BY <1>1
  <2>2. error = [rest EXCEPT !.failed = offline.failed + 1]
    BY <1>1
  <2> HIDE DEF rest, error
  <2> QED BY <1>3, <2>1, <2>2
<1>5. CASE offline' = error
  BY <1>4, <1>5 DEF CommandIsTrue
<1> HIDE DEF rest, error
<1>6. ASSUME offline' = rest, Head(offline.left) # "gone", kept # "no" => kept' # "no",
             O!Waits => O!Waits' \/ kept' # "no",
             Head(offline.left) = "file" => O!Waits' \/ offline.value # "offline"
      PROVE  CommandIsTrue'
  <2>1. "gone" \in offline.below => offline.failed > 0 \/ \E i \in DOMAIN Tail(offline.left) : Tail(offline.left)[i] = "gone"
    BY <1>1, <1>2, <1>6 DEF CommandIsTrue, Below
  <2>2. (offline.value = "offline" /\ "file" \in offline.below) =>
          \/ offline.failed > 0 \/ kept' # "no" \/ O!Waits'
          \/ \E i \in DOMAIN Tail(offline.left) : Tail(offline.left)[i] = "file"
    BY <1>1, <1>2, <1>6 DEF CommandIsTrue, Below
  <2> QED BY <1>3, <1>6, <2>1, <2>2 DEF CommandIsTrue
<1>7. ~O!Waits
  BY DEF O!SetAvailability
<1>8. ASSUME NEW o \in Opens, NEW r \in OpenRecord,
             opens[o].pc = "closed" /\ opens' = [opens EXCEPT ![o] = r],
             r.pc = "look" /\ r.by = O!Command, Head(offline.left) = "file",
             UNCHANGED kept, offline' = [offline EXCEPT !.left = Tail(@)]
      PROVE  CommandIsTrue'
  <2>1. opens'[o] = r
    BY <1>8 DEF ListInv, ListTypes
  <2>2. O!Waits'
    BY <1>8, <2>1 DEF O!Waits
  <2> QED BY <1>6, <1>8, <2>2 DEF rest
<1>9. \/ offline' = error
      \/ offline' = rest /\ Head(offline.left) = "document" /\ UNCHANGED <<opens, kept>>
      \/ offline' = rest /\ Head(offline.left) = "file" /\ UNCHANGED opens /\ offline.value = "online-only"
         /\ kept' = (IF kept = "yes" THEN "freed" ELSE kept)
      \/ ~UNCHANGED opens
  <2>1. [rest EXCEPT !.failed = @ + 1] = error
    BY <1>1 DEF rest, error
  <2>2. rest = [offline EXCEPT !.left = Tail(@)]
    BY DEF rest
  <2> DEFINE rest2 == [offline EXCEPT !.left = Tail(@)]
             error2 == [rest2 EXCEPT !.failed = @ + 1]
  <2>3. \/ /\ Head(offline.left) \in {"document", "gone"} /\ UNCHANGED <<opens, kept>>
           /\ offline' = IF Head(offline.left) = "gone" THEN error2 ELSE rest2
        \/ ~UNCHANGED opens
        \/ UNCHANGED opens /\ Head(offline.left) = "file" /\ offline.value = "offline" /\ offline' = rest2
           /\ \E o \in Opens : opens' = [opens EXCEPT ![o] =
                 [O!Closed EXCEPT !.pc = "look", !.cached = row.cached, !.by = O!Command]] /\ opens[o].pc = "closed"
        \/ /\ Head(offline.left) = "file" /\ UNCHANGED opens /\ offline.value = "online-only"
           /\ \/ offline' = error2
              \/ offline' = rest2 /\ kept' = (IF kept = "yes" THEN "freed" ELSE kept)
    BY DEF O!SetAvailability, O!FreeUpSpace, O!Set
  <2>4. error2 = error /\ rest2 = rest
    BY <2>1, <2>2
  <2> HIDE DEF error2, rest2
  <2>5. ~(/\ UNCHANGED opens
          /\ \E o \in Opens : opens' = [opens EXCEPT ![o] =
                [O!Closed EXCEPT !.pc = "look", !.cached = row.cached, !.by = O!Command]] /\ opens[o].pc = "closed")
    <3>1. SUFFICES ASSUME UNCHANGED opens, NEW o \in Opens, opens[o].pc = "closed",
                          opens' = [opens EXCEPT ![o] =
                            [O!Closed EXCEPT !.pc = "look", !.cached = row.cached, !.by = O!Command]]
                   PROVE  FALSE
      OBVIOUS
    <3>2. opens'[o].pc = "look"
      BY <3>1 DEF ListInv, ListTypes, O!Closed
    <3> QED BY <3>1, <3>2
  <2> QED BY <2>3, <2>4, <2>5
<1>10. CASE offline' = rest /\ Head(offline.left) = "document" /\ UNCHANGED <<opens, kept>>
  BY <1>6, <1>7, <1>10
<1>11. CASE /\ offline' = rest /\ Head(offline.left) = "file" /\ UNCHANGED opens /\ offline.value = "online-only"
            /\ kept' = (IF kept = "yes" THEN "freed" ELSE kept)
  BY <1>6, <1>7, <1>11
<1> QED BY <1>5, <1>8, <1>9, <1>10, <1>11, KeepsOpens

LEMMA CommandIsKept ==
    ASSUME CommandIsTrue, FilesAreWhole, ListInv, RowType, Alone, O!Next
    PROVE  CommandIsTrue'
<1>1. CASE O!FreeUp \/ O!RemoteUpdate
  <2>1. UNCHANGED <<offline, opens>> /\ kept' = (IF kept = "yes" THEN "freed" ELSE kept)
    BY <1>1 DEF O!FreeUp, O!RemoteUpdate, O!FreeUpSpace
  <2> QED BY <2>1, CommandStays DEF O!Waits
<1>2. CASE O!Snapshot \/ (\E e \in seen : O!Cancel(e)) \/ \E u \in Uploads : O!Upload(u)
  <2>1. UNCHANGED <<offline, opens, kept>>
    BY <1>2 DEF O!Snapshot, O!Cancel, O!Upload, O!Offline
  <2> QED BY <2>1, CommandStays DEF O!Waits
<1>3. CASE O!Apply
  <2>1. PICK value \in {"offline", "online-only"}, below \in Folders :
          offline' = [O!NoCommand EXCEPT !.value = value, !.below = {below[i] : i \in DOMAIN below}, !.left = below]
    BY <1>3 DEF O!Apply
  <2>2. below \in Seq(Below)
    BY OpensAreGiven DEF Below
  <2>3. \A i \in DOMAIN below : below[i] \in Below
    BY <2>2
  <2>4. /\ offline'.value = value /\ offline'.below = {below[i] : i \in DOMAIN below} /\ offline'.left = below
        /\ offline' \in [value : {"none", "offline", "online-only"}, below : SUBSET Below, left : Seq(Below), failed : Nat]
    BY <2>1, <2>2, <2>3 DEF O!NoCommand
  <2> QED BY SMTT(30), <2>4 DEF CommandIsTrue
<1>4. ~O!Restart
  BY DEF O!Restart, Alone
<1> QED BY <1>1, <1>2, <1>3, <1>4, OpensKeepCommand, SetKeepsCommand DEF O!Next

-----------------------------------------------------------------------------
(* The invariant holds at first, is kept, and is strong enough. *)

LEMMA OpensBegin == ASSUME PartInit PROVE OpensInv
<1> USE DEF O!NoFile
<1>1. O!Init
  BY DEF PartInit
<1>2. 0 \in 0 .. MaxOpens + 1 /\ 1 .. MaxOpens + 1 = O!Inodes
  BY OpensAreGiven DEF O!Inodes
<1>3. /\ O!Closed \in OpenRecord /\ O!Closed.id = -1 /\ ~Transfers(O!Closed) /\ ~Underway(O!Closed)
      /\ O!NoUpload \in [pc : {"idle", "run", "ended", "panicked"}, id : Nat \cup {-1}]
      /\ ~Uploading(O!NoUpload) /\ O!NoUpload.pc # "panicked"
  BY OpensAreGiven DEF O!Closed, OpenRecord, Transfers, Uploading, O!NoUpload, Underway
<1>4. /\ opens = [o \in Opens |-> O!Closed] /\ upload = [u \in Uploads |-> O!NoUpload] /\ cachePath = 0
      /\ next = 0 /\ entries = {} /\ handles = {} /\ seen = {} /\ aborted = {} /\ meant = {} /\ kept = "no"
      /\ row = [cached |-> FALSE, size |-> Blocks]
  BY <1>1 DEF O!Init
<1>5. ListTypes
  BY <1>2, <1>3, <1>4 DEF ListTypes
<1>6. ListInv
  BY <1>3, <1>4, <1>5 DEF ListInv
<1>7. RowType /\ SeenIsKnown
  BY <1>4 DEF RowType, SeenIsKnown
<1>8. ListsAreLoaded
  BY <1>1 DEF O!Init, ListsAreLoaded
<1>9. FileTypes
  BY <1>1, <1>2 DEF O!Init, FileTypes
<1>10. FilesAreWhole
  <2>1. FileOf(O!Closed, entries, inodes, cachePath, row)
    BY DEF O!Closed, FileOf, Writes, Transfers
  <2> QED BY <1>3, <1>4, <2>1 DEF FilesAreWhole, PathIsWhole, RowIsTrue
<1>11. CommandIsTrue
  BY <1>1 DEF O!Init, CommandIsTrue, O!NoCommand, Below
<1> QED BY <1>6, <1>7, <1>8, <1>9, <1>10, <1>11 DEF OpensInv

LEMMA OpensKept == ASSUME OpensInv, O!Next PROVE OpensInv'
<1>1. RowType' /\ ListInv' /\ SeenIsKnown' /\ ListsAreLoaded'
  BY ListIsKept, SeenIsKept DEF OpensInv
<1>2. UNCHANGED cacheFeatures
  BY ZenonT(60) DEF O!Next, O!Open, O!Serve, O!Download, O!Create, O!Register, O!Block, O!Fail, O!Complete, O!RemovePartial,
         O!Close, O!At, O!FreeUp, O!RemoteUpdate, O!Snapshot, O!Restart, O!Apply, O!SetAvailability, O!Upload, O!Cancel
<1>3. Alone' <=> Alone
  BY <1>2 DEF Alone
<1> QED BY <1>1, <1>3, FilesAreKept, CommandIsKept DEF OpensInv

\* A step of another part.
LEMMA OpensUnmoved == ASSUME OpensInv, UNCHANGED cacheVars PROVE OpensInv'
<1> USE DEF cacheVars
<1>1. RowType' /\ SeenIsKnown' /\ ListsAreLoaded'
  BY DEF OpensInv, RowType, SeenIsKnown, ListsAreLoaded
<1>2. ListInv'
  BY DEF OpensInv, ListInv, ListTypes, HasOwner
<1>3. (Alone' <=> Alone) /\ (FileTypes' <=> FileTypes) /\ (CommandIsTrue' <=> CommandIsTrue)
  BY DEF Alone, FileTypes, CommandIsTrue, O!Waits
<1>4. FilesAreWhole' <=> FilesAreWhole
  BY DEF FilesAreWhole, PathIsWhole, RowIsTrue
<1> QED BY <1>1, <1>2, <1>3, <1>4 DEF OpensInv

\* The list is that of what runs.
LEMMA ListIsThatOfRunning == ASSUME ListInv PROVE O!ListIsRunning
<1>1. ASSUME "panic" \notin cacheFeatures PROVE {e.who : e \in entries} = O!Running
  <2>1. ASSUME NEW e \in entries PROVE e.who \in O!Running
    <3>1. HasOwner(opens, upload, e) /\ e.id \in 0 .. next - 1
      BY DEF ListInv, ListTypes
    <3> QED BY <1>1, <3>1 DEF HasOwner, O!Running, Uploading, ListInv
  <2>2. ASSUME NEW o \in Opens, opens[o].id # -1 PROVE o \in {e.who : e \in entries}
    BY <2>2 DEF ListInv, EntryOf
  <2>3. ASSUME NEW u \in Uploads, upload[u].pc = "run" PROVE u \in {e.who : e \in entries}
    BY <2>3 DEF ListInv, EntryOf, Uploading
  <2> QED BY <2>1, <2>2, <2>3 DEF O!Running
<1>2. \A h \in handles : \E e \in entries : e.id = h[1]
  BY DEF ListInv, EntryOf
<1>3. \A e, f \in entries : e.id = f.id => e = f
  BY DEF ListInv
<1> QED BY <1>1, <1>2, <1>3 DEF O!ListIsRunning

LEMMA OpensSound == ASSUME OpensInv PROVE O!OpensAreSound
<1>1. O!ListIsRunning /\ O!CancelsWhatWasMeant
  BY ListIsThatOfRunning DEF OpensInv, SeenIsKnown, O!CancelsWhatWasMeant
<1>2. ASSUME Alone PROVE /\ O!OpenedIsWhole /\ (row.cached => row.size = Blocks)
                         /\ O!KeptIsThere /\ O!ThumbnailersWait
  <2>1. FilesAreWhole /\ CommandIsTrue /\ ListInv
    BY <1>2 DEF OpensInv
  <2>2. O!OpenedIsWhole
    BY <2>1 DEF O!OpenedIsWhole, FilesAreWhole, FileOf, O!Whole
  <2>3. row.cached => row.size = Blocks
    BY <2>1 DEF FilesAreWhole, RowIsTrue
  <2>4. row.cached => \A o \in Opens : ~Transfers(opens[o])
    BY <2>1 DEF FilesAreWhole, FileOf
  <2>5. kept = "yes" => O!IsAvailableOffline /\ inodes[cachePath] = O!Whole
    BY <2>1, <2>4 DEF FilesAreWhole, RowIsTrue, PathIsWhole, O!IsAvailableOffline, O!NoFile, O!Whole
  <2>6. (offline.value = "offline" /\ offline.left = <<>> /\ ~O!Waits /\ "file" \in offline.below) =>
          (offline.failed = 0 => kept # "no" /\ "gone" \notin offline.below)
    BY <2>1 DEF CommandIsTrue
  <2>7. O!ThumbnailersWait
    BY <2>1 DEF ListInv, FilesAreWhole, FileOf, O!ThumbnailersWait
  <2> QED BY <2>2, <2>3, <2>5, <2>6, <2>7 DEF O!KeptIsThere
<1> QED BY <1>1, <1>2 DEF O!OpensAreSound, Alone

(* What opens find in the cache is whole, what is kept offline stays until it is freed or
   an event tells of the file, and the list of transfers is true, however many files are
   opened and transferred (fs.rs, transfer.rs, offline.rs). *)
THEOREM OpensStay == PartSpec => []OpensAreSound
<1>1. PartInit => OpensInv
  BY OpensBegin
<1>2. OpensInv /\ [PartNext]_<<part, vars, appVars, sdkVars, keptVars>> => OpensInv'
  <2>1. ASSUME OpensInv, O!Next PROVE OpensInv'
    BY <2>1, OpensKept
  <2>2. ASSUME OpensInv, UNCHANGED cacheVars PROVE OpensInv'
    BY <2>2, OpensUnmoved
  <2>3. PartNext => O!Next \/ UNCHANGED cacheVars
    BY DEF PartNext, appVars
  <2>4. UNCHANGED <<part, vars, appVars, sdkVars, keptVars>> => UNCHANGED cacheVars
    BY DEF appVars
  <2> QED BY <2>1, <2>2, <2>3, <2>4
<1>3. OpensInv => OpensAreSound
  BY OpensSound DEF OpensAreSound
<1> QED BY <1>1, <1>2, <1>3, PTL DEF PartSpec
==============================================================================
