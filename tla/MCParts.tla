------------------------------- MODULE MCParts -------------------------------
(* The instances of smaller parts, each checked alone, in one run: the threads of the
   mount with their locks, and the opens that fill its cache; the daemon's socket and
   the caches of the account; the download of a block with its retries, a subscription
   to events, the listing of a folder, and a document that is opened and written.
   `part' says which of them runs. *)
EXTENDS FuseLocks

CONSTANTS Opens, Uploads, Blocks, CacheModes, Folders, Viewer, Programs, Thumbnailers, ConfigFiles, MaxOpens,
          MaxCancels,
          Daemons, Lines, MaxOps, Addresses, DriveFiles, Capacity,
          Fetched, BlockPermits, Delays,
          PageSize, MaxEvents, MaxShares, Nodes, BatchSize,
          Procs, Live, Texts, MaxFaults,
          Terminals, Tags, Values, Accounts, KeyIds, MaxSessions, MaxEnds
VARIABLES part,
          cacheFeatures, cachePath, inodes, row, opens, upload, next, entries, handles, seen, aborted,
          meant, config, offline, kept, opened, cancels,
          socketFeatures, stored, path, mounts, daemon, req, cmd, last, crossed, ops,
          accountFeatures, keys, entities, tagged, secrets, addressKeys, cutList, lookup, lookups, failed,
          permits, get, expired, throttled,
          log, oldest, shares, kind, sub, faults,
          listKind, folder, trashed, damaged, known, reported, run, stayed, others, listFaults,
          bound, document, lock, open, proc, pad, live, looks, leaked, typed, polls, docFaults,
          jobFeatures, devices, folders, made, jobFile, tmp, shell, added, unwanted, cutOff,
          commands, jobFaults, elsewhere,
          batchFeatures, job, transfer, block, finished, transferredFiles, skipped, failures,
          finishedBytes, transferred, failure, moved, late, batchFaults,
          storeFeatures, cached, tagsOf, keysOf, tracked, master, task, given, unsure, cacheCalls,
          loginFeatures, up, keyring, credFile, masters, openable, server, fork, command, told,
          loginFaults, ends, logins

\* Opens one after the other, at once, with a daemon that is killed, with uploads that
\* panic, with the command, and of programs: a viewer that a file manager started, one
\* that does not look like one, a worker and a helper that make thumbnails, and a helper
\* of a file manager, which the user's own lists may let read.
MCCacheModes == {{"upload"}, {"overlap"}, {"kill", "upload"}, {"panic", "upload"}, {"offline"},
                 {"programs"}}
MCFolders == {<<"document", "file">>, <<"gone", "file">>}
Process(exe, name, plugin) == [exe |-> exe, name |-> name, plugin |-> plugin]
Manager == Process("manager", "manager", "none")
MCViewer == <<Process("viewer", "viewer", "none"), Manager>>
Helper == Process("other", "other", "none")
MCThumbnailers == {<<Process("other", "other", "thumbnail"), Manager>>,
                   <<Helper, Process("other", "thumbnail", "none"), Manager>>}
MCPrograms == MCThumbnailers \cup {MCViewer, <<Process("other", "viewer", "none"), Manager>>, <<Helper, Manager>>}
MCConfigFiles == {<<>>, <<[allowedExes |-> {"manager"}, blockedExes |-> {}, allowedNames |-> {"viewer"},
                            blockedNames |-> {}]>>}
O == INSTANCE FileCache WITH Modes <- CacheModes,
                             features <- cacheFeatures, path <- cachePath, open <- opens, command <- offline
cacheVars == <<cacheFeatures, cachePath, inodes, row, opens, upload, next, entries, handles, seen,
               aborted, meant, config, offline, kept, opened, cancels>>

(* An open is no upload; a folder has files, documents and what is gone. *)
ASSUME OpensAreGiven == /\ Opens \cap Uploads = {} /\ Blocks \in Nat /\ MaxOpens \in Nat
                        /\ \A f \in Folders : f \in Seq({"document", "file", "gone"})

(* A thumbnailer is told by the first of the processes that the lists know; the one that
   opens files for the user's own programs, and nobody's, is none. *)
ASSUME ThumbnailersAreGiven ==
  /\ Viewer \notin Thumbnailers /\ <<>> \notin Thumbnailers
  /\ \A by \in Thumbnailers :
       /\ DOMAIN by = 1 .. Len(by)
       /\ \E i \in DOMAIN by :
            /\ i <= 16 /\ "thumbnail" \in {by[i].exe, by[i].name, by[i].plugin}
            /\ \A j \in 1 .. i - 1 :
                 /\ "thumbnail" \notin {by[j].exe, by[j].name, by[j].plugin}
                 /\ \A f \in ConfigFiles :
                      LET lists == O!Load(f)
                      IN  /\ by[j].exe \notin lists.allowedExes \cup lists.blockedExes
                          /\ by[j].name \notin lists.allowedNames \cup lists.blockedNames

\* Daemons that answer in time, that are killed, that are slow, and of two command lines.
MCSocketModes == {{}, {"crash"}, {"slow"}, {"overlap"}}
MCMaxOps == [m \in MCSocketModes |-> IF m = {"overlap"} THEN 3 ELSE MaxOps]
K == INSTANCE DaemonSocket WITH Users <- Lines, Modes <- MCSocketModes, MaxOps <- MCMaxOps,
                                features <- socketFeatures
socketVars == <<socketFeatures, stored, path, mounts, daemon, req, cmd, last, crossed, ops>>

\* Two addresses, one with an inactive key and a primary one that is not the first; or
\* with keys that do not open, or cannot be read.
Key(i, active, primary, opens1) == [id |-> i, active |-> active, primary |-> primary, opens |-> opens1]
MCWhole == {<<<<Key(1, FALSE, FALSE, "yes"), Key(2, TRUE, FALSE, "yes"), Key(3, TRUE, TRUE, "yes")>>,
              <<Key(1, TRUE, TRUE, "yes")>>>>}
MCDamaged == {<<<<Key(1, TRUE, FALSE, o), Key(2, TRUE, TRUE, "yes")>>, <<Key(1, TRUE, TRUE, p)>>>> :
                o \in {"yes", "no", "error"}, p \in {"yes", "no"}}

\* Calls one by one and killed, that overlap, with keys that do not open, and with full caches.
MCMaxLookups == [m \in {{"kill"}, {"concurrent"}, {"locked"}, {"full"}} |-> IF m = {"concurrent"} THEN 2 ELSE 3]
A == INSTANCE AccountCaches WITH
       Callers <- {1, 2}, Files <- DriveFiles, Whole <- MCWhole, Damaged <- MCDamaged, MaxCalls <- MCMaxLookups,
       features <- accountFeatures, stored <- addressKeys, cutOff <- cutList,
       call <- lookup, calls <- lookups, faults <- failed
accountVars == <<accountFeatures, keys, entities, tagged, secrets, addressKeys, cutList, lookup, lookups, failed>>

B == INSTANCE BlockRetry WITH Targets <- Fetched, Permits <- BlockPermits
retryVars == <<permits, get, expired, throttled>>

F == INSTANCE EventFeed
feedVars == <<log, oldest, shares, kind, sub, faults>>

\* What of which node or share cannot be read: nothing, or one part of the fourth node, or
\* of My Files, or of a share of a device.
MCDamages == {{}} \cup {{<<4, what>>} : what \in {"passphrase", "key", "name", "content", "attributes",
                                               "thumbnail"}}
             \cup {{<<0, what>>} : what \in {"passphrase", "key", "root"}} \cup {{<<9, "key">>}}
\* bound: another client acts while all can be read, or a key or a thumbnail cannot.
MCListingOthers == [d \in MCDamages |-> IF d \in {{}, {<<4, "key">>}, {<<4, "thumbnail">>}} THEN 1 ELSE 0]
MCPreview == <<"one", "folder", "one", "one", "other">>
L == INSTANCE NodeListing WITH Damages <- MCDamages, MaxOthers <- MCListingOthers, Preview <- MCPreview, Width <- 2,
                               kind <- listKind, faults <- listFaults
listVars == <<listKind, folder, trashed, damaged, known, reported, run, stayed, others, listFaults>>

\* Updates in pieces with one writer, and an editor whose changes are written back.
MCBounds == {[pieces |-> 4, typed |-> 0, looks |-> 0, faults |-> 1],
             [pieces |-> 1, typed |-> 2, looks |-> 5, faults |-> 0]}
D == INSTANCE DocsSync WITH Bounds <- MCBounds, faults <- docFaults
docsVars == <<bound, document, lock, open, proc, pad, live, looks, leaked, typed, polls, docFaults>>

\* Commands one after the other, at once, killed, and with a computer renamed elsewhere.
MCJobCommands == [m \in {{}, {"overlap"}, {"kill"}, {"elsewhere"}} |-> IF m = {"overlap"} THEN 2 ELSE 3]
J == INSTANCE ComputerJobs WITH
        Procs <- Terminals, Paths <- {"a", "b"}, MaxDevices <- 2,
        Modes <- DOMAIN MCJobCommands, MaxCommands <- MCJobCommands,
        features <- jobFeatures, file <- jobFile, proc <- shell, wanted <- added,
        faults <- jobFaults
jobVars == <<jobFeatures, devices, folders, made, jobFile, tmp, shell, added, unwanted, cutOff,
             commands, jobFaults, elsewhere>>

\* Batches of one to three files, with blocks sent one by one or two at once.
Up(n) == [does |-> "upload", blocks |-> n]
Down(n) == [does |-> "download", blocks |-> n]
MCPlans == [m \in {{"import"}, {"import", "parallel"}, {"sync"}, {"sync", "parallel"}, {"takeout"}} |->
              CASE m = {"import"} -> <<<<Up(1)>>, <<Up(2)>>>>
                [] m = {"import", "parallel"} -> <<<<Up(2)>>>>
                [] m = {"sync"} -> <<<<Down(1)>>, <<Down(1), Up(2)>>>>
                [] m = {"sync", "parallel"} -> <<<<Down(1), Up(2)>>>>
                [] OTHER -> <<<<Down(1)>>, <<Down(2)>>, <<Down(1)>>>>]
MCBatchFaults == [m \in DOMAIN MCPlans |-> IF m = {"import"} THEN 2 ELSE 1]
G == INSTANCE BatchProgress WITH
       Plans <- MCPlans, Jobs <- 2, Attempts <- 2, MaxFaults <- MCBatchFaults,
       features <- batchFeatures, failed <- failures, faults <- batchFaults
batchVars == <<batchFeatures, job, transfer, block, finished, transferredFiles, skipped, failures,
               finishedBytes, transferred, failure, moved, late, batchFaults>>

\* The stores of the caches, each alone, with two tasks, and where there is one with kills.
MCCacheCalls == [m \in {{"memory"}, {"memory", "parallel"}, {"sqlite"}, {"sqlite", "kill"},
                        {"sqlite", "parallel"}, {"sqlite", "shared"}, {"sqlite", "rotate"},
                        {"keyring"}, {"keyring", "kill"}} |->
                   IF m \in {{"memory"}, {"memory", "parallel"}, {"sqlite", "rotate"}, {"keyring"}}
                   THEN 3 ELSE 2]
R == INSTANCE CacheRepositories WITH
       Tasks <- {1, 2}, Keys <- {1, 2}, Capacity <- 1, MaxCalls <- MCCacheCalls,
       features <- storeFeatures, entries <- cached, calls <- cacheCalls
storeVars == <<storeFeatures, cached, tagsOf, keysOf, tracked, master, task, given, unsure, cacheCalls>>

\* Commands one after the other with sessions that end, at once, and killed, each with a
\* keyring, without one, and with one that appears.
MCLogins == [m \in {{"overlap", "appear"}, {"kill", "appear"}, {"expire", "appear"}} |->
               IF "overlap" \in m THEN 2 ELSE 3]
S == INSTANCE SessionLogin WITH
       Users <- Accounts, UserKeys <- KeyIds, MaxRuns <- MCLogins, features <- loginFeatures, file <- credFile,
       secrets <- openable, faults <- loginFaults, runs <- logins
loginVars == <<loginFeatures, up, keyring, credFile, masters, openable, server, fork, command, told,
               loginFaults, ends, logins>>

appVars == <<cacheVars, socketVars, accountVars>>
keptVars == <<jobVars, batchVars, storeVars, loginVars>>
sdkVars == <<retryVars, feedVars, listVars, docsVars>>

-----------------------------------------------------------------------------
\* The part that does not run stays in one state, where no step of it is taken.
PartInit ==
  /\ part \in {"locks", "opens", "socket", "account", "retry", "feed", "listing", "docs",
              "computers", "batch", "stores", "login"}
  /\ Init /\ B!Init
  /\ O!Init /\ (part # "opens" => cacheFeatures = {"upload"})
  /\ K!Init /\ (part # "socket" => socketFeatures = {})
  /\ A!Init /\ (part # "account" => accountFeatures = {"kill"})
  /\ F!Init /\ (part # "feed" => kind = "tree")
  /\ L!Init /\ (part # "listing" => /\ listKind = "children" /\ damaged = {}
                                    /\ \A n \in Nodes : folder[n] = L!Listed)
  /\ D!Init /\ (part # "docs" => ~document.exists /\ bound.pieces = 1)
  /\ J!Init /\ (part # "computers" => jobFeatures = {})
  /\ G!Init /\ (part # "batch" => batchFeatures = {"takeout"})
  /\ R!Init /\ (part # "stores" => storeFeatures = {"memory"})
  /\ S!Init /\ (part # "login" => loginFeatures = {"overlap", "appear"} /\ up)

PartNext ==
  \/ part = "locks" /\ Next /\ UNCHANGED <<part, appVars, sdkVars, keptVars>>
  \/ part = "opens" /\ O!Next /\ UNCHANGED <<part, vars, socketVars, accountVars, sdkVars, keptVars>>
  \/ part = "socket" /\ K!Next /\ UNCHANGED <<part, vars, cacheVars, accountVars, sdkVars, keptVars>>
  \/ part = "account" /\ A!Next /\ UNCHANGED <<part, vars, cacheVars, socketVars, sdkVars, keptVars>>
  \/ part = "retry" /\ B!Next /\ UNCHANGED <<part, vars, appVars, feedVars, listVars, docsVars, keptVars>>
  \/ part = "feed" /\ F!Next /\ UNCHANGED <<part, vars, appVars, retryVars, listVars, docsVars, keptVars>>
  \/ part = "listing" /\ L!Next /\ UNCHANGED <<part, vars, appVars, retryVars, feedVars, docsVars, keptVars>>
  \/ part = "docs" /\ D!Next /\ UNCHANGED <<part, vars, appVars, retryVars, feedVars, listVars, keptVars>>
  \/ part = "computers" /\ J!Next /\ UNCHANGED <<part, vars, appVars, sdkVars, batchVars, storeVars, loginVars>>
  \/ part = "batch" /\ G!Next /\ UNCHANGED <<part, vars, appVars, sdkVars, jobVars, storeVars, loginVars>>
  \/ part = "stores" /\ R!Next /\ UNCHANGED <<part, vars, appVars, sdkVars, jobVars, batchVars, loginVars>>
  \/ part = "login" /\ S!Next /\ UNCHANGED <<part, vars, appVars, sdkVars, jobVars, batchVars, storeVars>>

PartSpec == PartInit /\ [][PartNext]_<<part, vars, appVars, sdkVars, keptVars>>

(* Safety: opens of files that are not cached find whole files, unless they overlap or
   follow a kill; and the list of transfers is that of those that run (fs.rs). *)
OpensAreSound == part = "opens" => O!OpensAreSound

(* Safety: there is one daemon at a time, unless two are started at once, the commands do
   what they say, and so do pause and resume, also after a daemon was killed in the middle
   (daemon.rs); the list of addresses is whole, unless it was cut off when it was stored,
   the primary key of one is the right one, and the keys can be had as long as the caches
   have room (account.rs); the caches' stores answer what they were last given, under the
   tags it was given with (cache.rs, sqlite.rs, keyring.rs); and a user who was told to be
   signed in can use the account, and of one who was told to be signed out no credentials
   are left (credentials.rs, session.rs). *)
SessionIsSound == /\ part = "socket" => K!DaemonIsSound
                  /\ part = "account" => A!AccountIsSound
                  /\ part = "stores" => R!StoresAreSound
                  /\ part = "login" => S!LoginIsSound

(* Safety: what the SDK makes of answers is right: every retry of a block is one that can
   help, late enough, and its permit comes back (block/download.rs); each subscriber is
   told of every change once, in order (events.rs); a listing that ends well is whole,
   each of its nodes read with the key of its own folder (node/folder.rs, node/mod.rs);
   and documents are read and written whole, under a lock that is given back (docs.rs). *)
AnswersAreSound == /\ part = "retry" => B!RetriesAreSound
                   /\ part = "feed" => F!EventsAreSound
                   /\ part = "listing" => L!ListingIsSound
                   /\ part = "docs" => D!DocumentsAreSound

(* Safety: the computers and jobs of computers.json are those that were added and not
   removed, with commands that overlap, fail or are killed (computers.rs); and a batch
   shows no more than it moves, counts every file once and starts nothing after the failure
   that ends it (transfer_progress.rs). *)
JobsAreSound == /\ part = "computers" => J!JobsAreSound
                /\ part = "batch" => G!BatchIsSound
==============================================================================
