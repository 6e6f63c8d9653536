# Formal models of proton-sdk-rs2 and pdcli

TLA+ models of the parts of this repository where the order of events decides
whether a user's files survive: the FUSE mount of `pdcli` and its commands, the
transfers, caches and sharing of `proton-drive-sdk`, and the sessions of
`proton-sdk-rs2`.  TLC checks them on small instances; TLAPS proves some of their
properties for every instance.  Paths below are relative to `src/crates/`; a bare
`fs.rs` is `pdcli/src/fs.rs`, `db.rs` and `daemon.rs` are its neighbours, and
`node/` is `proton-drive-sdk/src/node/`.

How to run, inside this directory:

    tlc -workers 2 -config JournalQueue_all.cfg JournalQueue
    tlc -workers 2 -config MCParts_all.cfg MCParts
    tlapm JournalQueueProofs.tla

## 1. The system

### Crates and how they meet

    kernel --FUSE--> fs.rs (8 threads) --rows, journal--> db.rs (SQLite) <--`pdcli sync`
                       |        ^                            ^
                       |        | rows, cached copies        |
                       v        |                            |
                StreamingFile   journal_flush_loop ----------+
                       |        event_poll_loop
                       |        populate_folder_children
                       v        |
    proton-drive-sdk: FileUploader, FileDownloader, nodes, EventScheduler, Sharing, docs
                       |                 caches of nodes and secrets (memory, SQLite, keyring)
    proton-sdk-rs2:  HTTP client --401--> TokenCredential --broadcast--> daemon.rs --> keyring

    pdcli commands --socket--> daemon.rs        pdcli-gui --runs--> pdcli commands

The kernel's requests run on threads, everything else on one Tokio runtime.
What they share is the database (one mutex), the table of open files (a
read-write lock, and a mutex per file), the cache directory, the token cell and,
across processes, the database file, the caches of the SDK, the list of jobs and
the keyring.

### Inventory

| Component | State it keeps | Operations | Hard because of | Correct when |
| --- | --- | --- | --- | --- |
| FUSE request threads (`fs.rs` 490-1950) | database mutex, open-file table, open files | lookup, readdir, getattr, setattr, open, create, read, write, flush, release, mkdir, unlink, rmdir, rename, setxattr | lock order | no circular wait, known handles are found, every request is answered |
| Journal and flush loop (`fs.rs` 860-960, 2290-2440; `db.rs` 560-760) | table `journal`, dirty flags; a batch in memory | enqueue, load, upload four wide, apply the result, delete, sweep, `sync retry` | crash, retries, appends during a pass, another process | an entry is applied or fails, in order, no file is uploaded twice at once, no dirty file is forgotten |
| Folder tree (`fs.rs` 500-600, 960-1080, 1790-1950, 2200-2290, 2440-2800) | table `inodes`, `children_populated`, server tree | mkdir, rmdir, rename, replay, listing, events | three loops see the tree at different times | the two trees agree in the end, no row is unreachable, no unseen node goes to the trash |
| File contents (`fs.rs` 600-860, 1090-1790, 2440-2760) | row, copies in the cache directory, revisions | open, write, setattr, release, upload, free-up, events, restart | unlocked gaps between reading the row, the file and the server | no edit is lost, clean means stored |
| Cache of the mount, transfers (`fs.rs` 640-760, `transfer.rs`) | partial files, list of transfers | download, cancel, end | downloads into the final path, kills | an open finds the whole file, the list is of what runs |
| Streamed reads (`fs.rs` 150-330) | block cache, set of fetches | read, read-ahead, fetch | two locks, failing tasks | cache bounded, one fetch for a block, reads end |
| Token sharing (`proton-sdk-rs2/src/auth.rs`; `daemon.rs` 510-608) | token cell, broadcast channel, keyring | get, refresh, broadcast, save, forget | many callers, single-use refresh tokens, cancellation | one refresh at a time, the newest pair is stored |
| Sign-in and credentials (`proton-sdk-rs2/src/session.rs`; `auth.rs`, `credentials.rs`) | keyring, files in its stead, master keys | fork and poll, restore, persist, logout | two stores, kills, commands at once | who is signed in can use the account, who signed out left no credentials behind |
| Account and its caches (`proton-sdk-rs2/src/account.rs`, `api/cache.rs`) | addresses, keys, passphrases | get_addresses, get_address, primary key | lists stored entry by entry, eviction | the list is whole, the primary key is the right one |
| Cache stores (`proton-sdk-rs2/src/cache.rs`, `proton-drive-sdk/src/cache/`) | entries, tags, capacity | set, get, remove, clear, by tags | two maps, statements of their own, kills | an answer is what was stored last |
| Download pipeline (`node/download.rs`, `node/file/download.rs`) | block futures, reorder buffer, output | download, pause, resume | order, failures, shared permits | output is a prefix, downloads end |
| Block retries (`proton-drive-sdk/src/block/download.rs`) | attempt, throttling | try, back off, refresh the address | attempts shared by causes | at most five attempts, the permit comes back |
| Upload pipeline (`node/revision.rs`, `node/file/upload.rs`) | draft, producer, channel, futures, results | upload, pause, commit, clean up | producer and consumer, failures, lost answers | what is committed is complete, uploads end, memory is bounded |
| Flexible semaphore (`proton-drive-sdk/src/utils/semaphore.rs`) | permits, queue | acquire, release, drop | wake-ups, overdraft | permits conserved, served in order |
| Event scheduler (`proton-drive-sdk/src/event_scheduler.rs`) | scopes, command channels, timers | add, remove, foreground, background, poll | commands that cross a callback | a scope is polled for ever, one foreground scope |
| Event subscriptions (`proton-drive-sdk/src/events.rs`) | last event, poll task | subscribe, poll, dispose | failing polls, forgotten events | each event once, in order |
| Nodes and their cache (`node/operations.rs`, `node/mod.rs`, `node/folder.rs`) | entity cache, folder secrets | get, move, rename, copy, trash, restore, delete, list | the cache hears of nothing, overlapping calls | the cache follows this machine, listings are whole |
| Sharing (`proton-drive-sdk/src/sharing.rs`; `pdcli/src/share.rs`) | share of a node, members, invitations | share, unshare, leave, accept | lists read one after the other, other devices | access is what was asked for, nobody else is dropped |
| Docs (`proton-drive-sdk/src/docs.rs`) | document, lock, updates in chunks | open, write, live sync | lost answers, locks, pieces | read and written whole, locks given back |
| Daemon and socket (`daemon.rs` 200-510) | socket, running jobs | start, command, stop, pause | two starts at once, slow or killed daemons | one daemon, commands do what they say |
| Computer backups (`pdcli/src/computers.rs`) | list of jobs; nothing about files but their mtimes | add, remove, compare, upload, download, conflict copy, every 30 s | both sides change during a pass, a list without a lock | nothing the user wrote is lost, transfers come to an end |
| Photos (`pdcli/src/photos.rs`, `photo_cache.rs`; `proton-drive-sdk/src/photo.rs`) | cache of imported photos; index of the library, albums | import with several jobs, save, delete albums, dedupe | equal contents and names side by side, lost answers | a photo is imported once and never lost with an album or a copy |
| Takeout (`pdcli/src/takeout.rs`) | manifest, destination folder | list, export, run again | stop in the middle, files of the user in the way | manifest and folder agree, nothing of the user is overwritten |
| Batches (`transfer_progress.rs`, `photos.rs`, `computers.rs`) | counters of a batch | report, finish, stop | reports that cross, failed attempts | no more shown than moved, files counted once |
| Database schema (`db.rs` 1-480, 780-979) | the file on disk | open, migrate, encrypt | kill between renames, two processes | rows and journal survive, the database opens |
| Desktop app (`pdcli/src/bin/pdcli-gui.rs`) | window, requests on their way | click, reply | replies in any order, sign-outs between | the window shows what was asked for last |
| Offline files (`offline.rs`), thumbnailers (`thumbnail.rs`), ignore rules (`pdignore.rs`) | an attribute of each file, lists of programs | keep, free, classify, match | files that are open or on their way | what was kept is there, a thumbnailer downloads nothing |
| Search, telemetry, cryptography, API types, the other commands | little or none | one request and one answer each | - | see section 8 |

### Hazards

`PROJECT.json` lists 40 hazards at their lines, each with the properties that
would catch it.  The ones that shaped the models are: the lock order of
`free_up_space` against `write`; the batch of the flush loop going stale; a dirty
flag cleared after the file changed again; cached copies removed by the echo of an
own upload; listings answered late; a uid captured before it exists; wake-ups of
the semaphore; a panic that leaves a block in the set of fetches; a draft left
behind; a commit whose answer is lost; a refresh token used twice; broadcasts saved
out of order; caches that hear of nobody else; members read in four lists while
others invite; and a database swapped by renames.

## 2. Plan

The order of work is the order of importance.

1. *The mount*: JournalQueue, FileSync, NamespaceSync, FuseLocks, StreamCache,
   FileCache, DatabaseMigration.
2. *Transfers*: UploadPipeline, DownloadPipeline, BlockRetry, FlexibleSemaphore.
   *Sessions and events*: TokenRefresh, SessionLogin, AccountCaches,
   CacheRepositories, EventScheduler, EventFeed.
3. *Commands that move many files and may stop in between*: PhotosImport, Takeout,
   ComputerSync, ComputerJobs, BatchProgress, DaemonSocket.
4. *The drive as the SDK remembers it*: DriveNodes, NodeListing, Sharing, DocsSync,
   PhotoLibrary, PhotoDedupe; and DesktopApp on top.
5. *Proofs* (section 6), in the same order, so far as the prover reaches.  What could
   follow: TreeIsSound of NamespaceSync in the mode without features; ManifestIsTrue of
   Takeout; the accounting of permits in BlockRetry; and the abstract specifications of a *mount file* (an edit is acknowledged, stored once, never
   replaced by an older one) and of an *atomic transfer*, with FileSync and the two
   pipelines as their implementations.

All modules of points 1 to 4 exist.  Modules meant for proofs declare their
constants with named assumptions, have one action per operation and use recursive
functions, never RECURSIVE operators.

## 3. What each module models

Every action is named after the function it models where the code has a name for
it; `PROJECT.json` ("map") gives the lines.  An action covers what the code does
between two points at which another thread, task or process can see or change
shared state: a critical section of a mutex, a synchronous stretch of a task
between two awaits, or one request to the server.

### The mount

**FuseLocks.**  A handler is the list of locks it takes and gives back (`Open`,
`Create`, `Write`, `FreeUp`, ...), run by one of `Threads`; `at` is the position in
that list.  `owner` and `readers` are the locks; `table` is `open_files`;
`kernelOpen` are the handles the kernel may still use.  The read-write lock admits no
new reader while a writer waits, as `std::sync::RwLock` does on Linux.
`free_up_space` takes one open file after the other (`scanned`) and stops at the first
of the file it is about.  What handlers compute is left out.

**JournalQueue.**  `status`, `retry`, `kind`, `inode` are the columns of the table
`journal`; `dirty` the flag of the rows; `batch`, `uploads`, `running`, `seen` are
the locals of `journal_flush_loop`.  `Write`, `NoteDirty`, `QueueUpload`, `Enqueue`
are the requests; `BeginPass`, `Collect`, `StartUploads`, `StartOther`, `Finish`,
`Panic`, `EndWalk`, `SweepOne`, `EndPass` the loop; `RetryFailed` is `pdcli sync
retry`, which is another process; `Crash` keeps the tables only.  `created_at`
grows with the id.  What an entry does to the server is one of three outcomes.  `ended`
is history: the attempts of an entry that ended with a result, which is what
`retry_count` counts.

**FileSync.**  One inode and one handle.  `row`, `disk` and `content` are the row,
the cache directory and the revisions on the server; the content of a file is the
number of the edit it shows.  `Begin` to `UpdateDone` are the awaits of
`process_journal_entry`; the database mutex is not held between them.  Left out:
a second handle, torn reads, `.pdignore`; how often an entry is retried is left
to chance.  External: the server refuses an update whose base revision is not
the active one (`Accepted`).

**FileCache.**  A download into the cache block by block, which FileSync takes in one
step: `path` and `inodes` are the file under the path and the files that live on
without one, `open` the opens that wait, `upload` an upload beside them, `entries` the list
of transfers.  `command` is `pdcli offline`, which sets an attribute of one file after
the other (`SetAvailability`); `by` the process an open is of, with those that started
it, and `config` the lists of programs that tell the ones that only make thumbnails.
`RemoteUpdate` is an event of `event_poll_loop`, which removes the copy, also one that is
kept.  The events that delete the row are FileSync's and NamespaceSync's.

**NamespaceSync.**  `rows` and `populated` are the table of inodes, `nodes` the
server's tree, `journal`, `pass`, `work` the queue and its replay, `events` what
was not polled, `listing` the tasks of `populate_folder_children`.  A pass takes the
entries with the fewest retries (`FewestTries`) and goes on after one that fails, be it that
the request or its answer got lost ("failing"); `failed` is history, of which entries that
happened to.  External: the
server keeps names unique within a folder, moves nothing below itself and emits
an event for each change.  Only folders: `create` and `unlink` change rows and
queue as `mkdir` and `rmdir` do, and FileSync has the contents.

**DatabaseMigration.**  `file` are the files that were made and what they hold, `at`
which of them the paths of the database and of its copy point to, `proc` the steps of the daemon and of a
command in `open`; a kill may come between any two.  External: a statement of SQLite
is atomic, `sqlcipher_export` is several.

**StreamCache.**  `cache` and `fetching` are behind a mutex each; `Look`, `Claim`,
`AheadLook` and `AheadClaim` are one access each.  A fetch is a task with its
stages; `Panic` is a task that ends without an answer.

### Transfers

**DownloadPipeline**, **UploadPipeline.**  One task for a file and one for each
block, a file permit and shared block permits.  `took`, `buffer`, `out` and
`channel`, `futures`, `results` are the locals of the loops.  A block's retries
are one step with their outcome (BlockRetry has them); a block task whose transfer
failed runs on, as it does in the code, because its handle is dropped and not aborted.

**BlockRetry.**  `get[b]` holds the locals of a block's download: its attempt, whether
its address was refreshed, what it waits for.  An attempt ends with one of the answers
the code tells apart.

**FlexibleSemaphore.**  `count` and `queue` as in the code.  `Serve` is one turn
of the loop of `release`, which runs under the mutex.  `DropWait` is a future that
is dropped while it waits.

**BatchProgress.**  `job`, `transfer` and `block` are the tasks of a batch from the
file down to the block; `finished` to `transferred` the counters that are shown.  Each
counter is read and written apart from the others.

### Sessions, events and caches

**TokenRefresh.**  A pair of tokens is its generation.  `cells[p]` is the sequence
of `OnceCell`s a process has put behind `tokens_task`; `call[c]` holds the locals
of a caller.  `Serve` is the server: it accepts a refresh token once.  `Save` and
`Forget...` are the two listeners of the daemon, `Start` to `SaveLatest` is
`restore_session`.  Abstractions: an access token does not expire while a refresh
is under way, unless the feature "slow" is on; the server answers; the keyring is
written atomically; the broadcast channel (16 places) does not overflow.

**SessionLogin.**  `keyring` and `file` are the two places of credentials and master
keys, `up` whether the keyring can be reached, `server` the sessions that are valid,
`secrets` whose passphrases the secret cache has; `command[t]` is a command of a terminal.
Keyring and file are read and written in steps of their own (`ReadKeyring`, `ReadFile`,
`Migrate`, `Save`, `WriteFile`, `RemoveCred`, `RemoveFile`, and the same for the master
key), and a kill, another command or a keyring that appears comes between any two.

**AccountCaches.**  `entities` and `tagged` are the cached addresses and those under the
tag of the list, `secrets` the cache of secrets in order of use.  A call reads tag, entries
and keys one after the other, and stores them so; a kill may come between.

**CacheRepositories.**  The four stores under one interface; `features` says which one
runs.  `entries`, `tagsOf` and `keysOf` are its maps or tables, `tracked` what the keyring's
store remembers to have set.

**EventScheduler.**  A scope that was removed and added again may have two tasks:
each scope has `Slots` for them.  Time is abstracted to `TimerFires`.

**EventFeed.**  `log` and `oldest` are the server's events, `kind` which of the two
subscriptions is looked at, and `sub` its task, with what it was told of last.

**DaemonSocket.**  `path` is what the name of the socket leads to, `daemon[d]` a process
with its queue of connections, `req` the request of a command, which gives up after half a
second while the daemon still has it.  `cmd[u]` are the commands of the user's terminals,
which run at once in the mode "overlap"; `crossed` is history: whether two daemons were
started next to each other, a start crossed a stop, or two commands toggled the pause.

### The drive

**DriveNodes.**  `link` is the server's tree, `cache` what the entity cache has of each
node, `task` the operations under way: each asks, changes the server, gets its answer
or loses it (`RequestFails`) and writes the cache in steps of their own.  `unheard` is
history: nodes that were moved or renamed with the answer lost, and not read since.

**NodeListing.**  `run` holds the page, the ids that wait for a batch and what was
handed to the caller; keys are named for their folder.  `damaged` are parts of nodes and
shares that cannot be read, and `reported` those that telemetry was told of.  The third
kind of run fetches the thumbnails of a list of nodes, a few at a time (`Enumerate`,
`GetBlocks`, `DownloadThumbnail`).

**Sharing.**  One node.  `access` is what each person has (invitation, membership or
none), `link` its public link, `cache` the share of the node as the entity cache has it,
`call[c]` the operation with the lists it has read so far.  `touched` is history: whose
access somebody else changed since the operation began, which is what it cannot know.

**DocsSync.**  `document` is the server's document with its updates in chunks, `lock` its
lock, `open` a reader, `proc` writers, `pad` and `live` an editor whose text is written back.

**PhotoLibrary**, **PhotoDedupe.**  The timeline, one album (which is made, named, filled
and deleted), favourites and the trash; a call or a run keeps what it read and acts on it
later.  `Place`, `ContentOf` and `Live0` say where photos are in the timeline, what they
show, and which are there to start with; a page of the timeline is what the server says at
that moment, from the cursor on.  A transfer is answered link by link: `Takes` is what the
server may take of it, and the code reads only the answer for the main photo (`photo.rs`
1237-1248); `unread` is history, of the photos nobody was told of.

### Commands

**PhotosImport.**  `job[f]` holds the locals of `import_photo` for a file, from one
await to the next; the locks of names and contents are held by the stages of the
jobs.  `known` and `seen` are the tables `uploaded_photos` and `imported_files` of
the cache, `index` the cell of the index.  A content stands for its fingerprint.
External: the library refuses a name that is taken, and `set_expected_sha1` a
content that is not what was hashed.

**Takeout.**  `manifest` is the manifest on disk, `folder` the destination, `plan`
what is left of the plan.  `Create`, `Download`, `Save` are `export_file` up to the
download, to the rename and to the saved manifest.  Two kinds of runs differ by
`direct`: a takeout writes next to the place and renames, an export of photos
writes in place.

**ComputerSync.**  `here` and `there` are the two folders, `listing` what the pass
read of the remote one, `transfers` its plan, `copies` the conflict copies.
`CompareFile` and `CompareFolder` are `plan_tree` for one entry, `FirstStep` to
`Commit` the steps of `run_plan`; `metadata` is the node cache a download takes its
revision from.  The mtime of a remote file is the time the server gave its revision
(`node/mod.rs` 1404-1410), whatever mtime was uploaded with it (`Uploaded`); that of a
local file is any, also ahead of the server's `clock`.  External: the server takes a
revision only on the active one (`Accepted`); the draft of an upload that was killed does
not keep its name taken, since uploads pass `override`.

**ComputerJobs.**  `file` and `tmp` are computers.json and its temporary file, `proc` the
commands that load, ask and save; `devices` and `folders` the server's.

**DesktopApp.**  The state of the window and, as `sent`, the commands on their way; a
reply is one step of the window's thread, with the checks of `request_id` the code has.
A sign-out takes effect at its click, so two that overlap are one.
`app.panel` is the window that shares an item, with the item of its title and of its link.

### Modes

Many modules have a variable `features` (or `mode`), chosen in `Init` from the
constant `Modes` and never changed: what may happen *together* in a behaviour.  A
property names the features under which it is claimed; a mode is a set of
circumstances (other clients, slow answers, overlapping requests), not a switch of the
code.  The reason is that some claims hold only when the code is not put under a
certain stress.  Section 7 lists what happens outside.

## 4. Runs

Every run finishes within five minutes on two cores; TLC explores all states.
`MC<Name>_all` stands for `MC<Name>.tla` with `MC<Name>_all.cfg`.  A module that puts
several parts into one run has a variable `part`, chosen in `Init`, which says which of
them moves; the others stay in one state, so a behaviour of the run is a behaviour of
one module, under that module's own fairness.

| Run (module, configuration) | Parts and instance | Shows |
| --- | --- | --- |
| `JournalQueue_all` (JournalQueue, JournalQueue_all.cfg) | 1 file and 1 folder, 3 entries, batches of 2, groups of 2, 2 attempts | AttemptsAreSound, LoadedIsCurrent, PassOrder, OneUploadPerFile, AppliedStaysApplied, QueueSettles |
| `MountSync_all` (MCMountSync_all) | *file*: FileSync, 2 edits, 3 revisions, 5 modes | ContentsAreSound, UploadsDoNotGoBack |
| | *names*: NamespaceSync, 2 names, 4 inodes and nodes, 1 to 3 changes by the user and 1 by others, 5 modes | TreeIsSound, DeletesOnlyEmpty |
| | *database*: DatabaseMigration, 2 entries, 4 files, up to 2 kills, 3 modes | DatabaseIsSound |
| `Reads_all` (MCReads_all) | *download*: DownloadPipeline, files of 3 and 1 blocks, 2 in flight, 1 permit | DownloadIsSound, ReadsEnd |
| | *stream*: StreamCache, 2 readers with 2 reads and 1, 3 blocks, cache of 2, panics | CacheIsSound, ReadsEnd |
| | *locks*: FuseLocks, 3 threads, 1 handle, 3 requests | EveryRequestAnswered |
| `UploadPipeline_all` (MCUploadPipeline_all) | a file of 0 to 3 blocks of which 2 are expected, an empty one, channel of 1, 2 in flight, 1 permit | UploadIsSound, CommittedStays, UploadsEnd |
| `TokenRefresh_all` (MCTokenRefresh_all) | 1 process, 2 callers, 3 generations, 4 requests, 2 starts, 2 modes | TokensAreSound, OneRefreshAtATime, EveryCallReturns |
| `SdkParts_all` (MCSdkParts_all) | *semaphore*: FlexibleSemaphore, 3 transfers of 0 to 3 blocks, 2 permits, dropped waits | PermitsAreSound, NothingIsLost, FirstComeFirstServed, EveryoneIsServed |
| | *events*: EventScheduler, the own volume and 2 shared scopes, 2 commands in a channel | NothingIsLost, EveryoneIsServed |
| `Commands_all` (MCCommands_all) | *import*: PhotosImport, 3 photos, 2 names, 2 contents, 2 jobs, 2 imports, 4 cases | ExportsAreSound, CommandsEnd |
| | *takeout*: Takeout, 2 files and a document of one name, 2 revisions, 1 failure, 1 act of the user | ExportsAreSound, UserFilesAreKept |
| | *backup*: ComputerSync, 1 name, 3 changes on either side, 3 seconds of the server and local mtimes of 0 to 3, 1 failure | BackupIsSound, CommandsEnd |
| `Drive_all` (MCDrive_all) | *nodes*: DriveNodes, 3 nodes in 2 trees, 2 names, 2 tasks, 2 operations, answers that get lost, 1 change by others, 3 modes (those with overlap or others only in the first tree) | NodesAreSound, MovesKeepNames |
| | *share*: Sharing, 2 people, 2 shares, 2 calls (1 with other devices), one at a time, 3 modes | SharingIsSound, NobodyIsDropped |
| | *library*: PhotoLibrary, 4 photos, 2 calls, 2 changes by others, 3 libraries | PhotosAreKept |
| | *dedupe*: PhotoDedupe, 3 copies and a photo without a hash, 2 libraries, 2 runs, batches of 1, pages of 2 | PhotosAreKept |
| | *desktop*: DesktopApp, 3 commands on their way, 2 to 5 clicks, 2 accounts, 7 modes | DesktopIsSound |
| `Parts_all` (MCParts_all) | *locks*: FuseLocks, 3 threads, 2 handles, 3 requests of any kind | LocksAreSound |
| | *opens*: FileCache, 2 opens of a file of 2 blocks, 1 upload, 1 cancel, 1 run of the command, 5 kinds of programs, 6 modes | OpensAreSound |
| | *socket*: DaemonSocket, 2 daemons, 4 commands of 1 terminal or 3 of 2, 4 modes; *account*: AccountCaches, 2 addresses, room for 3 secrets, 4 modes; *stores*: CacheRepositories, 2 tasks, 2 keys, 2 tags, 9 modes; *login*: SessionLogin, 2 terminals, 2 users, 2 sessions, 3 modes | SessionIsSound |
| | *retry*: BlockRetry, 2 blocks, 1 permit; *feed*: EventFeed, 3 events, pages of 2, 1 fault; *listing*: NodeListing, 5 nodes, pages of 2, batches of 3, 2 thumbnails at a time, 1 failed request, 1 part that cannot be read, 1 change by others (with all, or but a key or a thumbnail, readable); *docs*: DocsSync, 1 writer and 1 editor, 4 pieces | AnswersAreSound |
| | *computers*: ComputerJobs, 2 terminals, 2 folders, 2 devices, 4 modes; *batch*: BatchProgress, 1 to 3 files of up to 2 blocks, 2 attempts, 5 modes | JobsAreSound |
| `FuseLocks_deadlock` (FuseLocks, FuseLocks_deadlock.cfg) | 3 threads | **violation** of NoDeadlock |
| `FileSync_freed` (FileSync, FileSync_freed.cfg) | requests overlap uploads | **violation** of FreesOnlyStored |
| `ComputerSync_stale` (ComputerSync, ComputerSync_stale.cfg) | a pass and another client | **violation** of OverwrittenIsPreserved |

The invariants named `...IsSound` or `...AreSound` are conjunctions of named parts,
each with its comment in its module, and mostly of the module's type invariant:

- FuseLocks: KernelHandlesAreOpen, DeadlockNeedsFreeUp.  JournalQueue (AttemptsAreSound):
  RetryBudget.  FileSync (ContentsAreSound): RevisionIsReal, CleanIsStored,
  CopyIsOfItsRevision, NoEditIsLost.  NamespaceSync (TreeIsSound): NoOrphans,
  QuietMeansInSync.  DatabaseMigration: MigrationIsSafe, RootsAreSound.  FileCache
  (OpensAreSound): OpenedIsWhole, the size of the row, KeptIsThere, ThumbnailersWait,
  ListIsRunning, CancelsWhatWasMeant.
- StreamCache (CacheIsSound): CacheIsBounded, OneFetchPerBlock, WaitersAreAnswered.
  DownloadPipeline: OutputIsAPrefix, WaitsForABlock, NoBlockIsLost, FlightIsBounded.
  UploadPipeline: MemoryIsBounded, FailedWriteLeavesNoDraft, CommittedIsComplete,
  QuietAtCommit.  FlexibleSemaphore (PermitsAreSound): NoIdlePermit,
  OverdraftIsBounded; and Conservation.  EventScheduler (ScopesAreSound):
  OneForegroundScope, LastCommandIsCurrent.  TokenRefresh (TokensAreSound):
  QuietMeansStored, NotToldExpired.
- DaemonSocket: OneDaemon, CommandsHold, PauseHolds.  AccountCaches: WholeList,
  PrimaryIsPrimary, FailsForReason, KeysStayUsable.  CacheRepositories: ReadsAreCurrent,
  TagsAreRight, RoomIsKept, SecretsAreTracked.  SessionLogin: StoredHasKeys, ToldIsStored,
  OneCopy.  EventFeed: OnceInOrder, NothingIsSkipped.  NodeListing: NothingIsMissing,
  EachOnce, OwnFolder, FailsForReason, ReportsAreTrue, ThumbnailsAnswered.  DocsSync: OpenedIsWhole, LockIsGivenBack,
  WrittenHadSettled.  ComputerJobs: OneJobPerPath, JobsAreKept, OneComputer,
  NothingDangles.  BatchProgress: BarIsBounded, CountsAgree, StopsStarting, RateIsTrue.
- PhotosImport: SkippedIsStored, OwnNamesDoNotClash, NoNeedlessCopy.  Takeout:
  ManifestIsTrue, CompleteIsComplete.  ComputerSync: NothingIsLost.  DriveNodes:
  CacheFollows, NoFalseLoop, TrashIsListed.  Sharing: RevokedIsGone, SharedAsAsked,
  NoShareNoAccess.  PhotoLibrary: NothingIsLost, SavedIsWhole, DeletedIsGone.
  PhotoDedupe: OneCopyStays, ReportIsTrue.  DesktopApp: RowsAreItems, ViewIsWanted,
  BarIsOfSelected, ThumbnailsAreAskedFor, FolderIsWanted, FilesAreOfAccount,
  LinkIsOfTitle, NoSessionIsEnded.

QueueSettles is EntriesSettle and DirtyFilesAreQueued; EveryoneIsServed is
WaitersAreServed, PolledForever and RemovedTasksEnd.  Every property has a mutant of a
modelled definition that violates it under the same configuration.

### Bounds, and why they are enough

- *JournalQueue*: one file suffices for OneUploadPerFile, which compares entries
  of the same file, and a folder has the entries that starve beside its uploads; three entries and batches of two give a pass that leaves an
  entry for the next one, a group before another kind, and an entry revived
  beside a newer one.  The theorems of section 6 lift all bounds.
- *FuseLocks*: three threads are the shortest circle of three locks (database,
  table, file), and three requests one for each.  The requests the code has need two
  locks at a time at most but for write and free-up.  CirclesNeedFreeUp lifts all
  bounds.  Its liveness is checked with one handle.
- *StreamCache*: a cache smaller than the file makes evictions, and two readers
  with a read-ahead each give three users of one block.
- *FlexibleSemaphore*: the largest file exceeds the permits, so the count goes
  below zero with one or two waiters behind.
- *DownloadPipeline*: three blocks with two in flight let a block arrive before its
  predecessor is written while the last is not started; the second file waits for the
  permit the first may never use.  One block permit is the hardest case: left-over
  tasks of a failed download hold it.
- *UploadPipeline*: the stream may end early, on time or late, around an
  expected length of two; channel 1 and width 2 fill up.  Only one upload is paused.
- *FileSync*: two edits are an edit and a newer one, three revisions leave room
  for another client's on either side of them.  The modes without "concurrent" and
  "listing" were also explored with three edits and five revisions; the theorems of
  section 6 lift both bounds.
- *FileCache*: two blocks make a download that is half done; two opens overlap or follow
  each other.
- *NamespaceSync*: the server starts with a folder that holds one; three changes
  are, say, a folder, a move into it, and its removal.  Counters stop at MaxIno,
  MaxUid, MaxTries.
- *DatabaseMigration*: two processes, two entries (one before, one after the copy) and
  two kills: one in the migration, one in what repairs it.
- *PhotosImport*: two photos share a name and two a content, in all combinations
  with two jobs; a second import meets what the first one left.
- *Takeout*: two nodes compete for a name with each other and with one file of the
  user; one failure or crash, and a second run; six numbered names are never used up.
- *ComputerSync*: names do not interact but for the order of transfers; with three
  changes a file is written on both sides and once more during a pass.  Mtimes are
  older than, equal to and newer than a revision, and one is ahead of the server.
- *ComputerJobs*, *SessionLogin*, *DaemonSocket*: two actors, and as many commands as make
  one that undoes what another did; with overlap two commands, else three or four.
- *TokenRefresh*: two callers are the race on the cell; three generations two
  refreshes in a row, so that the second one meets the results of the first.
- *AccountCaches*: room for three secrets is less than the keys of two addresses and the
  passphrase.  *CacheRepositories*: room for one entry, so that each second one evicts.
- *BlockRetry*: one permit for two blocks; all five attempts.  *EventFeed*: a page and one
  more event.  *NodeListing*: a page and a batch that do not end together.  *DocsSync*: an
  update of one, two or more pieces.
- *DriveNodes*: two operations that overlap on a folder and its child.  *Sharing*: a member
  and somebody who is invited, with an operation that meets what the one before it left;
  its theorems are for any people and any operations side by side.
  *PhotoLibrary*: a photo with a related one and two others.  *PhotoDedupe*: two runs that
  see the timeline in different states; the theorem PhotosStay is for all libraries.  *DesktopApp*: a reply on its way while two newer
  requests were made.

### Fairness

Weak fairness stands for "threads, tasks and requests go on".  Requests of the
user, pauses, failures, crashes, timeouts and other clients are never assumed to
happen or not to, except as the properties say.

- *JournalQueue*: WF of the flush task, which wakes every 5 s.  QueueSettles
  assumes `Quiet`: from some time on the connection stays up
  and nothing crashes, panics or is revived; before that anything goes.  That entries
  settle assumes `NothingNew` besides: at last no request and no sweep queues another one.
  Without it entries that were tried once wait for ever (section 7).
- *FuseLocks*: some thread that can go on does (WF of the steps of all threads
  together).  `std::sync::Mutex` is not fair, but with finitely many requests this is
  enough.
- *StreamCache*: WF of readers and fetches: HTTP has timeouts.
- *FlexibleSemaphore*: WF of the loop in `release`; SF of `Release`, because
  another release may hold the mutex again and again, and a transfer ends.
- *EventScheduler*: WF of tasks and callbacks; SF of `Select`, since a command
  in the channel is ready when `select!` starts while the timer takes 30 s.
- *DownloadPipeline*, *UploadPipeline*: SF for permits, because Tokio's
  semaphores are first come, first served; WF of everything else.  A paused
  transfer is resumed some day.
- *TokenRefresh*: WF of callers and listeners; the server answers.
- *PhotosImport*: WF of the tasks, whose requests have timeouts.
- *ComputerSync*: WF of the passes, which start again every 30 s.  BackupSettles assumes
  `NoneAhead`: at last no local file is dated ahead of the server (section 7).
- All other modules: safety only, hence no fairness.

`CHECK_DEADLOCK FALSE` is set everywhere: the bounds on requests, edits and
entries end every behaviour, and liveness is stated where the system must go on.

## 5. Findings

1. *FuseLocks_deadlock.*  `free_up_space` (`fs.rs` 767-801) locks the open-file
   table and the open files while it holds the database; `write` (`fs.rs`
   1490-1536) takes the database while it holds the table and its file.  Setting
   "online-only" on one file while another is written can stop the mount.  The
   comment at `fs.rs` 31-32 says metadata requests keep flowing.
2. *FileSync_freed.*  The end of an upload clears the dirty flag (`fs.rs` 2652,
   2737) whether or not the file was written since it was read.  `free_up_space`
   then deletes the newer edit, though its comment (`fs.rs` 765-766) says files
   with unsynced changes are kept.
3. *ComputerSync_stale.*  A download takes its revision from the node cache
   (`proton-drive-sdk/src/client.rs` 1008), which hears of no other client.  A pass of a
   backup keeps the revision it had read before as the conflict copy and uploads over
   the newer one, though `docs/RELEASE.md` 40-41 says the overwritten side is preserved.

## 6. Proofs

`tlapm` checks eight modules with 25 theorems.  The assumptions are the named ASSUMEs on
constants (sizes are natural numbers, sets of clients are finite where that is used), and
each is evaluated by a run.  What a theorem says of a run's property it says for every
value of the constants; the run shows it on one instance and found the invariants below
to be true before they were proved.  None of the properties is inductive; each paragraph
names the strengthening and why it is needed.

**PartsProofs** (CirclesNeedFreeUp: LocksAreSound; OpensStay: OpensAreSound).  Of the
locks: what a thread holds follows from
the place it is at in its script (`LocksFollowScripts`).  All scripts but `free_up_space`
take the table before a file and a file before the database, and only `write` takes the
database under a file.  A circle of waits without either would need an order the other
way round, so none exists without both.

Of the opens, in the specification of the whole run: `OpensInv` has two layers.
`ListInv` and `SeenIsKnown`, in every mode: a transfer or upload that runs has the one entry of its id, and
whatever can be cancelled is an entry of the task that would be aborted; ids are handed
out once, so an entry the user saw is still of the same transfer, or gone.  `FilesAreWhole`
and `CommandIsTrue`, unless opens overlap or the daemon is killed: the file under the path
is whole, or gone with an event, but for the download that is underway, which has written as many blocks as its
entry says; the row has the path only when nothing is underway; and of what the command
was given, what is neither to come nor waited for was kept or counted.  OpensAreSound says
nothing of a download in the middle, and so is not inductive.  That a thumbnailer is told
from the rest, whatever the user's lists say (`ThumbnailersAreBlocked`), rests on the
assumption `ThumbnailersAreGiven`: no list knows the processes between the file and the
one that is told as a thumbnailer.  A helper that the user lists as allowed may open files
for a thumbnailer, too.

**JournalQueueProofs** (five theorems).  The invariant is `TypeOK`, the safety properties
and two facts they need: `Fresh`, ids not handed out have no row, so that an append
touches nothing that is loaded; and `OnePlace`, an entry is in one of batch, uploads and
running, so that the end of an attempt, which changes its row, takes it off the pass.
`LoadedIsCurrent` is not inductive without them, and `RetryBudget` and `OneUploadPerFile`
need `LoadedIsCurrent`: the limit is tested on the count that was loaded.  `RetryBudget`
is about attempts that end with a result; that the column of the table counts those
(`Counted`) makes it inductive.  Attempts that a panic or a crash cuts short are counted
nowhere, in the code as in the theorem.  `PassOrder`
rests on the lemma `FirstIsBeginning` about the first n elements of a set.  `AppliedOnce`
is an action property from the same invariant.

**MountSyncProofs** (ContentsStaySound, UploadsStayInOrder, DatabaseStaysSound).  Of the
file: `FileInv` has five layers.
`Real`, in every mode: no revision is known that the server lacks, and an upload has its
entry.  `OneByOne`, when requests and uploads come one at a time: the copy of the file is
under the path of the row's revision, or of its inode as long as there is none; an open
handle is on that copy, or on the one an upload has just moved; entry and upload are
about that copy and that revision; and no file is under the path of the next revision.
On it rest, each in the modes its property names, `Order` (what can be uploaded next is
no older than what the server has), `Kept` (the last edit is on the server, in the copy,
or in the data of the upload) and `Copies` (a clean copy is what the server has of its
revision).  `UploadsStayInOrder` is the step from one `Order` to the next.  With
"concurrent" or "listing" `Places` is false, which is what section 7 shows.

Of the database, in the specification of the whole run: RootsAreSound speaks of the tree and MigrationIsSafe
of what is at the path, and neither says who may change them next.  `DatabaseInv` adds it:
with the old database at the path only processes that look or migrate run, with the
encrypted one none that migrates but the one about to remove the log (`OneMigrates`); the
migrating process has a copy of its own, which has every committed entry and the tree when
it is renamed (`CopyIsWhole`); and each statement on the root rows leaves a tree from which
a daemon that starts over goes on, except that the node of My Files is nowhere after a kill
between its two UPDATEs, which `cutUid` remembers (`RootsMove`).  `FilesInUse` (a process
at a step that uses a file has one) and the types hold when processes overlap, too.

**ReadsProofs** (CacheStaysSound: CacheIsSound; DownloadsAreSound: DownloadIsSound), in the
specification of the whole run.  CacheIsSound lacks two facts: a
task that is for a reader has that reader waiting at its block (`TasksAreWaitedFor`), and
no block of a task is one whose task panicked (`LostAreNotFetched`), so that the end of a
task may take its block out of the set.
Of the download: each block that was started is awaited, at hand, buffered or written (`NoBlockIsLost`); while there are more to
start, as many are awaited as the width allows or one is at hand (`FlightIsFull`).  So a
loop that awaits nothing has started everything, and waits for no block nobody fetches.

**UploadPipelineProofs** (UploadsAreSound: UploadIsSound; CommitsStay: CommittedStays).  Of
the blocks the producer made the last are in its hand and in the channel, in order, and
the others are awaited or have a result, none in both (`BlocksAreAccountedFor`,
`ChannelIsInOrder`).  When the channel is closed and nothing is awaited, the results are
all that was made (`LoopEnds`): as many results as expected are the whole file.

**SdkPartsProofs** (five theorems).  `PermitsAreSound` is inductive with `QueueIsWaiters`:
only clients that wait, or dropped their wait, are queued, each once; `ServedInOrder`
follows step by step.  `Conservation` needs that the cap in `release` never bites, and
that is `Shares`: the permits of the holders are disjoint intervals of those that are out.
For the scheduler, `EInv` says that a scope has one open task, that a shared scope is in
the foreground alone, that what is in front is on the scheduler's list, and that the last command a task
was sent is the latest turn of its scope.  `NothingGetsLost` puts both together.

**TokenRefreshProofs** (two theorems).  `OneRefreshAtATime`, for any number of processes,
needs that every cell but the last has its value (`OnlyLastIsEmpty`): two callers that
fill would fill the last cell, and `get_or_init` lets one in.  That in turn needs what a
caller's locals mean (`CallsAreSound`).  `TokensAreSound` is proved for one process
(`OneProcess`, which the code means by its socket and section 7 shows to be needed): no
generation is newer than the server's (`PairsInv`), all who wait do so at the last cell
with the pair of the cell before it, and that pair is not the server's newest unless it is
expired; so who fills the cell fills in the newest pair and is still there to save it
(`InStep`).

**DriveProofs** (four theorems), in the specification of the whole run; the assumptions say
what a tree, a timeline, an album and the people are (`LinksAreGiven`, `PicturesAreGiven`,
`LibraryIsGiven`, `DedupeIsGiven`, `SharingIsGiven`).
`NamesAreKept` (MovesKeepNames): a request names the link its task has read, and the server
refuses it unless the node is still there (`CanPlace`); so the name or the folder that is
sent along is the one the node has.

`PhotosStay` (PhotosAreKept).  Of the copies (`DedupeInv`): a photo that is planned for the
trash, or there, was chosen by the user or has a copy of lower uid that is in the timeline
or in the trash; so the copy of lowest uid of each content, which exists because photos are
finitely many, is not in the trash unless the user put it there.  Neither the order of pages
nor what other runs removed meanwhile matters, which is why the plan may be stale.  Of the
album (`LibraryInv`): a deletion that has not ended does not say "ok", and what follows a
request to save is no part of a deletion (`CallIsWhole`); what is about to be sent with a
photo is in the library (`PayloadIsThere`), so that what is said to be saved is in the
timeline, but for what a transfer left out unread, and a deletion without force finds nothing that is in the album only.

`SharingStays` (SharingIsSound) and `NobodyElseIsDropped` (NobodyIsDropped), for any people
and any number of operations side by side.  The server keeps `NoShareNoAccess` by itself;
the rest is what an operation knows from four lists read at different times (`CallsKnow`).
A person nobody else touched since it began, who has access, is in the list that was read
for that kind of access, with the role listed; an invitation that is accepted in between
moves to a list that is read later, because members are read last, so nobody slips between
the lists (`UnshareKnows`).  `ShareKnows` says who has been dealt with and has what was
asked for.  Each step of an operation is one lemma, and `OthersKnow` is what a step of
somebody else leaves of an operation's knowledge: it touches whom it changes.

*Only model-checked.*  Liveness under fairness and ENABLED are out of the prover's reach:
QueueSettles, ReadsEnd, UploadsEnd, EveryCallReturns, EveryoneIsServed, CommandsEnd,
EveryRequestAnswered.  Also out of reach is induction over data; no theorem needs it, and
no module has RECURSIVE operators.  Not proved: TreeIsSound and DeletesOnlyEmpty,
which need that every folder leads to the root, an induction over the depth of the tree;
NodesAreSound, which is about trees of three levels (`Below` looks no further up).
DesktopIsSound, the four properties of Commands_all and SessionIsSound,
AnswersAreSound, JobsAreSound of Parts_all are conjunctions over many modules, each a proof
of its own that has not been written; some of their parts add up what sets and sequences
hold (BatchProgress, NodeListing), which is induction again.
## 7. Known disagreements

Claims that do not hold of the code, or hold only under the features the properties
name, and that no run checks.  To see a counterexample in the first table, add the
property to the configuration, or the feature to a mode and drop the premise of the
property.

### With a property or a feature in the module

| Module, property | With | Where | What happens |
| --- | --- | --- | --- |
| StreamCache, NoDoubleDownload | - | `fs.rs` 188, 213-240 | "readahead and reads do not download twice": a block arrives between the look into the cache and the look into the set, and is fetched again |
| EventScheduler, NeverCalledAgain | 2 slots | `event_scheduler.rs` 5-6, 140 | a scope added again during its callback is polled by a second task |
| EventScheduler, RemovedIsNotPolled | - | `event_scheduler.rs` 38-39, 146 | a task that is about to poll does not see that its scope was removed |
| DownloadPipeline, BufferIsBounded | blocks > limit + 2 | `node/download.rs` 22 | `MAX_BUFFERED_DOWNLOAD_BLOCKS` is not used: behind one slow block the buffer grows to the file |
| UploadPipeline, NoAbandonedDraft | - | `node/file/upload.rs` 204, `node/revision.rs` 732-760 | a commit refused for its size is not cleaned up |
| JournalQueue, EntriesSettle | `NothingNew` left out of its premise | `db.rs` 600-605; `fs.rs` 2328-2332, 882 | a batch is made of the rows with the fewest retries, and a dirty file whose upload fails for good is queued anew after each pass: as long as there is one, entries of other files that were tried once are never loaded again |
| JournalQueue, "tried at most RetryLimit + 1 times" with all attempts counted | `Panic`, `Crash` | `fs.rs` 2404-2410 | an attempt that a panic or a crash cuts short raises no `retry_count`, so such an entry is tried without limit |
| FileSync, NoEditIsLost | "events" | `fs.rs` 2261 | the echo of an upload removes a copy that is dirty again |
| FileSync, NoEditIsLost | "listing" | `db.rs` 521 | a listing with another revision cuts a dirty row off from its copy |
| FileSync, NoEditIsLost | "truncate" | `fs.rs` 1202 | truncating an online-only file marks it dirty with nothing to upload |
| FileSync, CopyIsOfItsRevision | "remote" | `fs.rs` 2715, 639-640 | the revision read back after an upload may be another client's; the own copy is stored under its name |
| FileSync, UploadsDoNotGoBack | "listing" | `db.rs` 521 | an old listing sets the revision of the row back |
| | "concurrent", 3 edits, 4 revisions | `fs.rs` 733-740, 2727-2740 | an open downloads a revision while the upload of the next one ends between its rename and its row: the row is set back to the older copy, and a later truncate or write uploads that on top of the newer edit |
| FileCache, OpenedIsWhole | "overlap", "kill" | `fs.rs` 697, 722-728 | a download goes straight into the final path: another open meanwhile, or the next one after a kill, is served the part that is there, and an edit of it uploads the truncated file; a second download truncates the file another open serves, a failing one removes it |
| FileCache, "kept files are there" | `RemoteUpdate` | `fs.rs` 2248-2264 | an event about a file removes its copy, also of one that is kept offline; nothing fetches it again until it is opened |
| FileCache, ListIsRunning | "panic" | `fs.rs` 2404 | an upload task that panics stays in the list of transfers |
| FileCache, CancelsWhatWasMeant | "kill" | `transfer.rs` | ids start at 0 with each daemon: a cancel by an id seen before a restart hits another transfer |
| TokenRefresh, UsableWhenIdle | "cancel" | `auth.rs` 83, 181; `fs.rs` 2151 | a call timed out between replacing and filling the cell leaves it empty: "Tokens not initialized" from then on |
| TokenRefresh, BroadcastIsNewer | "slow" | `auth.rs` 214-216 | two refreshes in a row are broadcast in the other order |
| TokenRefresh, NewestIsKept | 2 processes | `daemon.rs` 559 | a starting process saves the pair it loaded over a newer one |
| TokenRefresh, SignsOut | "revoke" | `auth.rs` 205, `daemon.rs` 572 | the signal is sent before the cell has its value; the listener finds an empty cell and does nothing |
| NamespaceSync, QuietMeansInSync | "early" | `fs.rs` 1936, 2765 | a move into a folder that is not created yet has no target and fails for good |
| | "slowcreate" | `fs.rs` 2552 | a listing makes a second row for a folder being created; storing its uid fails |
| | "slowlist" | `fs.rs` 1006, 2255 | an answer older than the rows brings back or removes children |
| | "movename" | `fs.rs` 2771, `node/operations.rs` 364 | move and rename are two calls; the second one fails on a taken name |
| | "failing" | `fs.rs` 2307-2323, `db.rs` 600-605 | an entry whose call fails once is passed over for those with fewer retries: a move out of a folder comes after the delete of that folder and fails for good; a lost answer of a create leaves a second row, or a name that is refused |
| | "offline" | `fs.rs` 2785, `node/operations.rs` 701 | the entry of a delete is done though the node's own result is an error |
| | "remote", "gone" | `fs.rs` 571, `db.rs` 512 | rows keep their old name and place when a listing knows them; nodes move out of listed folders |
| NamespaceSync, NoOrphans | "gone", "early", "remote"; "slowlist" with "impatient" | `fs.rs` 1073 | a listing inserts rows below a row that is gone |
| NamespaceSync, DeletesOnlyEmpty | "overwrite" | `fs.rs` 1912 | a rename onto a folder that was never listed takes it for empty |
| | "impatient" | `fs.rs` 1851-1854, 524 | rmdir goes on when the listing fails or takes too long |
| DatabaseMigration | "overlap" | `db.rs` 826-979 | two processes that migrate at once can rename an older copy over the other's database, remove its log or share the copy; a daemon of an older version keeps writing to the unlinked file |
| | "namesake" | `db.rs` | a folder of the user's named MyFiles or Computers in an old tree is taken for the row of the root |
| | a kill between the two UPDATEs | `db.rs` | no row has the node of My Files until the next online listing |
| AccountCaches, KeysStayUsable | "full" | `credentials.rs` 141, `client.rs` 184 | the secret cache is the only store of the passphrases of the user's keys: 5000 node keys evict them, and every call ends with "none could be unlocked" until a new sign-in |
| AccountCaches, WholeList | "concurrent", "full", "kill" | `account.rs` 58, `api/cache.rs` 118-133 | a list that was read half stored, whose storing was killed, or of which entries were evicted, is taken for whole for ever |
| CacheRepositories, RoomIsKept | "parallel", "shared" | `cache/sqlite.rs` 78-102 | two processes that find room for one more both insert: there are more entries than `max_cache_size` until another key is set |
| CacheRepositories | "shared", "kill" | `cache.rs` 46, `cache/sqlite.rs` | a set next to a removal leaves a stale index of tags; two processes that set one key mix their tags, a kill leaves an entry without them |
| | "rotate" | `cache/encrypted.rs` 45-47 | the comment says a failed decryption clears the cache; an entry just reads as none |
| SessionLogin | "overlap", "kill", "appear" | `credentials.rs` 204 | two first commands each make a master key; a restore during `logout` saves the credentials again, and a kill between the keyring and the file leaves one of the two; a master key made without the keyring is dropped when the keyring is back |
| DaemonSocket | "slow", "crash", "overlap" | `daemon.rs` 214, 271 | see below |
| DriveNodes, CacheFollows | "overlap", "others" | `node/mod.rs`, `node/operations.rs` | a get that overlaps a move leaves a stale entry for ever; a move and a rename of one node leave a stale name |
| | `unheard` left out of its premise | `node/operations.rs` 463-467, 637-641 | a move or rename that the server did and whose answer is lost returns before the cache is written: the old place stays until the node is read again |
| PhotoLibrary, SavedIsWhole | `unread` left out | `photo.rs` 1237-1248 | of the answer to a transfer only the item of the main photo is read: a related photo that was refused is not told of, and a photo the answer leaves out counts as saved |
| Sharing | "others", "kept" | `sharing.rs` 787 | see below |
| ComputerJobs | "overlap", "kill" | `computers.rs` 94 | commands at once lose each other's jobs; one fixed temporary file may be left unparsable, which then reads as empty; a failed or killed `remove` leaves jobs of a deleted device |
| PhotosImport, OwnNamesDoNotClash | a file named as a numbered name, "n (1).jpg" | `photos.rs` 822, 866 | the lock is on the file's name, not on the available one: two imports may pick the same |
| ComputerSync, one transfer per change | - | `node/mod.rs` 1404-1410; `computers.rs` 628-632, 754-774 | the mtime of a remote file is the time the server made its revision, so a file is newer there after its upload: the next pass makes a conflict copy of it and downloads it, maybe in a revision before the one it uploaded (`client.rs` 1007); "Both sides changed" (654, 659) describes a file that only was uploaded |
| ComputerSync, BackupSettles | `NoneAhead` left out of its premise | `computers.rs` 754-774 | a file dated ahead of the server's clock is uploaded again every 30 s |
| ComputerSync, NothingIsLost | `late` left out | `docs/RELEASE.md` 41; `computers.rs` 785-803, `client.rs` 1019 | "preserves the overwritten side": a file the user creates between the plan and its download, or edits after its conflict copy was made, is emptied without a copy |
| ComputerSync, Settled with equal contents | equal mtimes | `docs/notes.md` 16; `computers.rs` 754-774 | "versions that differ create conflict copies": files written in the same second are taken for equal |
| ComputerSync, no half file on the server | 1 failure | `client.rs` 1019, `computers.rs` 754 | a download that fails leaves a short file that is newer than the remote one; the next pass uploads it (the remote content stays as a conflict copy) |
| Takeout, whole files | `direct` | `takeout.rs` 391-397 | an export of photos that is killed leaves a short file under its name, which the next run passes over |

`docs/RELEASE.md` 42-43 and `docs/notes.md` 19-20 also say that a takeout leaves out
photos and computers; `takeout.rs` 71-93 exports them.

### Met while modelling

- *Sharing.*  `share_node` on an unshared node leaves "no share" in the cache:
  `share` ends with "sharing info missing after share_node" (`sharing.rs` 711-713)
  although invitations were sent, and a later `share revoke` (721-723) says "member
  access removed" though access remains.  With other devices, an invitation between the
  last lists and the forced deletion is dropped.
- *Listings.*  Pages of the trash are numbered, so a restore by another client skips or
  doubles items.  A node moved between its page and its details, or one that cannot be
  decrypted, fails the whole listing; a share whose key cannot be had is skipped with a
  warning.  Authors are always the claimed address: a failed verification is dropped
  (`node/mod.rs` 1179-1184).
- *Daemon.*  One that restores answers nothing for longer than the 500 ms a client waits,
  so another start removes its socket and runs a second daemon (`daemon.rs` 214).  Two starts
  at once both find no socket and both run (191-220).  When the
  first ends it removes the second one's socket and mount.  `stop` and `logout` return
  early meanwhile.  Pausing checks and then toggles
  (105-112), so two pauses leave it running, and a
  toggle that timed out happens later.  A client that sends nothing blocks the loop (271).
- *Sign-in.*  `end_from_session` and `refresh_scopes` (`session.rs` 494-499, 565-574) build
  a client without tokens; `logout` does not end the session at the server.  A keyring that
  cannot be reached keeps its credentials at sign-out, and its old tokens win when it is
  back.  A refresh during `get_user` stores the pair from before it.  Passphrases are logged
  at debug level (`account.rs` 220).  Caches are not cleared at sign-out: the
  passphrases of the keys and the master key stay.
- *Photos.*  Several calls of `api/file/photos.rs` (872-990) ignore the HTTP status.  A
  photo whose related photo is in the timeline already cannot be saved.  `photos dedupe`
  says "Stop after an uncertain batch" (`photos.rs` 465), but `NodeOperations::trash` turns
  a failed request into errors of photos and the loop goes on.  Two downloads with one stem
  share a partial file (1139-1165).
- *Downloads of blocks.*  Errors of `get_blob_stream` are of another type than the one
  that is looked for (`block/download.rs` 101), so connection errors are not retried; a
  refresh in the fifth attempt is wasted; an error after throttling never emits
  "unthrottled".  Callbacks of `SdkEvents::emit` run under its mutex, so one that subscribes
  deadlocks.
- *Events.*  `subscribe_to_drive_events` ignores `refresh` and `more`; a subscription that
  is dropped and not disposed keeps polling, without a pause.
- *Docs.*  A failing `get_meta` counts as a document without commits; a write replaces what
  is there without reading it; a lock whose answer was lost stays; an update with missing
  chunks is left out of an export silently.
- *Desktop app.*  Replies of `status` carry no number, so a late one from before a new
  sign-in signs it out (`pdcli-gui.rs` 3272-3280 against the comment there); an action's end
  reloads the trail that was shown and drops a navigation on its way (3599-3616); photos and
  albums of the old account stay until the next account's first page.
- *Backups.*  Two local folders with one base name share a remote folder, and two computers
  with one hostname a device; `unsync NAME` removes every job of that name.
- *Progress.*  `UploadProgress::report` reads the shares and then what is done: a block that
  lands in between is counted twice (capped), and reports may be delivered out of order.

## 8. Not modelled, and why

Ignore rules (matching strings); the search
index (the file holds an interface, no engine is part of the repository); cryptography
but for which key a node is read with (calls of a PGP library, nothing a model of states
could check); API types and HTTP (data types, one request at a time); conversion of
documents (formatting); sign-in by password (SRP is one exchange); bookmarks, passwords
and terms of public links, versions, single commands (each one request and one answer that keep no state);
widgets and the tray; diagnostics, server time and telemetry but for the reports of nodes
that cannot be decrypted (counters).
Of the modelled parts, `PROJECT.json` says in each component's note what is left out.
