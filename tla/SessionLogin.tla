---------------------------- MODULE SessionLogin ----------------------------
(***************************************************************************)
(* Signing in and out (proton-sdk-rs2/src/session.rs, pdcli/src/auth.rs,    *)
(* main.rs) and where a session is kept (pdcli/src/credentials.rs): its     *)
(* credentials and the master key of the secret cache in the keyring of the *)
(* system, or in files when the keyring cannot be reached; the passphrases  *)
(* of the user's keys in the secret cache.  Keyring and file are read and   *)
(* written one after the other, and whatever else happens comes between.    *)
(* Sign-in is in the browser: the command asks for a fork, and polls until  *)
(* the user has approved it.                                               *)
(*                                                                         *)
(* How tokens are refreshed is the subject of TokenRefresh, what the secret *)
(* cache does with its entries that of CacheRepositories, the daemon that   *)
(* logout stops first that of DaemonSocket.                                *)
(*                                                                         *)
(* features says what happens besides: commands run at once ("overlap"),    *)
(* are killed ("kill"), a keyring appears where there was none ("appear"),  *)
(* sessions are ended or tokens expire elsewhere ("expire").  A keyring     *)
(* that goes away again hides what it has, which this is not about.         *)
(***************************************************************************)
EXTENDS Integers, FiniteSets

CONSTANTS Terminals, Users, UserKeys,
          MaxSessions,   \* bound: sessions the server ever makes
          MaxFaults,     \* bound: requests that fail
          MaxEnds,       \* bound: sessions that are ended elsewhere
          MaxRuns        \* bound: commands, for each of the sets of features a behaviour may have

VARIABLES
  features,
  up,          \* the keyring can be reached
  keyring,     \* the credentials and the master key in the keyring
  file,        \* cred.ron and cache.key
  masters,     \* number of master keys that were made
  secrets,     \* whose passphrases are in the secret cache, under which master key
  server,      \* the newest token pair of each session, 0 when it has ended
  fork,        \* of each terminal, the session its fork was approved for
  command,     \* what each terminal runs
  told,        \* history: what the user was told last, and of whom, unless a command is at it
  faults, ends, runs

vars == <<features, up, keyring, file, masters, secrets, server, fork, command, told, faults, ends, runs>>

NoCred == [session |-> 0, user |-> "none", pair |-> 0]
Partial == [NoCred EXCEPT !.user = "partial"]
Half == -1    \* a key file that is half written
NoCommand == [pc |-> "idle", then |-> "idle", does |-> "none", cred |-> NoCred, got |-> NoCred,
              master |-> 0, left |-> {}]
Sessions == 1..MaxSessions
Ended == 9    \* no pair is good any more
Made == {s \in Sessions : server[s] # 0}

Init ==
  /\ features \in DOMAIN MaxRuns /\ up \in BOOLEAN
  /\ keyring = [cred |-> NoCred, key |-> 0] /\ file = [cred |-> NoCred, key |-> 0] /\ masters = 0
  /\ secrets = {} /\ server = [s \in Sessions |-> 0] /\ fork = [t \in Terminals |-> NoCred]
  /\ command = [t \in Terminals |-> NoCommand] /\ told = [what |-> "nothing", user |-> "none"]
  /\ faults = 0 /\ ends = 0 /\ runs = 0

-----------------------------------------------------------------------------
Does(t, r) == command' = [command EXCEPT ![t] = r]
Goes(t, pc) == command' = [command EXCEPT ![t].pc = pc]
Returns(t) == Goes(t, command[t].then)
At(t, pc) == command[t].pc = pc /\ UNCHANGED <<features, up, ends, runs>>
Cred(t) == command[t].cred
Quiet == \A t \in Terminals : command[t].pc = "idle"
Store == <<keyring, file, masters>>
Session == <<masters, secrets, server, fork, faults>>

(* The credentials: load, save, remove *)

\* what the keyring has, or else the file, if it can be parsed
ReadKeyring(t) ==
  /\ At(t, "load") /\ UNCHANGED <<keyring, file, told, Session>>
  /\ IF up /\ keyring.cred # NoCred
     THEN command' = [command EXCEPT ![t].got = keyring.cred, ![t].pc = command[t].then]
     ELSE Goes(t, "read")
ReadFile(t) ==
  /\ At(t, "read") /\ UNCHANGED <<keyring, file, told, Session>>
  /\ IF file.cred \in {NoCred, Partial}
     THEN command' = [command EXCEPT ![t].got = NoCred, ![t].pc = command[t].then]
     ELSE command' = [command EXCEPT ![t].got = file.cred, ![t].pc = "migrate"]
\* credentials that were in the file move to the keyring
Migrate(t) ==
  /\ At(t, "migrate") /\ UNCHANGED <<file, told, Session>>
  /\ IF up THEN keyring' = [keyring EXCEPT !.cred = command[t].got] /\ Goes(t, "unfile")
     ELSE UNCHANGED keyring /\ Returns(t)
\* a keyring that cannot be reached: the file is emptied and written
Save(t) ==
  /\ At(t, "save") /\ UNCHANGED <<told, Session>>
  /\ IF up THEN keyring' = [keyring EXCEPT !.cred = Cred(t)] /\ UNCHANGED file /\ Goes(t, "unfile")
     ELSE file' = [file EXCEPT !.cred = Partial] /\ UNCHANGED keyring /\ Goes(t, "write")
WriteFile(t) ==
  /\ At(t, "write") /\ file' = [file EXCEPT !.cred = Cred(t)] /\ Returns(t)
  /\ UNCHANGED <<keyring, told, Session>>
Nothing == [what |-> "nothing", user |-> "none"]
\* Mutant: when the keyring cannot be reached, the file stays.
MutRemoveCred(t) ==
  /\ At(t, "remove") /\ told' = Nothing /\ UNCHANGED <<file, Session>>
  /\ IF up THEN keyring' = [keyring EXCEPT !.cred = NoCred] /\ Goes(t, "unfile")
     ELSE UNCHANGED keyring /\ Returns(t)
\* a keyring that cannot be reached keeps what it has, and nobody is told
RemoveCred(t) ==
  /\ At(t, "remove") /\ told' = Nothing /\ UNCHANGED <<file, Session>>
  /\ keyring' = IF up THEN [keyring EXCEPT !.cred = NoCred] ELSE keyring
  /\ Goes(t, "unfile")
RemoveFile(t) ==
  /\ At(t, "unfile") /\ file' = [file EXCEPT !.cred = NoCred] /\ Returns(t)
  /\ UNCHANGED <<keyring, told, Session>>

(* The master key: cache_master_key *)

Opened(t) == Goes(t, IF command[t].does = "login" THEN "fork" ELSE "probe")
KeyLeft(t) == UNCHANGED <<told, secrets, server, fork, faults>>
ReadKey(t) ==
  /\ At(t, "open") /\ KeyLeft(t) /\ UNCHANGED Store
  /\ IF up /\ keyring.key # 0
     THEN command' = [command EXCEPT ![t].master = keyring.key, ![t].pc = "unkeyfile"]
     ELSE Goes(t, "keyfile")
\* Without one that can be read, a new key is made.
ReadKeyFile(t) ==
  /\ At(t, "keyfile") /\ KeyLeft(t) /\ UNCHANGED <<keyring, file>>
  /\ IF file.key \notin {0, Half}
     THEN command' = [command EXCEPT ![t].master = file.key, ![t].pc = "movekey"] /\ UNCHANGED masters
     ELSE /\ masters' = masters + 1
          /\ command' = [command EXCEPT ![t].master = masters + 1, ![t].pc = "newkey"]
MoveKey(t) ==
  /\ At(t, "movekey") /\ KeyLeft(t) /\ UNCHANGED <<file, masters>>
  /\ IF up THEN keyring' = [keyring EXCEPT !.key = command[t].master] /\ Goes(t, "unkeyfile")
     ELSE UNCHANGED keyring /\ Opened(t)
KeepNew(t) ==
  /\ At(t, "newkey") /\ KeyLeft(t) /\ UNCHANGED masters
  /\ IF up THEN keyring' = [keyring EXCEPT !.key = command[t].master] /\ UNCHANGED file /\ Opened(t)
     ELSE file' = [file EXCEPT !.key = Half] /\ UNCHANGED keyring /\ Goes(t, "writekey")
WriteKey(t) ==
  /\ At(t, "writekey") /\ KeyLeft(t) /\ UNCHANGED <<keyring, masters>>
  /\ file' = [file EXCEPT !.key = command[t].master] /\ Opened(t)
RemoveKeyFile(t) ==
  /\ At(t, "unkeyfile") /\ KeyLeft(t) /\ UNCHANGED <<keyring, masters>>
  /\ file' = [file EXCEPT !.key = 0] /\ Opened(t)

-----------------------------------------------------------------------------
\* pdcli login, mount and the window's "Sign in"; logout; any other command
Begin(t) ==
  /\ command[t].pc = "idle" /\ runs < MaxRuns[features] /\ runs' = runs + 1
  /\ "overlap" \in features \/ Quiet
  /\ \/ \E does \in {"login", "use"} : Does(t, [NoCommand EXCEPT !.pc = "load", !.then = "check", !.does = does])
     \/ Does(t, [NoCommand EXCEPT !.pc = "remove", !.then = "out", !.does = "logout"])
  /\ UNCHANGED <<features, up, Store, secrets, server, fork, told, faults, ends>>
\* login does nothing when there are credentials, the others nothing without them.
Check(t) ==
  /\ At(t, "check")
  /\ LET goes == (command[t].does = "login") <=> (command[t].got = NoCred)
     IN  Does(t, IF goes THEN [command[t] EXCEPT !.pc = "open", !.cred = command[t].got] ELSE NoCommand)
  /\ UNCHANGED <<keyring, file, told, Session>>
\* The command ends, and the user is told.
Tell(t) ==
  /\ command[t].pc \in {"in", "out", "done"} /\ At(t, command[t].pc) /\ Does(t, NoCommand)
  /\ told' = CASE command[t].pc = "in" -> [what |-> "in", user |-> Cred(t).user]
               [] command[t].pc = "out" -> [what |-> "out", user |-> "none"]
               [] OTHER -> told
  /\ UNCHANGED <<keyring, file, Session>>

\* Any request of a sign-in that fails ends it, and so does one of a poll; and ten minutes.
Fail(t) ==
  /\ command[t].pc \in {"fork", "poll", "user", "probe"} /\ faults < MaxFaults /\ faults' = faults + 1
  /\ Does(t, NoCommand) /\ UNCHANGED <<features, up, ends, runs, Store, secrets, server, fork, told>>

-----------------------------------------------------------------------------
(* begin_via_web, login_cli *)

InitFork(t) ==
  /\ At(t, "fork") /\ Goes(t, "poll") /\ fork' = [fork EXCEPT ![t] = NoCred]
  /\ UNCHANGED <<Store, secrets, server, told, faults>>
\* In the browser, which may be signed in as anybody.
Approve(t) ==
  /\ At(t, "poll") /\ fork[t] = NoCred
  /\ \E s \in Sessions, u \in Users :
       /\ s = Cardinality(Made) + 1
       /\ fork' = [fork EXCEPT ![t] = [session |-> s, user |-> u, pair |-> 1]]
       /\ server' = [server EXCEPT ![s] = 1]
  /\ UNCHANGED <<Store, secrets, command, told, faults>>
Poll(t) ==
  /\ At(t, "poll") /\ fork[t] # NoCred
  /\ Does(t, [command[t] EXCEPT !.pc = "user", !.cred = fork[t]])
  /\ UNCHANGED <<Store, secrets, server, fork, told, faults>>
\* get_user names the keys; a token that was refreshed for it is not the one that is kept.
GetUser(t) ==
  /\ At(t, "user") /\ Does(t, [command[t] EXCEPT !.pc = "keys", !.left = UserKeys])
  /\ \/ UNCHANGED server
     \/ "expire" \in features /\ server[Cred(t).session] = 1 /\ server' = [server EXCEPT ![Cred(t).session] = 2]
  /\ UNCHANGED <<Store, secrets, fork, told, faults>>
Secret(u, k, master) == [user |-> u, key |-> k, master |-> master]
\* Mutant: only the first key gets its passphrase.
MutStoreKeys(t) ==
  /\ At(t, "keys") /\ UNCHANGED <<Store, server, fork, told, faults>>
  /\ \E k \in command[t].left : /\ secrets' = secrets \cup {Secret(Cred(t).user, k, command[t].master)}
                                /\ Does(t, [command[t] EXCEPT !.left = {}, !.pc = "persist"])
StoreKeys(t) ==
  /\ At(t, "keys") /\ UNCHANGED <<Store, server, fork, told, faults>>
  /\ \/ /\ command[t].left = {} /\ Goes(t, "persist") /\ UNCHANGED secrets
     \/ \E k \in command[t].left :
          /\ secrets' = secrets \cup {Secret(Cred(t).user, k, command[t].master)}
          /\ Does(t, [command[t] EXCEPT !.left = @ \ {k}])
Persist(t) ==
  /\ At(t, "persist") /\ command' = [command EXCEPT ![t].pc = "save", ![t].then = "in"]
  /\ told' = Nothing /\ UNCHANGED <<keyring, file, Session>>

-----------------------------------------------------------------------------
(* restore_session: the pair is tried, refreshed if it has to be, and saved again; one
   that is rejected is forgotten if it is still the stored one. *)
Probe(t) ==
  /\ At(t, "probe") /\ UNCHANGED <<keyring, file, told, masters, secrets, fork, faults>>
  /\ LET pair == server[Cred(t).session] IN
     IF pair = Cred(t).pair
     THEN \E refreshes \in {FALSE} \cup (IF "expire" \in features /\ pair < 3 THEN {TRUE} ELSE {}) :
            LET now == IF refreshes THEN pair + 1 ELSE pair
            IN  /\ server' = [server EXCEPT ![Cred(t).session] = now]
                /\ Does(t, [command[t] EXCEPT !.pc = "save", !.then = "done", !.cred.pair = now])
     ELSE Does(t, [command[t] EXCEPT !.pc = "load", !.then = "forget"]) /\ UNCHANGED server
Forget(t) ==
  /\ At(t, "forget") /\ UNCHANGED <<keyring, file, told, Session>>
  /\ Does(t, IF command[t].got = Cred(t) THEN [command[t] EXCEPT !.pc = "remove", !.then = "out"] ELSE NoCommand)

-----------------------------------------------------------------------------
Kill(t) ==
  /\ "kill" \in features /\ command[t].pc # "idle" /\ Does(t, NoCommand)
  /\ UNCHANGED <<features, up, Store, secrets, server, fork, told, faults, ends, runs>>
Appear == /\ "appear" \in features /\ ~up /\ up' = TRUE
          /\ UNCHANGED <<features, Store, secrets, server, fork, command, told, faults, ends, runs>>
\* The user ends a session on the website.
EndSession ==
  /\ "expire" \in features /\ ends < MaxEnds /\ ends' = ends + 1
  /\ \E s \in Made : server' = [server EXCEPT ![s] = Ended]
  /\ UNCHANGED <<features, up, Store, secrets, fork, command, told, faults, runs>>

Next ==
  \/ \E t \in Terminals :
       \/ Begin(t) \/ Check(t) \/ Tell(t) \/ Fail(t) \/ InitFork(t) \/ Approve(t) \/ Poll(t)
       \/ GetUser(t) \/ StoreKeys(t) \/ Persist(t) \/ Probe(t) \/ Forget(t) \/ Kill(t)
       \/ ReadKeyring(t) \/ ReadFile(t) \/ Migrate(t) \/ Save(t) \/ WriteFile(t) \/ RemoveCred(t) \/ RemoveFile(t)
       \/ ReadKey(t) \/ ReadKeyFile(t) \/ MoveKey(t) \/ KeepNew(t) \/ WriteKey(t) \/ RemoveKeyFile(t)
  \/ Appear \/ EndSession
Spec == Init /\ [][Next]_vars

-----------------------------------------------------------------------------
\* What a command would find now.
Stored == IF up /\ keyring.cred # NoCred THEN keyring.cred
          ELSE IF file.cred = Partial THEN NoCred ELSE file.cred
Master == IF up /\ keyring.key # 0 THEN keyring.key ELSE file.key

(* Credentials that are stored are of a user whose keys can all be opened: whatever is
   killed, fails, runs at once, and also when a keyring appears, between any two steps;
   unless two commands make the master key at once. *)
StoredHasKeys == Stored # NoCred /\ ("overlap" \notin features \/ masters <= 1) =>
                   \A k \in UserKeys : Secret(Stored.user, k, Master) \in secrets

(* Unless commands overlap, who was told to be signed in is, with the session of that user,
   but for a file that was half written; and who was told to be signed out has no
   credentials left.  (What opens the keys of the user stays: the passphrases and the
   master key.) *)
ToldIsStored == Quiet /\ "overlap" \notin features =>
  /\ told.what = "in" => Stored.user = told.user \/ file.cred = Partial
  /\ told.what = "out" => keyring.cred = NoCred /\ file.cred = NoCred

(* Unless commands overlap, there is one copy of the credentials and one of the master
   key, where they are looked for; a command that is killed between keyring and file leaves
   a second one, of the same session and no newer, or the same key. *)
OneCopy == "overlap" \notin features =>
  /\ (Quiet /\ "kill" \notin features) =>
       NoCred \in {keyring.cred, file.cred} /\ 0 \in {keyring.key, file.key}
  /\ (keyring.cred # NoCred /\ file.cred \notin {NoCred, Partial}) =>
       keyring.cred.session = file.cred.session /\ keyring.cred.pair >= file.cred.pair
  /\ (keyring.key # 0 /\ file.key \notin {0, Half}) => keyring.key = file.key

(* Safety *)
LoginIsSound == StoredHasKeys /\ ToldIsStored /\ OneCopy
=============================================================================
