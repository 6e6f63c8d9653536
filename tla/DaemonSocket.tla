---------------------------- MODULE DaemonSocket ----------------------------
(***************************************************************************)
(* The daemon of pdcli and the commands that start it, stop it and talk to *)
(* it over its socket (crates/pdcli/src/daemon.rs, main.rs).               *)
(*                                                                         *)
(* The daemon takes the path of the socket before it restores the session  *)
(* and mounts the drive, and accepts nothing until then.  Later it serves  *)
(* one connection at a time, in order.  Who asks waits half a second, and  *)
(* takes silence for "not running"; the daemon does what was asked then,   *)
(* too, when its turn comes.  A daemon that is still starting is silent,   *)
(* and nothing but such an answer keeps two of them from starting.         *)
(***************************************************************************)
EXTENDS Naturals, Sequences, SequencesExt

CONSTANTS Daemons,   \* processes that may be daemons, one after the other or at once
          Users,     \* the command lines of the user, with one command each
          MaxOps,    \* bound: commands of the user, by mode
          Modes      \* what may happen: sets of the features below

\* "crash": a daemon is killed.  "slow": a daemon that serves, or that stops, takes
\* longer to answer than the client waits.  No start takes half a minute, which is
\* when ensure_running gives up.  "overlap": more than one command runs at once.
Features == {"crash", "slow", "overlap"}
Nobody == "nobody"
Actors == Daemons \cup Users

VARIABLES
  features,  \* the mode of the behaviour
  stored,    \* there are credentials in the keyring
  path,      \* the daemon that made the socket at the path, dead or alive
  mounts,    \* the daemons of what is mounted at the mountpoint, the topmost last
  daemon,    \* the state of each process, and the connections to its socket
  req,       \* the request each actor is making
  cmd,       \* the command of each command line, and the process it started
  last,      \* history: the last command that was done, and who answered it
  crossed,   \* history: what ran at once: two daemons (one "starts" next to another), a
             \* command that starts one and one that may "stop" it, two that "toggle"
  ops        \* number of commands

vars == <<features, stored, path, mounts, daemon, req, cmd, last, crossed, ops>>

NoRequest == [pc |-> "idle", line |-> "none", reply |-> "none", by |-> Nobody]
NoDaemon == [pc |-> "off", paused |-> FALSE, queue |-> <<>>]
NoCommand == [op |-> "none", pc |-> "idle", child |-> Nobody]
NoResult == [op |-> "none", by |-> Nobody]

Init ==
  /\ features \in Modes
  /\ stored = TRUE
  /\ path = Nobody /\ mounts = <<>>
  /\ daemon = [d \in Daemons |-> NoDaemon]
  /\ req = [a \in Actors |-> NoRequest]
  /\ cmd = [u \in Users |-> NoCommand] /\ last = NoResult /\ crossed = {} /\ ops = 0

\* It has bound its socket, and has not ended.
Bound(d) == daemon[d].pc \in {"restore", "save", "unmount", "mount", "serve", "drop", "remove"}
Goto(d, pc) == daemon' = [daemon EXCEPT ![d].pc = pc]
Idle == \A u \in Users : cmd[u].pc = "idle"

Commands == <<cmd, last, crossed, ops>>

-----------------------------------------------------------------------------
(* request: one line, one answer *)

Ask(a, line) == req' = [req EXCEPT ![a] = [NoRequest EXCEPT !.pc = "connect", !.line = line]]
Answered(a) == req[a].pc = "done"
Answer(a, reply, by) == [req[a] EXCEPT !.pc = "done", !.reply = reply, !.by = by]

\* The line of who has gone is still read.
Connect(a) ==
  /\ req[a].pc = "connect"
  /\ IF path # Nobody /\ path \in Daemons /\ Bound(path)
     THEN /\ daemon' = [daemon EXCEPT ![path].queue = Append(@, [by |-> a, line |-> req[a].line])]
          \* request_quit does not wait for the answer
          /\ req' = [req EXCEPT ![a] = IF req[a].line = "quit" THEN Answer(a, "ok", path)
                                       ELSE [req[a] EXCEPT !.pc = "wait", !.by = path]]
     ELSE req' = [req EXCEPT ![a] = Answer(a, "error", Nobody)] /\ UNCHANGED daemon
  /\ UNCHANGED <<features, stored, path, mounts, Commands>>

\* The answer does not come in half a second.  A daemon that serves, or that stops,
\* is quicker, unless it is slow.  What nobody waits for, and changes nothing, is
\* left out of the queue.
TimesOut(a) ==
  LET d == req[a].by IN
  /\ req[a].pc = "wait"
  /\ "slow" \in features \/ daemon[d].pc \in {"restore", "save", "unmount", "mount"}
  /\ req' = [req EXCEPT ![a] = Answer(a, "error", Nobody)]
  /\ daemon' = [daemon EXCEPT ![d].queue = SelectSeq(
                  [i \in DOMAIN @ |-> IF @[i].by = a THEN [@[i] EXCEPT !.by = Nobody] ELSE @[i]],
                  LAMBDA c : c.by # Nobody \/ c.line = "toggle-pause")]
  /\ UNCHANGED <<features, stored, path, mounts, Commands>>

\* Whoever waits for a process that ends is told at once.
Hung(d) == [a \in Actors |-> IF req[a].pc = "wait" /\ req[a].by = d THEN Answer(a, "error", Nobody)
                             ELSE req[a]]

\* handle_client_command, for the next connection.
HandleClientCommand(d) ==
  LET c == Head(daemon[d].queue)
      paused == IF c.line = "toggle-pause" THEN ~daemon[d].paused ELSE daemon[d].paused
      reply == IF c.line = "ping" THEN "ok" ELSE IF paused THEN "paused" ELSE "online"
  IN  /\ daemon[d].pc = "serve" /\ daemon[d].queue # <<>>
      /\ daemon' = [daemon EXCEPT ![d] = [pc |-> IF c.line = "quit" THEN "drop" ELSE "serve",
                                          paused |-> paused, queue |-> Tail(@.queue)]]
      /\ req' = IF c.by = Nobody \/ c.line = "quit" THEN req
                ELSE [req EXCEPT ![c.by] = Answer(c.by, reply, d)]
      /\ UNCHANGED <<features, stored, path, mounts, Commands>>

-----------------------------------------------------------------------------
(* The daemon: run, restore_session, spawn_fuse_session *)

Ends(d) ==
  /\ daemon' = [daemon EXCEPT ![d] = NoDaemon]
  /\ req' = [Hung(d) EXCEPT ![d] = NoRequest]

\* Another one that answers makes it end.
Run(d) ==
  /\ daemon[d].pc = "check" /\ Answered(d)
  /\ IF req[d].reply = "ok" THEN Ends(d)
     ELSE Goto(d, "unlink") /\ req' = [req EXCEPT ![d] = NoRequest]
  /\ UNCHANGED <<features, stored, path, mounts, Commands>>

Unlink(d) ==
  /\ daemon[d].pc = "unlink" /\ Goto(d, "bind")
  /\ path' = Nobody
  /\ UNCHANGED <<features, stored, mounts, req, Commands>>

Bind(d) ==
  /\ daemon[d].pc = "bind"
  /\ IF path = Nobody THEN Goto(d, "restore") /\ path' = d /\ UNCHANGED req
     ELSE Ends(d) /\ UNCHANGED path
  /\ UNCHANGED <<features, stored, mounts, Commands>>

\* The credentials are read, and saved again when the session is authenticated.
RestoreSession(d) ==
  /\ daemon[d].pc = "restore"
  /\ IF stored THEN Goto(d, "save") /\ UNCHANGED req ELSE Ends(d)
  /\ UNCHANGED <<features, stored, path, mounts, Commands>>
SaveCredentials(d) ==
  /\ daemon[d].pc = "save" /\ Goto(d, "unmount")
  /\ stored' = TRUE
  /\ UNCHANGED <<features, path, mounts, req, Commands>>

\* save_session_tokens_on_refresh.
SaveTokens(d) ==
  /\ daemon[d].pc \in {"unmount", "mount", "serve", "drop", "remove"} /\ ~stored
  /\ stored' = TRUE
  /\ UNCHANGED <<features, path, mounts, daemon, req, Commands>>

\* unmount_path takes away what is on top, whosever it is.
Unmounted(stack) == IF stack = <<>> THEN <<>> ELSE Front(stack)

\* What a daemon that was killed left is unmounted.
MutStartUnmounts(stack) == stack
StartUnmounts(stack) == Unmounted(stack)
SpawnFuseSession(d) ==
  /\ \/ daemon[d].pc = "unmount" /\ Goto(d, "mount") /\ mounts' = StartUnmounts(mounts)
     \/ daemon[d].pc = "mount" /\ Goto(d, "serve") /\ mounts' = Append(mounts, d)
  /\ UNCHANGED <<features, stored, path, req, Commands>>

\* The session is dropped, and the path unmounted once more; then the socket is
\* removed, whosever it is.
Stop(d) ==
  /\ \/ /\ daemon[d].pc = "drop" /\ Goto(d, "remove")
        /\ mounts' = Unmounted(SelectSeq(mounts, LAMBDA e : e # d))
        /\ UNCHANGED <<path, req>>
     \/ daemon[d].pc = "remove" /\ Ends(d) /\ path' = Nobody /\ UNCHANGED mounts
  /\ UNCHANGED <<features, stored, Commands>>

\* Killed: what is mounted and the socket stay.
Crash(d) ==
  /\ "crash" \in features /\ daemon[d].pc # "off" /\ Idle
  /\ Ends(d) /\ last' = NoResult
  /\ UNCHANGED <<features, stored, path, mounts, cmd, crossed, ops>>

-----------------------------------------------------------------------------
(* The commands *)

Overlaps == "overlap" \in features
Changes(op) == CASE op = "mount" -> "start" [] op \in {"stop", "logout"} -> "stop" [] OTHER -> "toggle"
\* What a command crosses: one that starts and one that stops, or two that toggle.
Crossings(u, op) ==
  LET met == {Changes(cmd[v].op) : v \in {w \in Users \ {u} : cmd[w].pc # "idle"}} IN
  CASE Changes(op) = "toggle" -> {c \in {"toggle"} : "toggle" \in met}
    [] OTHER -> {c \in {"stop"} : {"start", "stop"} \subseteq met \cup {Changes(op)}}

Begin(u, op, pc, line) ==
  /\ IF Overlaps THEN cmd[u].pc = "idle" ELSE Idle /\ u = CHOOSE v \in Users : TRUE
  /\ ops < MaxOps[features] /\ ops' = ops + 1
  /\ cmd' = [cmd EXCEPT ![u] = [op |-> op, pc |-> pc, child |-> Nobody]] /\ last' = NoResult
  /\ crossed' = crossed \cup Crossings(u, op)
  /\ Ask(u, line)
  /\ UNCHANGED <<features, stored, path, mounts, daemon>>
Closed(u) == cmd' = [cmd EXCEPT ![u] = NoCommand] /\ req' = [req EXCEPT ![u] = NoRequest]
Done(u, by) == Closed(u) /\ last' = [op |-> cmd[u].op, by |-> by] /\ UNCHANGED crossed
Fails(u) == Closed(u) /\ UNCHANGED <<last, crossed>>
At(u, pc) == cmd[u].pc = pc /\ Answered(u)
Then(u, pc, line) == cmd' = [cmd EXCEPT ![u].pc = pc] /\ Ask(u, line) /\ UNCHANGED <<last, crossed>>

\* pdcli mount: ensure_running starts a daemon when none answers, also while another is
\* about to serve.
CmdMount(u) == stored /\ Begin(u, "mount", "running?", "ping")
EnsureRunning(u) ==
  /\ At(u, "running?")
  /\ IF req[u].reply = "ok" THEN Done(u, req[u].by) /\ UNCHANGED daemon
     ELSE \E d \in Daemons :
            /\ daemon[d].pc = "off"
            /\ cmd' = [cmd EXCEPT ![u].pc = "ready?", ![u].child = d] /\ UNCHANGED last
            /\ crossed' = crossed \cup {c \in {"starts"} : \E e \in Daemons : daemon[e].pc # "off"}
            /\ daemon' = [daemon EXCEPT ![d].pc = "check"]
            /\ req' = [a \in Actors |-> IF a \in {u, d} THEN [NoRequest EXCEPT !.pc = "connect", !.line = "ping"]
                                        ELSE req[a]]
  /\ UNCHANGED <<features, stored, path, mounts, ops>>
AwaitReady(u) ==
  /\ At(u, "ready?")
  /\ \/ req[u].reply = "ok" /\ Done(u, req[u].by)
     \/ req[u].reply = "error" /\ daemon[cmd[u].child].pc = "off" /\ Fails(u)
     \/ req[u].reply = "error" /\ daemon[cmd[u].child].pc # "off" /\ Then(u, "ready?", "ping")
  /\ UNCHANGED <<features, stored, path, mounts, daemon, ops>>

\* stop_daemon.
CmdStop(u) == Begin(u, "stop", "stop?", "ping")
CmdLogout(u) == Begin(u, "logout", "stop?", "ping")
ToUnmount(u) == cmd' = [cmd EXCEPT ![u].pc = "unmount"] /\ UNCHANGED <<req, last, crossed>>
RequestQuit(u) ==
  /\ At(u, "stop?")
  /\ IF req[u].reply = "ok" THEN Then(u, "stopping?", "quit") ELSE ToUnmount(u)
  /\ UNCHANGED <<features, stored, path, mounts, daemon, ops>>
AwaitStop(u) ==
  /\ At(u, "stopping?")
  /\ IF req[u].line = "quit" \/ req[u].reply = "ok" THEN Then(u, "stopping?", "ping") ELSE ToUnmount(u)
  /\ UNCHANGED <<features, stored, path, mounts, daemon, ops>>
StopDaemon(u) ==
  /\ cmd[u].pc = "unmount"
  /\ mounts' = Unmounted(mounts)
  /\ stored' = (stored /\ cmd[u].op # "logout")
  /\ Done(u, Nobody)
  /\ UNCHANGED <<features, path, daemon, ops>>

\* pdcli pause and resume: set_paused asks for the status, and toggles it if need be.
CmdPause(u, op) == Begin(u, op, "status?", "status")
SetPaused(u) ==
  LET paused == req[u].reply = "paused" IN
  /\ At(u, "status?")
  /\ IF req[u].reply = "error" THEN Fails(u)
     ELSE IF paused = (cmd[u].op = "pause") THEN Done(u, req[u].by) ELSE Then(u, "toggled?", "toggle-pause")
  /\ UNCHANGED <<features, stored, path, mounts, daemon, ops>>
Toggled(u) ==
  /\ At(u, "toggled?")
  /\ IF req[u].reply = "error" THEN Fails(u) ELSE Done(u, req[u].by)
  /\ UNCHANGED <<features, stored, path, mounts, daemon, ops>>

Login ==
  /\ ~stored /\ Idle /\ stored' = TRUE /\ last' = NoResult
  /\ UNCHANGED <<features, path, mounts, daemon, req, cmd, crossed, ops>>

Next ==
  \/ \E a \in Actors : Connect(a)
  \/ \E a \in Actors : TimesOut(a)
  \/ \E d \in Daemons : HandleClientCommand(d)
  \/ \E d \in Daemons : Run(d)
  \/ \E d \in Daemons : Unlink(d)
  \/ \E d \in Daemons : Bind(d)
  \/ \E d \in Daemons : RestoreSession(d)
  \/ \E d \in Daemons : SaveCredentials(d)
  \/ \E d \in Daemons : SaveTokens(d)
  \/ \E d \in Daemons : SpawnFuseSession(d)
  \/ \E d \in Daemons : Stop(d)
  \/ \E d \in Daemons : Crash(d)
  \/ \E u \in Users : CmdMount(u)
  \/ \E u \in Users : EnsureRunning(u)
  \/ \E u \in Users : AwaitReady(u)
  \/ \E u \in Users : CmdStop(u)
  \/ \E u \in Users : CmdLogout(u)
  \/ \E u \in Users : RequestQuit(u)
  \/ \E u \in Users : AwaitStop(u)
  \/ \E u \in Users : StopDaemon(u)
  \/ \E u \in Users, op \in {"pause", "resume"} : CmdPause(u, op)
  \/ \E u \in Users : SetPaused(u)
  \/ \E u \in Users : Toggled(u)
  \/ Login

Spec == Init /\ [][Next]_vars

-----------------------------------------------------------------------------
(* Properties *)

\* Every variable has its type.
TypeOK ==
  /\ features \subseteq Features
  /\ path \in Daemons \cup {Nobody} /\ mounts \in Seq(Daemons)
  /\ \A u \in Users : cmd[u].child \in Daemons \cup {Nobody}
  /\ last.by \in Daemons \cup {Nobody} /\ crossed \subseteq {"starts", "stop", "toggle"} /\ ops \in 0 .. MaxOps[features]
  /\ \A a \in Actors : req[a].by \in Daemons \cup {Nobody}

\* As long as no answer is slow, and no daemon was started next to another one, there is
\* one at a time, also after one that was killed; the socket is its own, and so is what is
\* mounted, unless one command stops while another one starts.  Two that start at once find
\* no socket, or a silent one, and both go on (daemon.rs 191-220).
InTime == "slow" \notin features /\ "starts" \notin crossed
OneDaemon ==
  InTime =>
    /\ \A d, e \in Daemons : Bound(d) /\ Bound(e) => d = e
    /\ \A d \in Daemons : daemon[d].pc = "serve" => path = d /\ (mounts = <<d>> \/ "stop" \in crossed)

\* And then a command that is done has done it, whatever else runs but a start next to a
\* stop: the drive is mounted, or nothing is left of the daemon, of the mount and, after
\* logout, of the credentials.
CommandsHold ==
  InTime /\ "stop" \notin crossed =>
    /\ last.op = "mount" => daemon[last.by].pc = "serve"
    /\ last.op \in {"stop", "logout"} => mounts = <<>> /\ \A d \in Daemons : daemon[d].pc = "off"
    /\ last.op = "logout" => ~stored

\* pause and resume that say they are done are, although a request that was given up
\* may still be waiting: the daemon takes them in order.  Only of one daemon: a slow
\* one may be replaced between the two requests; and only of one command at a time: two
\* that find the sync running toggle it twice (daemon.rs 105-112).
PauseHolds == \A d \in Daemons :
  /\ "toggle" \notin crossed /\ last.op \in {"pause", "resume"}
  /\ last.by = d /\ daemon[d].pc = "serve" /\ \A e \in Daemons \ {d} : ~Bound(e)
  => daemon[d].paused = (last.op = "pause")

DaemonIsSound == TypeOK /\ OneDaemon /\ CommandsHold /\ PauseHolds
=============================================================================
