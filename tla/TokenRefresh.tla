---------------------------- MODULE TokenRefresh ----------------------------
(***************************************************************************)
(* The token pair of a session: proton-sdk-rs2/src/auth.rs keeps it in     *)
(* memory, pdcli/src/credentials.rs and daemon.rs keep it in the keyring,  *)
(* and every pdcli process of the user shares the keyring.                 *)
(*                                                                         *)
(* A pair is its generation: the server gives generation 1 at login and    *)
(* the next one on each refresh, which makes the older ones useless.  In   *)
(* a process, tokens_task points at the current OnceCell; a caller whose   *)
(* access token is rejected replaces the cell with an empty one, and some  *)
(* caller that waits on the new cell fills it by one refresh call.         *)
(***************************************************************************)
EXTENDS Integers, Sequences

CONSTANTS Procs,      \* the pdcli processes of one user
          Callers,    \* the tasks that call the API
          Home,       \* Home[c]: the process caller c runs in
          Boot,       \* Boot[p]: the caller that runs ensure_authenticated in p
          Modes,      \* what may go wrong together: sets of AllFeatures
          MaxGen,     \* bound: the newest generation the server gives
          MaxAsks,    \* bound: requests made, all callers together
          MaxStarts   \* bound: process starts, all processes together

AllFeatures == {"slow", "cancel", "lose", "revoke", "offline", "exit"}

ASSUME TokenRefreshAssumption ==
    /\ Home \in [Callers -> Procs]
    /\ Boot \in [Procs -> Callers]
    /\ \A p \in Procs : Home[Boot[p]] = p
    /\ Modes \subseteq SUBSET AllFeatures
    /\ MaxGen \in Nat \ {0} /\ MaxAsks \in Nat /\ MaxStarts \in Nat

VARIABLES
    features,  \* what may go wrong in this behaviour, one of Modes
    latest,    \* the generation the server accepts
    alive,     \* the newest access token has not expired
    revoked,   \* the session was ended on the server
    store,     \* the generation in the keyring, None when there is none
    phase,     \* phase[p]: how far restore_session is
    cells,     \* cells[p]: the OnceCells, the last one is tokens_task
    call,      \* call[c]: where the caller is, and its locals
    outbox,    \* outbox[p]: pairs broadcast and not yet saved
    signal,    \* signal[p]: refresh_token_expired was sent and not received
    forget,    \* forget[p]: the task that waits for it
    asks, starts

server == <<latest, alive, revoked>>
vars == <<features, latest, alive, revoked, store, phase, cells, call, outbox, signal,
          forget, asks, starts>>

None == 0      \* no pair: an empty cell, an empty keyring
Gens == 1 .. MaxGen
NoCall == [pc |-> "idle", held |-> None, seen |-> 0, pair |-> None, sel |-> 0,
           replaced |-> FALSE, answer |-> "none"]
NoForget == [pc |-> "listening", rejected |-> None]

Current(p) == cells[p][Len(cells[p])]
Accepts(g) == g = latest /\ alive /\ ~revoked
MyCalls(p) == {c \in Callers : Home[c] = p}
Goto(c, pc) == call' = [call EXCEPT ![c].pc = pc]
Return(c) == call' = [call EXCEPT ![c] = NoCall]

Init ==
    /\ features \in Modes
    /\ latest = 1 /\ alive = TRUE /\ revoked = FALSE
    /\ store = 1
    /\ phase = [p \in Procs |-> "down"]
    /\ cells = [p \in Procs |-> <<>>]
    /\ call = [c \in Callers |-> NoCall]
    /\ outbox = [p \in Procs |-> <<>>]
    /\ signal = [p \in Procs |-> FALSE]
    /\ forget = [p \in Procs |-> NoForget]
    /\ asks = 0 /\ starts = 0

-----------------------------------------------------------------------------
(* The server.  An access token lives for hours: unless "slow" is allowed  *)
(* the newest one does not expire while a caller is inside a refresh.      *)

Settled == \A c \in Callers : call[c].pc \in {"idle", "asked"}

Expire ==
    /\ alive
    /\ "slow" \notin features => Settled /\ \A p \in Procs : outbox[p] = <<>>
    /\ latest < MaxGen
    /\ alive' = FALSE
    /\ UNCHANGED <<features, latest, revoked, store, phase, cells, call, outbox, signal,
                   forget, asks, starts>>

Revoke ==
    /\ "revoke" \in features /\ ~revoked
    /\ revoked' = TRUE
    /\ UNCHANGED <<features, latest, alive, store, phase, cells, call, outbox, signal,
                   forget, asks, starts>>

-----------------------------------------------------------------------------
(* restore_session *)

Start(p) ==
    /\ phase[p] = "down" /\ store # None /\ starts < MaxStarts
    /\ phase' = [phase EXCEPT ![p] = "loaded"]
    /\ cells' = [cells EXCEPT ![p] = <<store>>]
    /\ signal' = [signal EXCEPT ![p] = FALSE]
    /\ forget' = [forget EXCEPT ![p] = NoForget]
    /\ starts' = starts + 1
    /\ UNCHANGED <<features, server, store, call, outbox, asks>>

\* force_offline: the pair is not probed
SkipProbe(p) ==
    /\ "offline" \in features
    /\ phase[p] = "loaded" /\ call[Boot[p]].pc = "idle"
    /\ phase' = [phase EXCEPT ![p] = "ensured"]
    /\ UNCHANGED <<features, server, store, cells, call, outbox, signal, forget, asks, starts>>

\* the latest pair is saved, and the two listeners are subscribed
SaveLatest(p) ==
    /\ phase[p] = "ensured"
    /\ store' = IF Current(p) # None THEN Current(p) ELSE store
    /\ phase' = [phase EXCEPT ![p] = "up"]
    /\ outbox' = [outbox EXCEPT ![p] = <<>>]
    /\ UNCHANGED <<features, server, cells, call, signal, forget, asks, starts>>

\* a one-shot command ends, or the daemon is stopped: its tasks go with it
Down(p) ==
    /\ phase' = [phase EXCEPT ![p] = "down"]
    /\ cells' = [cells EXCEPT ![p] = <<>>]
    /\ call' = [c \in Callers |-> IF Home[c] = p THEN NoCall ELSE call[c]]
    /\ outbox' = [outbox EXCEPT ![p] = <<>>]
    /\ signal' = [signal EXCEPT ![p] = FALSE]
    /\ forget' = [forget EXCEPT ![p] = NoForget]

Exit(p) ==
    /\ "exit" \in features /\ phase[p] = "up"
    /\ Down(p)
    /\ UNCHANGED <<features, server, store, asks, starts>>

-----------------------------------------------------------------------------
(* One API call: get_tokens, the request, and after a 401                  *)
(* get_refreshed_access_token and the request again.                       *)

\* a call whose cell is empty fails with "Tokens not initialized"
Ask(c) ==
    /\ call[c].pc = "idle" /\ asks < MaxAsks
    /\ \/ phase[Home[c]] = "up"
       \/ phase[Home[c]] = "loaded" /\ c = Boot[Home[c]]
    /\ Current(Home[c]) # None
    /\ call' = [call EXCEPT ![c].pc = "asked", ![c].held = Current(Home[c])]
    /\ asks' = asks + 1
    /\ UNCHANGED <<features, server, store, phase, cells, outbox, signal, forget, starts>>

\* where the end of a call leaves restore_session: ensure_authenticated
\* fails when the access token it is given is the one it had
Ensured(c, ok) ==
    phase' = IF phase[Home[c]] # "loaded" THEN phase
             ELSE [phase EXCEPT ![Home[c]] = IF ok THEN "ensured" ELSE "refused"]

Accepted(c) ==
    /\ call[c].pc = "asked" /\ Accepts(call[c].held)
    /\ Return(c) /\ Ensured(c, TRUE)
    /\ UNCHANGED <<features, server, store, cells, outbox, signal, forget, asks, starts>>

Rejected(c) ==
    /\ call[c].pc = "asked" /\ ~Accepts(call[c].held)
    /\ Goto(c, "rejected")
    /\ UNCHANGED <<features, server, store, phase, cells, outbox, signal, forget, asks, starts>>

\* the read lock: the current cell and its pair are captured
Snapshot(c) ==
    LET p == Home[c] IN
    /\ call[c].pc = "rejected"
    /\ IF Current(p) # call[c].held   \* empty: an error; other: already refreshed
       THEN Return(c) /\ Ensured(c, Current(p) # None)
       ELSE /\ call' = [call EXCEPT ![c].pc = "snap", ![c].seen = Len(cells[p]),
                                    ![c].pair = Current(p)]
            /\ UNCHANGED phase
    /\ UNCHANGED <<features, server, store, cells, outbox, signal, forget, asks, starts>>

\* Mutant: without the ptr_eq check each rejected caller makes a cell of its own
MutReplace(c) ==
    LET p == Home[c] IN
    /\ call[c].pc = "snap"
    /\ cells' = [cells EXCEPT ![p] = Append(@, None)]
    /\ call' = [call EXCEPT ![c].pc = "select", ![c].replaced = TRUE,
                            ![c].sel = Len(cells'[p])]
    /\ UNCHANGED <<features, server, store, phase, outbox, signal, forget, asks, starts>>

\* Mutant: a cell is replaced when it has a pair, not when it is the one the
\* caller has seen
MutReplaceFilled(c) ==
    LET p == Home[c] IN
    /\ call[c].pc = "snap"
    /\ \/ /\ Current(p) # None
          /\ cells' = [cells EXCEPT ![p] = Append(@, None)]
          /\ call' = [call EXCEPT ![c].pc = "select", ![c].replaced = TRUE,
                                  ![c].sel = Len(cells[p]) + 1]
       \/ /\ Current(p) = None
          /\ call' = [call EXCEPT ![c].pc = "select", ![c].sel = Len(cells[p])]
          /\ UNCHANGED cells
    /\ UNCHANGED <<features, server, store, phase, outbox, signal, forget, asks, starts>>

\* the write lock: only the caller that still sees its cell replaces it
Replace(c) ==
    LET p == Home[c] IN
    /\ call[c].pc = "snap"
    /\ \/ /\ call[c].seen = Len(cells[p])
          /\ cells' = [cells EXCEPT ![p] = Append(@, None)]
          /\ call' = [call EXCEPT ![c].pc = "select", ![c].replaced = TRUE,
                                  ![c].sel = Len(cells[p]) + 1]
       \/ /\ call[c].seen # Len(cells[p])
          /\ call' = [call EXCEPT ![c].pc = "select", ![c].sel = Len(cells[p])]
          /\ UNCHANGED cells
    /\ UNCHANGED <<features, server, store, phase, outbox, signal, forget, asks, starts>>

Filling(c) == call[c].pc \in {"calling", "answered", "fallback"}

\* get_or_init: one caller runs the closure, with the pair it captured itself
BeginInit(c) ==
    LET p == Home[c] IN
    /\ call[c].pc = "select"
    /\ cells[p][call[c].sel] = None
    /\ ~\E d \in MyCalls(p) : Filling(d) /\ call[d].sel = call[c].sel
    /\ Goto(c, "calling")
    /\ UNCHANGED <<features, server, store, phase, cells, outbox, signal, forget, asks, starts>>

\* Mutant: waiters of a filled cell are not woken
MutGetValue(c) ==
    /\ call[c].pc = "select" /\ call[c].replaced
    /\ cells[Home[c]][call[c].sel] # None
    /\ Goto(c, "got")
    /\ UNCHANGED <<features, server, store, phase, cells, outbox, signal, forget, asks, starts>>

GetValue(c) ==
    /\ call[c].pc = "select"
    /\ cells[Home[c]][call[c].sel] # None
    /\ Goto(c, "got")
    /\ UNCHANGED <<features, server, store, phase, cells, outbox, signal, forget, asks, starts>>

\* the server: a pair that is not the newest is an invalid refresh token
Serve(c) ==
    LET valid == call[c].pair = latest /\ ~revoked IN
    /\ call[c].pc = "calling"
    /\ valid => latest < MaxGen
    /\ latest' = IF valid THEN latest + 1 ELSE latest
    /\ alive' = (alive \/ valid)
    /\ \E answer \in {IF valid THEN "granted" ELSE "invalid"}
                     \union (IF "lose" \in features THEN {"error"} ELSE {}) :
         call' = [call EXCEPT ![c].pc = "answered", ![c].answer = answer]
    /\ UNCHANGED <<features, revoked, store, phase, cells, outbox, signal, forget, asks, starts>>

\* the request or its connection fails before the server sees it
Unreachable(c) ==
    /\ "lose" \in features
    /\ call[c].pc = "calling"
    /\ call' = [call EXCEPT ![c].pc = "answered", ![c].answer = "error"]
    /\ UNCHANGED <<features, server, store, phase, cells, outbox, signal, forget, asks, starts>>

Fill(c, g) ==
    /\ cells' = [cells EXCEPT ![Home[c]][call[c].sel] = g]
    /\ Goto(c, "got")

Granted(c) ==
    /\ call[c].pc = "answered" /\ call[c].answer = "granted"
    /\ Fill(c, call[c].pair + 1)
    /\ UNCHANGED <<features, server, store, phase, outbox, signal, forget, asks, starts>>

\* the closure sends on the expired channel before the cell has its value
SignalExpired(c) ==
    /\ call[c].pc = "answered" /\ call[c].answer # "granted"
    /\ signal' = IF call[c].answer = "invalid"
                 THEN [signal EXCEPT ![Home[c]] = TRUE] ELSE signal
    /\ Goto(c, "fallback")
    /\ UNCHANGED <<features, server, store, phase, cells, outbox, forget, asks, starts>>

FallBack(c) ==
    /\ call[c].pc = "fallback"
    /\ Fill(c, call[c].pair)
    /\ UNCHANGED <<features, server, store, phase, outbox, signal, forget, asks, starts>>

\* only the caller that replaced the cell broadcasts
Broadcast(c) ==
    LET p == Home[c]
        got == cells[p][call[c].sel]
    IN
    /\ call[c].pc = "got"
    /\ outbox' = IF call[c].replaced /\ got # call[c].pair
                 THEN [outbox EXCEPT ![p] = Append(@, got)] ELSE outbox
    /\ Return(c) /\ Ensured(c, got # call[c].held)
    /\ UNCHANGED <<features, server, store, cells, signal, forget, asks, starts>>

\* tokio::time::timeout drops the call at an await
Cancel(c) ==
    /\ "cancel" \in features
    /\ phase[Home[c]] = "up"
    /\ call[c].pc \in {"asked", "rejected", "snap", "select", "calling", "answered"}
    /\ Return(c)
    /\ UNCHANGED <<features, server, store, phase, cells, outbox, signal, forget, asks, starts>>

-----------------------------------------------------------------------------
(* The listeners of a process *)

\* save_session_tokens_on_refresh
Save(p) ==
    /\ phase[p] = "up" /\ outbox[p] # <<>>
    /\ store' = Head(outbox[p])
    /\ outbox' = [outbox EXCEPT ![p] = Tail(@)]
    /\ UNCHANGED <<features, server, phase, cells, call, signal, forget, asks, starts>>

\* forget_rejected_credentials, from the task or from a refused restore
ForgetRead(p) ==
    /\ forget[p].pc = "listening" /\ phase[p] \in {"up", "refused"} /\ signal[p]
    /\ signal' = [signal EXCEPT ![p] = FALSE]
    /\ forget' = [forget EXCEPT ![p] = [pc |-> IF Current(p) = None THEN "done" ELSE "load",
                                        rejected |-> Current(p)]]
    /\ UNCHANGED <<features, server, store, phase, cells, call, outbox, asks, starts>>

ForgetLoad(p) ==
    /\ forget[p].pc = "load"
    /\ forget' = [forget EXCEPT ![p].pc = IF store = forget[p].rejected
                                          THEN "remove" ELSE "done"]
    /\ UNCHANGED <<features, server, store, phase, cells, call, outbox, signal, asks, starts>>

ForgetRemove(p) ==
    /\ forget[p].pc = "remove"
    /\ store' = None
    /\ forget' = [forget EXCEPT ![p].pc = "done"]
    /\ UNCHANGED <<features, server, phase, cells, call, outbox, signal, asks, starts>>

\* a refused restore_session returns its error and the process ends
Fail(p) ==
    /\ phase[p] = "refused"
    /\ forget[p].pc = "done" \/ (forget[p].pc = "listening" /\ ~signal[p])
    /\ Down(p)
    /\ UNCHANGED <<features, server, store, asks, starts>>

-----------------------------------------------------------------------------
CallStep(c) ==
    \/ Accepted(c) \/ Rejected(c) \/ Snapshot(c) \/ Replace(c)
    \/ BeginInit(c) \/ GetValue(c) \/ Serve(c) \/ Unreachable(c) \/ Granted(c)
    \/ SignalExpired(c) \/ FallBack(c) \/ Broadcast(c)

ProcStep(p) ==
    \/ SaveLatest(p) \/ Save(p)
    \/ ForgetRead(p) \/ ForgetLoad(p) \/ ForgetRemove(p) \/ Fail(p)

Next ==
    \/ Expire \/ Revoke
    \/ \E p \in Procs : Start(p) \/ SkipProbe(p) \/ Exit(p) \/ ProcStep(p)
    \/ \E c \in Callers : Ask(c) \/ Cancel(c) \/ CallStep(c)

Spec == Init /\ [][Next]_vars

\* the runtime polls every task that is ready, and the server answers
FairSpec ==
    /\ Spec
    /\ \A c \in Callers : WF_vars(CallStep(c))
    /\ \A p \in Procs : WF_vars(ProcStep(p))

-----------------------------------------------------------------------------
TypeOK ==
    /\ features \in Modes
    /\ latest \in Gens /\ alive \in BOOLEAN /\ revoked \in BOOLEAN
    /\ store \in Gens \union {None}
    /\ phase \in [Procs -> {"down", "loaded", "ensured", "refused", "up"}]
    /\ \A p \in Procs :
         /\ cells[p] \in Seq(Gens \union {None})
         /\ phase[p] # "down" <=> cells[p] # <<>>
         /\ outbox[p] \in Seq(Gens)
    /\ \A c \in Callers :
         /\ call[c].pc \in {"idle", "asked", "rejected", "snap", "select", "calling",
                            "answered", "fallback", "got"}
         /\ call[c].sel \in 0 .. Len(cells[Home[c]])
    /\ signal \in [Procs -> BOOLEAN]
    /\ \A p \in Procs : forget[p].pc \in {"listening", "load", "remove", "done"}
    /\ asks \in 0 .. MaxAsks /\ starts \in 0 .. MaxStarts

\* However many callers see their access token rejected, a process has one
\* refresh on its way: the refresh token it sends is good only once.
OneRefreshAtATime ==
    \A c, d \in Callers : c # d /\ Home[c] = Home[d] => ~(Filling(c) /\ Filling(d))

Quiet(p) == phase[p] = "up" /\ outbox[p] = <<>> /\ \A c \in MyCalls(p) : call[c].pc = "idle"

\* What one process gets through unharmed: no call is cut off, no answer is
\* lost, and the new access token is good for longer than a refresh takes.
Benign == features \subseteq {"revoke", "offline"} /\ ~revoked

\* When nothing is under way in the one process, the pair in memory and the
\* pair in the keyring are the pair the server gave last: no refresh is
\* lost between the cell, the broadcast and the listener.
QuietMeansStored ==
    Benign => \A p \in Procs : Quiet(p) => Current(p) = latest /\ store = latest

\* A session that was not ended on the server is never told that its
\* refresh token is invalid.
NotToldExpired == Benign => \A p \in Procs : ~signal[p]

\* The tokens in the cells, on their way and in the keyring agree.
TokensAreSound == TypeOK /\ QuietMeansStored /\ NotToldExpired

\* The next four do not hold and are not checked (README, known disagreements).

\* A credential holds a pair whenever no call is under way: get_tokens has
\* something to return.  A cancelled call leaves an empty cell.
UsableWhenIdle ==
    \A p \in Procs : Quiet(p) => Current(p) # None

\* The pair that a listener is told to save is newer than the stored one or
\* equal to it: an old pair is not written over a newer one.
BroadcastIsNewer ==
    \A p \in Procs : \A i \in 1 .. Len(outbox[p]) : outbox[p][i] >= store

\* The keyring never loses the newest pair: no process overwrites it with an
\* older one or removes it.
NewestIsKept == [][store = latest /\ ~revoked => store' = store \/ store' > store]_store

\* A process that learnt that its refresh token is invalid signs out: the
\* rejected pair does not stay in the keyring.
SignsOut ==
    \A p \in Procs :
      (phase[p] = "up" /\ signal[p] /\ revoked) ~> (store = None \/ phase[p] = "down")

\* Every API call ends, whoever refreshes the token for it.
EveryCallReturns == \A c \in Callers : call[c].pc # "idle" ~> call[c].pc = "idle"
=============================================================================
