------------------------- MODULE TokenRefreshProofs -------------------------
(***************************************************************************)
(* Two theorems.  A process never has two refreshes on their way, for any  *)
(* number of processes and callers and with every feature allowed:         *)
(* cancelled calls, lost answers, slow callers, exits and restarts.        *)
(*                                                                         *)
(* The argument: only the last cell of a process can be empty, because a   *)
(* caller replaces the cell it captured only while it is the last one, and *)
(* what it captured was a cell with a value.  Whoever fills a cell found   *)
(* it empty, so it fills the last one; and one cell has one filler.        *)
(*                                                                         *)
(* For one process that gets through unharmed the tokens stay sound too.   *)
(* No generation is newer than the server's (PairsInv).  All who wait in   *)
(* the process wait for its last cell, with the pair of the cell before:   *)
(* while they are there that pair is not the server's newest unless it is  *)
(* expired, and it cannot expire twice.  So whoever fills the cell fills   *)
(* in the newest pair, and the caller that made the cell is still there to *)
(* save it (InStep).                                                       *)
(***************************************************************************)
EXTENDS TokenRefresh, SequenceTheorems, TLAPS

Answers == {"none", "granted", "invalid", "error"}
PCs == {"idle", "asked", "rejected", "snap", "select", "calling", "answered",
        "fallback", "got"}
Calls == [pc : PCs, held : Nat, seen : Nat, pair : Nat, sel : Nat,
          replaced : BOOLEAN, answer : Answers]
Phases == {"down", "loaded", "ensured", "refused", "up"}

Types ==
    /\ store \in Nat
    /\ phase \in [Procs -> Phases]
    /\ cells \in [Procs -> Seq(Nat)]
    /\ call \in [Callers -> Calls]
    /\ outbox \in [Procs -> Seq(Nat)]

\* a process has a cell exactly while it runs
RunningHasACell == \A p \in Procs : phase[p] # "down" <=> cells[p] # <<>>

\* only the last cell can be empty
OnlyLastIsEmpty ==
    \A p \in Procs : \A i \in 1 .. Len(cells[p]) : cells[p][i] = None => i = Len(cells[p])

\* a call under way carries a token and later a pair, what it captured is a
\* cell with a value, what it selected is a cell, an empty one while it fills it
Selecting == {"select", "calling", "answered", "fallback", "got"}
FillPCs == {"calling", "answered", "fallback"}
Sound(r, cs) ==
    /\ r.pc # "idle" => r.held # None /\ Len(cs) > 0
    /\ r.pc \in Selecting \union {"snap"} => r.pair # None
    /\ r.pc = "snap" => r.seen \in 1 .. Len(cs) /\ cs[r.seen] # None
    /\ r.pc \in Selecting => r.sel \in 1 .. Len(cs)
    /\ r.pc \in FillPCs => cs[r.sel] = None

CallsAreSound == \A c \in Callers : Sound(call[c], cells[Home[c]])

IInv == Types /\ RunningHasACell /\ OnlyLastIsEmpty /\ CallsAreSound /\ OneRefreshAtATime

-----------------------------------------------------------------------------
\* The strengthened invariant holds at the start: no process runs.
LEMMA InitInv == Init => IInv
<1> SUFFICES ASSUME Init PROVE IInv
    OBVIOUS
<1> USE TokenRefreshAssumption
<1>1. Types
  BY DEF Init, Types, Calls, NoCall, PCs, Phases, Answers, None
<1>2. \A p \in Procs : Len(cells[p]) = 0
  BY DEF Init
<1>3. RunningHasACell /\ OnlyLastIsEmpty
  BY <1>2 DEF Init, RunningHasACell, OnlyLastIsEmpty
<1>4. CallsAreSound /\ OneRefreshAtATime
  BY DEF Init, NoCall, CallsAreSound, Sound, Selecting, FillPCs, OneRefreshAtATime, Filling
<1> QED BY <1>1, <1>3, <1>4 DEF IInv

\* A step that leaves the cells and the callers alone preserves it.
LEMMA QuietStep ==
    ASSUME IInv, UNCHANGED <<cells, call>>, store' \in Nat,
           phase' \in [Procs -> Phases], outbox' \in [Procs -> Seq(Nat)],
           \A p \in Procs : phase'[p] # "down" <=> phase[p] # "down"
    PROVE  IInv'
<1>1. Types' BY DEF IInv, Types
<1>2. RunningHasACell' BY DEF IInv, RunningHasACell
<1>3. OnlyLastIsEmpty' BY DEF IInv, OnlyLastIsEmpty
<1>4. CallsAreSound' /\ OneRefreshAtATime'
  BY DEF IInv, CallsAreSound, OneRefreshAtATime, Filling
<1> QED BY <1>1, <1>2, <1>3, <1>4 DEF IInv

\* A step of one caller that leaves the cells alone preserves it when the
\* caller stays sound and does not join another one in filling a cell.
LEMMA CallerStep ==
    ASSUME IInv, NEW c \in Callers, NEW r \in Calls,
           call' = [call EXCEPT ![c] = r], UNCHANGED <<cells, store>>,
           phase' \in [Procs -> Phases], outbox' \in [Procs -> Seq(Nat)],
           \A p \in Procs : phase'[p] # "down" <=> phase[p] # "down",
           Sound(r, cells[Home[c]]),
           r.pc \in FillPCs =>
             \/ Filling(c)
             \/ \A d \in Callers \ {c} : Home[d] = Home[c] => ~Filling(d)
    PROVE  IInv'
<1>1. Types' BY DEF IInv, Types
<1>2. RunningHasACell' BY DEF IInv, RunningHasACell
<1>3. OnlyLastIsEmpty' BY DEF IInv, OnlyLastIsEmpty
<1>4. CallsAreSound' BY DEF IInv, CallsAreSound, Types
<1>5. \A d \in Callers : call'[d] = IF d = c THEN r ELSE call[d]
  BY DEF IInv, Types
<1>6. OneRefreshAtATime'
  BY <1>5 DEF IInv, OneRefreshAtATime, Filling, FillPCs
<1> QED BY <1>1, <1>2, <1>3, <1>4, <1>6 DEF IInv

\* Two fillers of one process would fill the same cell, the last one.
LEMMA FillsTheLast ==
    ASSUME IInv, NEW c \in Callers, call[c].pc \in Selecting,
           cells[Home[c]][call[c].sel] = None
    PROVE  call[c].sel = Len(cells[Home[c]])
BY TokenRefreshAssumption DEF IInv, OnlyLastIsEmpty, CallsAreSound, Sound

\* A record of a caller stays one when its place changes.
LEMMA Moves ==
    ASSUME NEW r \in Calls, NEW pc \in PCs PROVE [r EXCEPT !.pc = pc] \in Calls
BY DEF Calls

\* Whoever runs the closure of the cell is the only one that fills a cell.
LEMMA BeginInitStep ==
    ASSUME IInv, NEW c \in Callers, BeginInit(c) PROVE IInv'
<1> USE TokenRefreshAssumption
<1>0. call[c] \in Calls /\ Sound(call[c], cells[Home[c]])
  BY DEF IInv, Types, CallsAreSound
<1>1. call' = [call EXCEPT ![c] = [call[c] EXCEPT !.pc = "calling"]]
  BY DEF BeginInit, Goto
<1>2. [call[c] EXCEPT !.pc = "calling"] \in Calls
  BY Moves DEF IInv, Types, PCs
<1>3. Sound([call[c] EXCEPT !.pc = "calling"], cells[Home[c]])
  BY <1>0 DEF Sound, Selecting, FillPCs, BeginInit, Calls
<1>4. call[c].sel = Len(cells[Home[c]])
  BY FillsTheLast DEF BeginInit, Selecting
<1>5. ASSUME NEW d \in Callers \ {c}, Home[d] = Home[c], Filling(d) PROVE FALSE
  <2>1. call[d].pc \in Selecting /\ call[d].pc \in FillPCs
    BY <1>5 DEF Filling, Selecting, FillPCs
  <2>2. cells[Home[d]][call[d].sel] = None
    BY <2>1 DEF IInv, CallsAreSound, Sound
  <2>3. call[d].sel = call[c].sel
    BY <1>4, <1>5, <2>1, <2>2, FillsTheLast
  <2> QED BY <1>5, <2>3 DEF BeginInit, MyCalls
<1> QED BY <1>1, <1>2, <1>3, <1>5, CallerStep DEF BeginInit, IInv, Types

\* restore_session moves on or is refused when its call ends.
LEMMA EnsuredStep ==
    ASSUME IInv, NEW c \in Callers, NEW ok \in BOOLEAN, Ensured(c, ok)
    PROVE  /\ phase' \in [Procs -> Phases]
           /\ \A p \in Procs : phase'[p] # "down" <=> phase[p] # "down"
<1> USE TokenRefreshAssumption
<1>1. CASE phase[Home[c]] # "loaded"
  BY <1>1 DEF Ensured, IInv, Types
<1>2. CASE phase[Home[c]] = "loaded" /\ ok
  <2>1. phase' = [phase EXCEPT ![Home[c]] = "ensured"]
    BY <1>2 DEF Ensured
  <2> QED BY <1>2, <2>1 DEF IInv, Types, Phases
<1>3. CASE phase[Home[c]] = "loaded" /\ ~ok
  <2>1. phase' = [phase EXCEPT ![Home[c]] = "refused"]
    BY <1>3 DEF Ensured
  <2> QED BY <1>3, <2>1 DEF IInv, Types, Phases
<1> QED BY <1>1, <1>2, <1>3

\* A call that ends leaves the others as they are.
LEMMA ReturnStep ==
    ASSUME IInv, NEW c \in Callers, Return(c), UNCHANGED <<cells, store>>,
           phase' \in [Procs -> Phases], outbox' \in [Procs -> Seq(Nat)],
           \A p \in Procs : phase'[p] # "down" <=> phase[p] # "down"
    PROVE  IInv'
<1>1. NoCall \in Calls
  BY DEF NoCall, Calls, PCs, Answers, None
<1>2. Sound(NoCall, cells[Home[c]]) /\ NoCall.pc \notin FillPCs
  BY DEF Sound, NoCall, Selecting, FillPCs
<1> QED BY <1>1, <1>2, CallerStep DEF Return

\* A step inside a call that changes its place and nothing else it holds.
LEMMA GotoStep ==
    ASSUME IInv, NEW c \in Callers, NEW pc \in PCs, Goto(c, pc),
           UNCHANGED <<cells, store, phase, outbox>>,
           call[c].pc # "idle",
           Sound([call[c] EXCEPT !.pc = pc], cells[Home[c]]),
           pc \in FillPCs => Filling(c)
    PROVE  IInv'
<1>1. call' = [call EXCEPT ![c] = [call[c] EXCEPT !.pc = pc]]
  BY DEF Goto
<1>2. [call[c] EXCEPT !.pc = pc] \in Calls
  BY Moves DEF IInv, Types
<1>3. [call[c] EXCEPT !.pc = pc].pc = pc
  BY DEF IInv, Types, Calls
<1> QED BY <1>1, <1>2, <1>3, CallerStep DEF IInv, Types

\* The steps of a call that touch no cell and end it or only move it on.
LEMMA PlainCallSteps ==
    ASSUME IInv, NEW c \in Callers,
           Accepted(c) \/ Rejected(c) \/ GetValue(c) \/ SignalExpired(c) \/ Cancel(c)
    PROVE  IInv'
<1> USE TokenRefreshAssumption
<1>0. call[c] \in Calls /\ Sound(call[c], cells[Home[c]])
  BY DEF IInv, Types, CallsAreSound
<1>1. CASE Accepted(c)
  BY <1>1, EnsuredStep, ReturnStep DEF Accepted, IInv, Types
<1>2. CASE Rejected(c)
  <2>1. Sound([call[c] EXCEPT !.pc = "rejected"], cells[Home[c]])
    BY <1>0, <1>2 DEF Rejected, Sound, Selecting, FillPCs, Calls
  <2> QED BY <1>2, <2>1, GotoStep DEF Rejected, PCs, FillPCs
<1>3. CASE GetValue(c)
  <2>1. Sound([call[c] EXCEPT !.pc = "got"], cells[Home[c]])
    BY <1>0, <1>3 DEF GetValue, Sound, Selecting, FillPCs, Calls
  <2> QED BY <1>3, <2>1, GotoStep DEF GetValue, PCs, FillPCs
<1>4. CASE SignalExpired(c)
  <2>1. Sound([call[c] EXCEPT !.pc = "fallback"], cells[Home[c]])
    BY <1>0, <1>4 DEF SignalExpired, Sound, Selecting, FillPCs, Calls
  <2> QED BY <1>4, <2>1, GotoStep DEF SignalExpired, PCs, Filling
<1>5. CASE Cancel(c)
  BY <1>5, ReturnStep DEF Cancel, IInv, Types
<1> QED BY <1>1, <1>2, <1>3, <1>4, <1>5

\* The steps of a call that capture something: the token, the cell, the answer.
LEMMA CapturingSteps ==
    ASSUME IInv, NEW c \in Callers,
           Ask(c) \/ Snapshot(c) \/ Serve(c) \/ Unreachable(c) \/ Broadcast(c)
    PROVE  IInv'
<1> USE TokenRefreshAssumption
<1> DEFINE p == Home[c]
<1>0. /\ call[c] \in Calls /\ cells[p] \in Seq(Nat) /\ p \in Procs
      /\ Sound(call[c], cells[p])
  BY DEF IInv, Types, CallsAreSound
<1>1. CASE Ask(c)
  <2> DEFINE r == [call[c] EXCEPT !.pc = "asked", !.held = Current(p)]
  <2>1. call' = [call EXCEPT ![c] = r]
    BY <1>1 DEF Ask
  <2>2. Len(cells[p]) > 0
    BY <1>0, <1>1 DEF Ask, IInv, RunningHasACell
  <2>3. Current(p) \in Nat
    BY <1>0, <2>2 DEF Current
  <2>4. r \in Calls
    BY <1>0, <2>3 DEF Calls, PCs
  <2>5. Sound(r, cells[p]) /\ r.pc \notin FillPCs
    BY <1>0, <1>1, <2>2 DEF Sound, Selecting, FillPCs, Ask, Calls
  <2> QED BY <1>1, <2>1, <2>4, <2>5, CallerStep DEF Ask, IInv, Types
<1>2. CASE Snapshot(c) /\ Current(p) # call[c].held
  BY <1>2, EnsuredStep, ReturnStep DEF Snapshot, IInv, Types
<1>3. CASE Snapshot(c) /\ Current(p) = call[c].held
  <2> DEFINE r == [call[c] EXCEPT !.pc = "snap", !.seen = Len(cells[p]), !.pair = Current(p)]
  <2>1. call' = [call EXCEPT ![c] = r] /\ UNCHANGED phase
    BY ZenonT(60), <1>3 DEF Snapshot
  <2>2. Len(cells[p]) > 0 /\ Len(cells[p]) \in Nat /\ Current(p) # None
    BY <1>0, <1>3 DEF Snapshot, Sound
  <2>3. Current(p) \in Nat
    BY <1>0, <2>2 DEF Current
  <2>4. r \in Calls
    BY <1>0, <2>2, <2>3 DEF Calls, PCs
  <2>5. Sound(r, cells[p]) /\ r.pc \notin FillPCs
    BY SMTT(30), <1>0, <1>3, <2>2 DEF Sound, Selecting, FillPCs, Snapshot, Calls, Current
  <2> QED BY <1>3, <2>1, <2>4, <2>5, CallerStep DEF Snapshot, IInv, Types
<1>4. ASSUME NEW answer \in Answers, call[c].pc = "calling",
             call' = [call EXCEPT ![c].pc = "answered", ![c].answer = answer],
             UNCHANGED <<cells, store, phase, outbox>>
      PROVE  IInv'
  <2> DEFINE r == [call[c] EXCEPT !.pc = "answered", !.answer = answer]
  <2>1. call' = [call EXCEPT ![c] = r]
    BY <1>4
  <2>2. r \in Calls
    BY <1>0 DEF Calls, PCs
  <2>3. Sound(r, cells[p])
    BY <1>0, <1>4 DEF Sound, Selecting, FillPCs, Calls
  <2> QED BY <1>4, <2>1, <2>2, <2>3, CallerStep DEF IInv, Types, Filling
<1>5. CASE Serve(c)
  BY <1>5, <1>4 DEF Serve, Answers
<1>6. CASE Unreachable(c)
  BY <1>6, <1>4 DEF Unreachable, Answers
<1>7. CASE Broadcast(c)
  <2>1. cells[p][call[c].sel] \in Nat
    BY <1>0, <1>7 DEF Broadcast, Sound, Selecting
  <2>2. outbox' \in [Procs -> Seq(Nat)]
    BY <1>7, <2>1, AppendProperties DEF Broadcast, IInv, Types
  <2>3. (cells[p][call[c].sel] # call[c].held) \in BOOLEAN
    OBVIOUS
  <2> QED BY <1>7, <2>2, <2>3, EnsuredStep, ReturnStep DEF Broadcast
<1> QED BY <1>1, <1>2, <1>3, <1>5, <1>6, <1>7

\* A record of a caller stays one when it selects a cell it made.
LEMMA Selects ==
    ASSUME NEW r \in Calls, NEW n \in Nat
    PROVE  [r EXCEPT !.pc = "select", !.replaced = TRUE, !.sel = n] \in Calls
<1>1. "select" \in PCs /\ TRUE \in BOOLEAN
  BY DEF PCs
<1> QED BY <1>1, Zenon DEF Calls

\* Replacing the last cell: the caller captured it when it had a value.
LEMMA ReplaceStep ==
    ASSUME IInv, NEW c \in Callers, Replace(c) PROVE IInv'
<1> USE TokenRefreshAssumption
<1> DEFINE p == Home[c]
<1> DEFINE cs == cells[p]
<1>0. /\ call[c] \in Calls /\ cs \in Seq(Nat) /\ p \in Procs
      /\ Sound(call[c], cs) /\ call[c].pc = "snap"
  BY DEF IInv, Types, CallsAreSound, Replace
<1>1. Len(cs) \in Nat /\ Len(cs) > 0
  BY <1>0 DEF Sound
<1>2. CASE call[c].seen # Len(cs)
  <2> DEFINE r == [call[c] EXCEPT !.pc = "select", !.sel = Len(cs)]
  <2>1. cells' = cells /\ call' = [call EXCEPT ![c] = r]
    BY ZenonT(60), <1>2 DEF Replace
  <2>2. r \in Calls
    BY <1>0, <1>1 DEF Calls, PCs
  <2>3. Sound(r, cs) /\ r.pc \notin FillPCs
    BY <1>0, <1>1 DEF Sound, Selecting, FillPCs, Calls
  <2> QED BY <2>1, <2>2, <2>3, CallerStep DEF Replace, IInv, Types
<1>3. CASE call[c].seen = Len(cs)
  <2> DEFINE r == [call[c] EXCEPT !.pc = "select", !.replaced = TRUE, !.sel = Len(cs) + 1]
  <2>1. /\ cells' = [cells EXCEPT ![p] = Append(cs, None)]
        /\ call' = [call EXCEPT ![c] = r]
    BY ZenonT(60), <1>3 DEF Replace
  <2>2. /\ Append(cs, None) \in Seq(Nat) /\ Len(Append(cs, None)) = Len(cs) + 1
        /\ \A i \in 1 .. Len(cs) : Append(cs, None)[i] = cs[i]
        /\ Len(cs) \in Nat
    BY <1>0, AppendProperties DEF None
  <2>3. cells'[p] = Append(cs, None) /\ \A q \in Procs \ {p} : cells'[q] = cells[q]
    BY <1>0, <2>1 DEF IInv, Types
  <2>4. cs[Len(cs)] # None
    BY <1>0, <1>3 DEF Sound
  <2>4a. Len(cs) + 1 \in Nat /\ call[c] \in Calls
    BY <1>0, <1>1
  <2>5. r \in Calls
    BY <2>4a, Selects, Zenon
  <2>6. Types'
    BY <2>1, <2>2, <2>5 DEF IInv, Types, Replace
  <2>7. RunningHasACell'
    <3>1. cells[p] # <<>> /\ cells'[p] # <<>>
      BY <1>1, <2>2, <2>3
    <3> QED BY <2>3, <3>1 DEF IInv, RunningHasACell, Replace
  <2>8. \A i \in 1 .. Len(cs) : cs[i] # None
    BY <1>0, <2>4 DEF IInv, OnlyLastIsEmpty
  <2>9. OnlyLastIsEmpty'
    <3> SUFFICES ASSUME NEW q \in Procs, NEW i \in 1 .. Len(cells'[q]),
                        cells'[q][i] = None
                 PROVE  i = Len(cells'[q])
        BY DEF OnlyLastIsEmpty
    <3>1. CASE q = p
      BY <3>1, <2>2, <2>3, <2>8
    <3>2. CASE q # p
      BY <3>2, <2>3 DEF IInv, OnlyLastIsEmpty
    <3> QED BY <3>1, <3>2
  <2>10. \A d \in Callers : call'[d] = IF d = c THEN r ELSE call[d]
    BY <2>1 DEF IInv, Types
  <2>11. r.pc = "select" /\ r.held = call[c].held /\ r.pair = call[c].pair
         /\ r.sel = Len(cs) + 1
    BY <1>0, <2>2, <2>3 DEF Calls
  <2>12. Sound(r, cells'[p])
    BY <1>0, <2>2, <2>3, <2>11 DEF Sound, Selecting, FillPCs
  <2>13. \A d \in Callers \ {c} : Sound(call[d], cells'[Home[d]])
    <3> TAKE d \in Callers \ {c}
    <3>1. Sound(call[d], cells[Home[d]]) /\ Home[d] \in Procs
      BY DEF IInv, CallsAreSound
    <3>2. CASE Home[d] = p
      <4>1. cells'[Home[d]] = Append(cs, None)
        BY <3>2, <2>3
      <4>2. call[d].pc \notin FillPCs
        BY <3>1, <3>2, <2>8 DEF Sound, Selecting, FillPCs
      <4>3. call[d] \in Calls
        BY DEF IInv, Types
      <4> QED BY SMTT(30), <3>1, <3>2, <4>1, <4>2, <4>3, <2>2 DEF Sound, Calls
    <3>3. CASE Home[d] # p
      BY <3>1, <3>3, <2>3
    <3> QED BY <3>2, <3>3
  <2>14. CallsAreSound'
    BY <2>10, <2>12, <2>13 DEF CallsAreSound
  <2>15. OneRefreshAtATime'
    BY <2>10, <2>11 DEF IInv, OneRefreshAtATime, Filling
  <2> QED BY <2>6, <2>7, <2>9, <2>14, <2>15 DEF IInv
<1> QED BY <1>2, <1>3

\* Filling a cell gives it the value of a pair; its filler was the only one.
LEMMA FillStep ==
    ASSUME IInv, NEW c \in Callers, NEW g \in Nat, g # None, Fill(c, g),
           call[c].pc \in FillPCs, UNCHANGED <<store, phase, outbox>>
    PROVE  IInv'
<1> USE TokenRefreshAssumption
<1> DEFINE p == Home[c]
<1> DEFINE cs == cells[p]
<1> DEFINE k == call[c].sel
<1> DEFINE r == [call[c] EXCEPT !.pc = "got"]
<1>0. /\ call[c] \in Calls /\ cs \in Seq(Nat) /\ p \in Procs
      /\ Sound(call[c], cs) /\ k \in 1 .. Len(cs)
  BY DEF IInv, Types, CallsAreSound, Sound, Selecting, FillPCs
<1>1. /\ cells' = [cells EXCEPT ![p] = [cs EXCEPT ![k] = g]]
      /\ call' = [call EXCEPT ![c] = r]
  BY DEF Fill, Goto
<1>2. /\ [cs EXCEPT ![k] = g] \in Seq(Nat) /\ Len([cs EXCEPT ![k] = g]) = Len(cs)
      /\ \A i \in 1 .. Len(cs) : [cs EXCEPT ![k] = g][i] = IF i = k THEN g ELSE cs[i]
  BY <1>0
<1>3. cells'[p] = [cs EXCEPT ![k] = g] /\ \A q \in Procs \ {p} : cells'[q] = cells[q]
  BY <1>0, <1>1 DEF IInv, Types
<1>4. r \in Calls
  BY <1>0, Moves DEF PCs
<1>5. \A d \in Callers : call'[d] = IF d = c THEN r ELSE call[d]
  BY <1>1 DEF IInv, Types
<1>6. r.pc = "got" /\ r.held = call[c].held /\ r.pair = call[c].pair /\ r.sel = k
  BY <1>0 DEF Calls
<1>7. Types'
  BY <1>1, <1>2, <1>4 DEF IInv, Types
<1>8. RunningHasACell'
  BY <1>0, <1>2, <1>3 DEF IInv, RunningHasACell
<1>9. OnlyLastIsEmpty'
  <2> SUFFICES ASSUME NEW q \in Procs, NEW i \in 1 .. Len(cells'[q]), cells'[q][i] = None
               PROVE  i = Len(cells'[q])
      BY DEF OnlyLastIsEmpty
  <2>1. CASE q = p
    BY <2>1, <1>2, <1>3 DEF IInv, OnlyLastIsEmpty
  <2>2. CASE q # p
    BY <2>2, <1>3 DEF IInv, OnlyLastIsEmpty
  <2> QED BY <2>1, <2>2
<1>10. Sound(r, cells'[p])
  BY <1>0, <1>2, <1>3, <1>6 DEF Sound, Selecting, FillPCs
<1>11. \A d \in Callers \ {c} : Sound(call[d], cells'[Home[d]])
  <2> TAKE d \in Callers \ {c}
  <2>1. Sound(call[d], cells[Home[d]]) /\ Home[d] \in Procs /\ call[d] \in Calls
    BY DEF IInv, CallsAreSound, Types
  <2>2. CASE Home[d] = p
    <3>1. call[d].pc \notin FillPCs
      BY <2>2 DEF IInv, OneRefreshAtATime, Filling, FillPCs
    <3> QED BY <2>1, <2>2, <3>1, <1>2, <1>3 DEF Sound, Calls, Selecting
  <2>3. CASE Home[d] # p
    BY <2>1, <2>3, <1>3
  <2> QED BY <2>2, <2>3
<1>12. CallsAreSound'
  BY <1>5, <1>10, <1>11 DEF CallsAreSound
<1>13. OneRefreshAtATime'
  BY <1>5, <1>6 DEF IInv, OneRefreshAtATime, Filling
<1> QED BY <1>7, <1>8, <1>9, <1>12, <1>13 DEF IInv

\* The two ends of the closure fill the cell with a pair.
LEMMA FillSteps ==
    ASSUME IInv, NEW c \in Callers, Granted(c) \/ FallBack(c) PROVE IInv'
<1>0. call[c] \in Calls /\ (call[c].pc \in FillPCs => call[c].pair # None)
  BY DEF IInv, Types, CallsAreSound, Sound, Selecting, FillPCs
<1>1. CASE Granted(c)
  <2>1. call[c].pc \in FillPCs /\ call[c].pair + 1 \in Nat /\ call[c].pair + 1 # None
    BY <1>0, <1>1 DEF Granted, FillPCs, Calls, None
  <2> QED BY <1>1, <2>1, FillStep DEF Granted
<1>2. CASE FallBack(c)
  <2>1. call[c].pc \in FillPCs /\ call[c].pair \in Nat /\ call[c].pair # None
    BY <1>0, <1>2 DEF FallBack, FillPCs, Calls
  <2> QED BY <1>2, <2>1, FillStep DEF FallBack
<1> QED BY <1>1, <1>2

\* A process starts with the stored pair in its one cell.
LEMMA StartStep == ASSUME IInv, NEW p \in Procs, Start(p) PROVE IInv'
<1>1. cells'[p] = <<store>> /\ \A q \in Procs \ {p} : cells'[q] = cells[q]
  BY DEF Start, IInv, Types
<1>2. <<store>> \in Seq(Nat) /\ Len(<<store>>) = 1 /\ <<store>>[1] = store /\ store # None
  BY DEF Start, IInv, Types
<1>3. Types'
  BY <1>2 DEF Start, IInv, Types, Phases
<1>4. RunningHasACell'
  BY <1>1, <1>2 DEF Start, IInv, RunningHasACell, Types
<1>5. OnlyLastIsEmpty'
  BY <1>1, <1>2 DEF IInv, OnlyLastIsEmpty
<1>6. \A d \in Callers : Home[d] = p => call[d].pc = "idle"
  BY DEF Start, IInv, RunningHasACell, CallsAreSound, Sound
<1>7. CallsAreSound'
  <2> SUFFICES ASSUME NEW d \in Callers PROVE Sound(call[d], cells'[Home[d]])
      BY DEF CallsAreSound, Start
  <2>1. CASE Home[d] = p
    BY <1>6, <2>1 DEF Sound, Selecting, FillPCs
  <2>2. CASE Home[d] # p
    BY <1>1, <2>2, TokenRefreshAssumption DEF IInv, CallsAreSound
  <2> QED BY <2>1, <2>2
<1>8. OneRefreshAtATime'
  BY DEF Start, IInv, OneRefreshAtATime, Filling
<1> QED BY <1>3, <1>4, <1>5, <1>7, <1>8 DEF IInv

\* A process that ends takes its cells and its calls with it.
LEMMA DownStep ==
    ASSUME IInv, NEW p \in Procs, Down(p), UNCHANGED store PROVE IInv'
<1>1. cells'[p] = <<>> /\ \A q \in Procs \ {p} : cells'[q] = cells[q]
  BY DEF Down, IInv, Types
<1>2. \A d \in Callers : call'[d] = IF Home[d] = p THEN NoCall ELSE call[d]
  BY DEF Down
<1>3. NoCall \in Calls /\ NoCall.pc = "idle"
  BY DEF NoCall, Calls, PCs, Answers, None
<1>4. Types'
  <2>1. call' \in [Callers -> Calls]
    BY <1>3 DEF Down, IInv, Types
  <2> QED BY <2>1 DEF Down, IInv, Types, Phases
<1>5. RunningHasACell'
  BY <1>1 DEF Down, IInv, RunningHasACell, Types
<1>6. OnlyLastIsEmpty'
  BY <1>1 DEF IInv, OnlyLastIsEmpty
<1>7. CallsAreSound'
  <2> SUFFICES ASSUME NEW d \in Callers PROVE Sound(call'[d], cells'[Home[d]])
      BY DEF CallsAreSound
  <2>1. CASE Home[d] = p
    BY <1>2, <1>3, <2>1 DEF Sound, Selecting, FillPCs
  <2>2. CASE Home[d] # p
    BY <1>1, <1>2, <2>2, TokenRefreshAssumption DEF IInv, CallsAreSound
  <2> QED BY <2>1, <2>2
<1>8. OneRefreshAtATime'
  BY <1>2, <1>3 DEF IInv, OneRefreshAtATime, Filling
<1> QED BY <1>4, <1>5, <1>6, <1>7, <1>8 DEF IInv

\* The steps that touch neither the cells nor the callers.
LEMMA QuietSteps ==
    ASSUME IInv, Expire \/ Revoke \/ UNCHANGED vars
                 \/ \E p \in Procs : \/ SkipProbe(p) \/ SaveLatest(p) \/ Save(p)
                                     \/ ForgetRead(p) \/ ForgetLoad(p) \/ ForgetRemove(p)
    PROVE  IInv'
<1>1. CASE Expire \/ Revoke \/ UNCHANGED vars
  BY <1>1, QuietStep DEF Expire, Revoke, vars, IInv, Types
<1>2. ASSUME NEW p \in Procs,
             \/ SkipProbe(p) \/ SaveLatest(p) \/ Save(p)
             \/ ForgetRead(p) \/ ForgetLoad(p) \/ ForgetRemove(p)
      PROVE  IInv'
  <2>1. CASE SkipProbe(p)
    BY <2>1, QuietStep DEF SkipProbe, IInv, Types, Phases
  <2>2. CASE SaveLatest(p)
    <3>1. Current(p) \in Nat
      BY <2>2 DEF SaveLatest, Current, IInv, Types, RunningHasACell
    <3>2. store' \in Nat
      BY <2>2, <3>1 DEF SaveLatest, IInv, Types
    <3>3. outbox' \in [Procs -> Seq(Nat)]
      BY <2>2 DEF SaveLatest, IInv, Types
    <3> QED BY <2>2, <3>2, <3>3, QuietStep DEF SaveLatest, IInv, Types, Phases
  <2>3. CASE Save(p)
    <3>1. outbox[p] \in Seq(Nat) /\ outbox[p] # <<>>
      BY <2>3 DEF Save, IInv, Types
    <3>2. Head(outbox[p]) \in Nat /\ Tail(outbox[p]) \in Seq(Nat)
      BY <3>1
    <3> QED BY <2>3, <3>2, QuietStep DEF Save, IInv, Types
  <2>4. CASE ForgetRead(p) \/ ForgetLoad(p)
    BY <2>4, QuietStep DEF ForgetRead, ForgetLoad, IInv, Types
  <2>5. CASE ForgetRemove(p)
    BY <2>5, QuietStep DEF ForgetRemove, IInv, Types, None
  <2> QED BY <1>2, <2>1, <2>2, <2>3, <2>4, <2>5
<1> QED BY <1>1, <1>2

\* Every step preserves the strengthened invariant.
LEMMA NextInv == IInv /\ [Next]_vars => IInv'
<1> SUFFICES ASSUME IInv, [Next]_vars PROVE IInv'
    OBVIOUS
<1>1. CASE Expire \/ Revoke \/ UNCHANGED vars
  BY <1>1, QuietSteps
<1>2. ASSUME NEW p \in Procs, Start(p) \/ SkipProbe(p) \/ Exit(p) \/ ProcStep(p) PROVE IInv'
  <2>1. CASE Start(p)
    BY <2>1, StartStep
  <2>2. CASE Exit(p) \/ Fail(p)
    BY <2>2, DownStep DEF Exit, Fail
  <2>3. CASE SkipProbe(p) \/ (ProcStep(p) /\ ~Fail(p))
    BY <2>3, QuietSteps DEF ProcStep
  <2> QED BY <1>2, <2>1, <2>2, <2>3 DEF ProcStep
<1>3. ASSUME NEW c \in Callers, Ask(c) \/ Cancel(c) \/ CallStep(c) PROVE IInv'
  BY <1>3, PlainCallSteps, CapturingSteps, BeginInitStep, ReplaceStep, FillSteps DEF CallStep
<1> QED BY <1>1, <1>2, <1>3 DEF Next

\* However many callers of a process see their access token rejected, and
\* whatever is cancelled, lost or restarted, get_refreshed_access_token has
\* at most one refresh_session call of the process on its way.
THEOREM RefreshesAreSerial == Spec => []OneRefreshAtATime
<1>1. IInv => OneRefreshAtATime
  BY DEF IInv
<1> QED BY InitInv, NextInv, <1>1, PTL DEF Spec

-----------------------------------------------------------------------------
(***************************************************************************)
(* The pairs themselves.  No generation anywhere is newer than the server's *)
(* (Pairs), for any number of processes.  Of one process whose calls are    *)
(* neither cut off nor lost (Benign): all who wait wait for the last cell   *)
(* with the pair of the cell before it, because the access token cannot     *)
(* expire again while they are there; so the one that fills it holds the    *)
(* newest pair, its refresh is granted, and the cell gets the next one; and *)
(* the caller that made the cell is still there to tell the listener.       *)
(***************************************************************************)
ForgetPCs == {"listening", "load", "remove", "done"}

Scalars ==
    /\ features \in Modes
    /\ latest \in Gens /\ alive \in BOOLEAN /\ revoked \in BOOLEAN
    /\ signal \in [Procs -> BOOLEAN]
    /\ forget \in [Procs -> [pc : ForgetPCs, rejected : Nat]]
    /\ asks \in 0 .. MaxAsks /\ starts \in 0 .. MaxStarts

KeptPairs ==
    /\ store <= latest
    /\ \A p \in Procs : \A i \in 1 .. Len(cells[p]) : cells[p][i] <= latest
    /\ \A p \in Procs : \A i \in 1 .. Len(outbox[p]) :
          outbox[p][i] # None /\ outbox[p][i] <= latest

CallPairs(c) ==
    /\ call[c].held <= latest /\ call[c].pair <= latest
    /\ call[c].pc = "answered" /\ call[c].answer = "granted" => call[c].pair < latest
    /\ call[c].pc = "got" => cells[Home[c]][call[c].sel] # None
    /\ call[c].pc \notin Selecting => call[c].sel = 0

Pairs == Scalars /\ KeptPairs /\ \A c \in Callers : CallPairs(c)

\* getting up: nobody but the boot caller runs before the process is up
Startup(p) ==
    /\ phase[p] # "refused" /\ ~signal[p] /\ forget[p].pc = "listening"
    /\ phase[p] = "down" => store = latest
    /\ phase[p] = "loaded" => \A c \in MyCalls(p) \ {Boot[p]} : call[c].pc = "idle"
    /\ phase[p] = "ensured" => \A c \in MyCalls(p) : call[c].pc = "idle"

Replacing(c) == call[c].pc \in Selecting /\ call[c].replaced

\* the newest pair is in the last cell, or its refresh is on its way there
Newest(p) ==
    LET v == cells[p]  n == Len(v) IN
    phase[p] # "down" =>
      /\ v[n] # None => latest = v[n] /\ (n >= 2 => v[n] = v[n - 1] + 1)
      /\ v[n] = None =>
           /\ n >= 2
           /\ \/ latest = v[n - 1]
              \/ latest = v[n - 1] + 1 /\ \E c \in MyCalls(p) : call[c].pc = "answered"
           /\ \E c \in MyCalls(p) : Replacing(c)

\* what a caller captured is the pair of the last cell or of the one before it,
\* the server's unless that refresh was granted since
Follows(c) ==
    LET v == cells[Home[c]]  n == Len(v)  r == call[c] IN
    /\ r.pc = "rejected" => r.held < latest \/ ~alive
    /\ r.pc = "snap" => r.seen \in {n - 1, n} /\ r.pair = v[r.seen]
    /\ r.pc \in Selecting => r.sel = n /\ n >= 2 /\ r.pair = v[n - 1]
    /\ r.pc \in Selecting \union {"snap"} => r.held = r.pair /\ (r.held = latest <=> ~alive)
    /\ r.pc = "answered" => r.answer = "granted" /\ latest = r.pair + 1
    /\ r.pc # "fallback"

LastSaved(p) == IF outbox[p] = <<>> THEN store ELSE outbox[p][Len(outbox[p])]

\* the listener was told the newest pair, or the caller that is to tell it is there
Saved(p) ==
    LET v == cells[p]  n == Len(v) IN
    phase[p] = "up" =>
      \/ v[n] # None /\ LastSaved(p) = v[n]
      \/ n >= 2 /\ LastSaved(p) = v[n - 1] /\ \E c \in MyCalls(p) : Replacing(c)

InStep(p) == /\ Startup(p) /\ Newest(p) /\ Saved(p)
             /\ \A c \in MyCalls(p) : Follows(c)

OneProcess == \A p, q \in Procs : p = q

PairsInv == IInv /\ Pairs
OneInv == PairsInv /\ (Benign => \A p \in Procs : InStep(p))

-----------------------------------------------------------------------------
\* What the steps do to the record of a caller and to the cells.
Others(c) == \A d \in Callers \ {c} : call'[d] = call[d]

KeepsFields(c) ==
    /\ call'[c].held = call[c].held /\ call'[c].seen = call[c].seen
    /\ call'[c].pair = call[c].pair /\ call'[c].sel = call[c].sel
    /\ call'[c].replaced = call[c].replaced /\ call'[c].answer = call[c].answer

LEMMA GotoEffect ==
    ASSUME IInv, NEW c \in Callers, NEW pc, Goto(c, pc)
    PROVE  Others(c) /\ KeepsFields(c) /\ call'[c].pc = pc
BY DEF IInv, Types, Calls, Goto, Others, KeepsFields

LEMMA ReturnEffect ==
    ASSUME IInv, NEW c \in Callers, Return(c)
    PROVE  /\ Others(c) /\ call'[c] = NoCall
           /\ NoCall.pc = "idle" /\ NoCall.held = 0 /\ NoCall.pair = 0 /\ NoCall.sel = 0
BY DEF IInv, Types, Return, Others, NoCall, None

LEMMA AskEffect ==
    ASSUME IInv, NEW c \in Callers, Ask(c)
    PROVE  /\ Others(c) /\ call'[c].pc = "asked" /\ call'[c].held = Current(Home[c])
           /\ call'[c].pair = call[c].pair /\ call'[c].sel = call[c].sel
BY DEF IInv, Types, Calls, Ask, Others

LEMMA SnapshotEffect ==
    ASSUME IInv, NEW c \in Callers, Snapshot(c), Current(Home[c]) = call[c].held
    PROVE  /\ Others(c) /\ call'[c].pc = "snap" /\ call'[c].held = call[c].held
           /\ call'[c].seen = Len(cells[Home[c]]) /\ call'[c].pair = Current(Home[c])
           /\ call'[c].sel = call[c].sel
BY DEF IInv, Types, Calls, Snapshot, Others

LEMMA ServeEffect ==
    ASSUME IInv, NEW c \in Callers, Serve(c) \/ Unreachable(c)
    PROVE  /\ Others(c) /\ call'[c].pc = "answered" /\ call[c].pc = "calling"
           /\ call'[c].held = call[c].held /\ call'[c].pair = call[c].pair
           /\ call'[c].sel = call[c].sel /\ call'[c].replaced = call[c].replaced
<1>1. \E answer : call' = [call EXCEPT ![c].pc = "answered", ![c].answer = answer]
  BY DEF Serve, Unreachable
<1>2. PICK answer : call' = [call EXCEPT ![c].pc = "answered", ![c].answer = answer]
  BY <1>1
<1>3. call[c].pc = "calling"
  BY DEF Serve, Unreachable
<1> QED BY <1>2, <1>3 DEF IInv, Types, Calls, Others

LEMMA ReplaceEffect ==
    ASSUME IInv, NEW c \in Callers, Replace(c)
    PROVE  LET p == Home[c]  v == cells[p]  n == Len(v) IN
           /\ Others(c) /\ call[c].pc = "snap" /\ call'[c].pc = "select"
           /\ call'[c].held = call[c].held /\ call'[c].pair = call[c].pair
           /\ IF call[c].seen = n
              THEN /\ call'[c].sel = n + 1 /\ call'[c].replaced = TRUE
                   /\ Len(cells'[p]) = n + 1 /\ cells'[p][n + 1] = None
                   /\ \A i \in 1 .. n : cells'[p][i] = v[i]
                   /\ \A q \in Procs \ {p} : cells'[q] = cells[q]
              ELSE /\ call'[c].sel = n /\ call'[c].replaced = call[c].replaced
                   /\ cells' = cells
<1> DEFINE p == Home[c]
           v == cells[p]
<1>1. p \in Procs /\ v \in Seq(Nat) /\ call[c] \in Calls /\ call[c].pc = "snap"
  BY TokenRefreshAssumption DEF IInv, Types, Replace
<1>2. CASE call[c].seen = Len(v)
  <2>1. /\ cells' = [cells EXCEPT ![p] = Append(v, None)]
        /\ call' = [call EXCEPT ![c].pc = "select", ![c].replaced = TRUE,
                                ![c].sel = Len(v) + 1]
    BY ZenonT(60), <1>2 DEF Replace
  <2>2. /\ Len(Append(v, None)) = Len(v) + 1 /\ Append(v, None)[Len(v) + 1] = None
        /\ \A i \in 1 .. Len(v) : Append(v, None)[i] = v[i]
    BY <1>1, AppendProperties DEF None
  <2>3. cells'[p] = Append(v, None) /\ \A q \in Procs \ {p} : cells'[q] = cells[q]
    BY <1>1, <2>1 DEF IInv, Types
  <2>4. /\ Others(c) /\ call'[c].pc = "select" /\ call'[c].held = call[c].held
        /\ call'[c].pair = call[c].pair /\ call'[c].sel = Len(v) + 1
        /\ call'[c].replaced = TRUE
    BY <2>1 DEF IInv, Types, Calls, Others
  <2> QED BY <1>1, <1>2, <2>2, <2>3, <2>4
<1>3. CASE call[c].seen # Len(v)
  <2>1. cells' = cells /\ call' = [call EXCEPT ![c].pc = "select", ![c].sel = Len(v)]
    BY ZenonT(60), <1>3 DEF Replace
  <2>2. /\ Others(c) /\ call'[c].pc = "select" /\ call'[c].held = call[c].held
        /\ call'[c].pair = call[c].pair /\ call'[c].sel = Len(v)
        /\ call'[c].replaced = call[c].replaced
    BY <2>1 DEF IInv, Types, Calls, Others
  <2> QED BY <1>1, <1>3, <2>1, <2>2
<1> QED BY <1>2, <1>3

LEMMA FillEffect ==
    ASSUME IInv, NEW c \in Callers, NEW g \in Nat, Fill(c, g), call[c].pc \in FillPCs
    PROVE  LET p == Home[c]  v == cells[p]  k == call[c].sel IN
           /\ Others(c) /\ KeepsFields(c) /\ call'[c].pc = "got"
           /\ k \in 1 .. Len(v) /\ Len(cells'[p]) = Len(v)
           /\ \A i \in 1 .. Len(v) : cells'[p][i] = IF i = k THEN g ELSE v[i]
           /\ \A q \in Procs \ {p} : cells'[q] = cells[q]
<1> DEFINE p == Home[c]
           v == cells[p]
           k == call[c].sel
<1>1. p \in Procs /\ v \in Seq(Nat) /\ k \in 1 .. Len(v)
  BY TokenRefreshAssumption DEF IInv, Types, CallsAreSound, Sound, Selecting, FillPCs
<1>2. cells' = [cells EXCEPT ![p] = [v EXCEPT ![k] = g]] /\ Goto(c, "got")
  BY DEF Fill
<1>3. cells'[p] = [v EXCEPT ![k] = g] /\ \A q \in Procs \ {p} : cells'[q] = cells[q]
  BY <1>1, <1>2 DEF IInv, Types
<1>4. /\ Len([v EXCEPT ![k] = g]) = Len(v)
      /\ \A i \in 1 .. Len(v) : [v EXCEPT ![k] = g][i] = IF i = k THEN g ELSE v[i]
  BY <1>1
<1> QED BY <1>1, <1>2, <1>3, <1>4, GotoEffect

-----------------------------------------------------------------------------
\* No generation is newer than the server's.
LEMMA ScalarTypes ==
    ASSUME IInv, Scalars
    PROVE  /\ latest \in Nat \ {0} /\ MaxGen \in Nat /\ store \in Nat
           /\ \A p \in Procs : cells[p] \in Seq(Nat) /\ outbox[p] \in Seq(Nat)
           /\ \A c \in Callers : call[c] \in Calls /\ Home[c] \in Procs
BY TokenRefreshAssumption DEF Scalars, Gens, IInv, Types

\* What a caller has stays no newer than the server when it and its cell stay.
LEMMA CallPairsStay ==
    ASSUME PairsInv, Scalars', latest' >= latest, NEW d \in Callers, call'[d] = call[d],
           \A i \in 1 .. Len(cells[Home[d]]) :
              cells[Home[d]][i] # None => cells'[Home[d]][i] # None
    PROVE  CallPairs(d)'
<1>1. /\ latest \in Nat /\ latest' \in Nat /\ call[d] \in Calls
      /\ CallPairs(d) /\ Sound(call[d], cells[Home[d]])
  BY TokenRefreshAssumption, ScalarTypes DEF PairsInv, Pairs, IInv, CallsAreSound, Scalars, Gens
<1>2. call[d].held \in Nat /\ call[d].pair \in Nat
  BY <1>1 DEF Calls
<1>3. call[d].pc = "got" => call[d].sel \in 1 .. Len(cells[Home[d]])
  BY <1>1 DEF Sound, Selecting
<1> QED BY SMTT(30), <1>1, <1>2, <1>3 DEF CallPairs

\* A step of one caller that leaves the cells, the keyring and the server alone.
LEMMA CallerKeepsPairs ==
    ASSUME PairsInv, Scalars', NEW c \in Callers, Others(c), CallPairs(c)',
           latest' >= latest, store' = store, cells' = cells, outbox' = outbox
    PROVE  Pairs'
<1>1. latest \in Nat /\ latest' \in Nat /\ store \in Nat
      /\ \A p \in Procs : cells[p] \in Seq(Nat) /\ outbox[p] \in Seq(Nat)
  BY ScalarTypes DEF PairsInv, Pairs, Scalars, Gens
<1>2. KeptPairs'
  BY SMTT(30), <1>1 DEF PairsInv, Pairs, KeptPairs
<1>3. \A d \in Callers : CallPairs(d)'
  BY CallPairsStay DEF Others
<1> QED BY <1>2, <1>3 DEF Pairs

\* A call that ends has no pair.
LEMMA EndedHasNoPair ==
    ASSUME PairsInv, Scalars', NEW c \in Callers, Return(c)
    PROVE  CallPairs(c)'
<1>1. latest' \in Nat
  BY TokenRefreshAssumption DEF Scalars, Gens
<1>2. call'[c] = NoCall /\ NoCall.pc = "idle" /\ NoCall.held = 0 /\ NoCall.pair = 0 /\ NoCall.sel = 0
  BY ReturnEffect DEF PairsInv
<1>3. "idle" \notin Selecting
  BY DEF Selecting
<1> QED BY <1>1, <1>2, <1>3 DEF CallPairs

LEMMA ServerSteps ==
    ASSUME PairsInv, IInv', Expire \/ Revoke \/ UNCHANGED vars
    PROVE  Pairs'
<1>1. Scalars' /\ latest' = latest
  BY DEF PairsInv, Pairs, Scalars, Expire, Revoke, vars, server
<1>2. UNCHANGED <<store, cells, outbox, call>>
  BY DEF Expire, Revoke, vars
<1>3. latest \in Nat /\ latest' >= latest
  BY <1>1, ScalarTypes DEF PairsInv, Pairs
<1>4. KeptPairs'
  BY <1>1, <1>2 DEF PairsInv, Pairs, KeptPairs
<1>5. \A d \in Callers : CallPairs(d)'
  BY <1>1, <1>2, <1>3, CallPairsStay
<1> QED BY <1>1, <1>4, <1>5 DEF Pairs

\* The steps of a process: they leave the callers alone, or end them all.
LEMMA ProcessSteps ==
    ASSUME PairsInv, IInv', NEW p \in Procs, Start(p) \/ SkipProbe(p) \/ Exit(p) \/ ProcStep(p)
    PROVE  Pairs'
<1>0. /\ latest \in Nat \ {0} /\ store \in Nat /\ forget[p].pc \in ForgetPCs
      /\ \A q \in Procs : cells[q] \in Seq(Nat) /\ outbox[q] \in Seq(Nat)
      /\ \A c \in Callers : call[c] \in Calls /\ Home[c] \in Procs
      /\ IInv /\ Scalars /\ KeptPairs
  BY ScalarTypes DEF PairsInv, Pairs, Scalars
<1>1. /\ Scalars' /\ latest' = latest
  <2>1. Current(p) \in Nat \/ ~ForgetRead(p)
    BY <1>0 DEF ForgetRead, IInv, Types, Current, RunningHasACell
  <2>0. NoForget \in [pc : ForgetPCs, rejected : Nat]
    BY DEF NoForget, ForgetPCs, None
  <2>2. CASE SkipProbe(p) \/ SaveLatest(p) \/ Save(p)
    BY <1>0, <2>2 DEF Scalars, SkipProbe, SaveLatest, Save, server
  <2>6. CASE Start(p)
    <3>1. signal' \in [Procs -> BOOLEAN] /\ forget' \in [Procs -> [pc : ForgetPCs, rejected : Nat]]
      BY <1>0, <2>0, <2>6 DEF Scalars, Start
    <3>2. starts' \in 0 .. MaxStarts
      BY <1>0, <2>6, TokenRefreshAssumption DEF Scalars, Start
    <3> QED BY <1>0, <2>6, <3>1, <3>2 DEF Scalars, Start, server
  <2>3. CASE Exit(p) \/ Fail(p)
    <3>1. Down(p) /\ UNCHANGED <<features, server, asks, starts>>
      BY <2>3 DEF Exit, Fail
    <3>2. signal' \in [Procs -> BOOLEAN] /\ forget' \in [Procs -> [pc : ForgetPCs, rejected : Nat]]
      BY <1>0, <2>0, <3>1 DEF Scalars, Down
    <3> QED BY <1>0, <3>1, <3>2 DEF Scalars, server
  <2>4. CASE ForgetRead(p)
    BY <1>0, <2>1, <2>4 DEF Scalars, ForgetRead, server, ForgetPCs
  <2>5. CASE ForgetLoad(p) \/ ForgetRemove(p)
    BY ZenonT(60), <1>0, <2>5 DEF Scalars, ForgetLoad, ForgetRemove, server, ForgetPCs
  <2> QED BY <2>2, <2>3, <2>4, <2>5, <2>6 DEF ProcStep
<1>2. CASE SkipProbe(p) \/ ForgetRead(p) \/ ForgetLoad(p)
  <2>1. UNCHANGED <<store, cells, outbox, call>>
    BY <1>2 DEF SkipProbe, ForgetRead, ForgetLoad
  <2>2. KeptPairs'
    BY <1>0, <1>1, <2>1 DEF KeptPairs
  <2>3. \A d \in Callers : CallPairs(d)'
    BY <1>0, <1>1, <2>1, CallPairsStay
  <2> QED BY <1>1, <2>2, <2>3 DEF Pairs
<1>3. CASE SaveLatest(p) \/ Save(p) \/ ForgetRemove(p)
  <2>1. UNCHANGED <<cells, call>>
    BY <1>3 DEF SaveLatest, Save, ForgetRemove
  <2>2. store' <= latest /\ \A q \in Procs : \A i \in 1 .. Len(outbox'[q]) :
                               outbox'[q][i] # None /\ outbox'[q][i] <= latest
    <3>1. CASE SaveLatest(p)
      <4>1. Len(cells[p]) \in 1 .. Len(cells[p])
        BY <1>0, <3>1 DEF SaveLatest, IInv, RunningHasACell
      <4>2. store' <= latest
        BY <1>0, <3>1, <4>1 DEF SaveLatest, KeptPairs, Current
      <4>3. outbox'[p] = <<>> /\ \A q \in Procs \ {p} : outbox'[q] = outbox[q]
        BY <1>0, <3>1 DEF SaveLatest, IInv, Types
      <4> QED BY <1>0, <4>2, <4>3 DEF KeptPairs
    <3>2. CASE Save(p)
      <4>1. outbox[p] \in Seq(Nat) /\ outbox[p] # <<>>
        BY <1>0, <3>2 DEF Save
      <4>2. /\ Head(outbox[p]) = outbox[p][1] /\ Len(Tail(outbox[p])) = Len(outbox[p]) - 1
            /\ \A i \in 1 .. Len(outbox[p]) - 1 : Tail(outbox[p])[i] = outbox[p][i + 1]
        BY <4>1
      <4>3. outbox'[p] = Tail(outbox[p]) /\ \A q \in Procs \ {p} : outbox'[q] = outbox[q]
        BY <1>0, <3>2 DEF Save, IInv, Types
      <4>4. 1 \in 1 .. Len(outbox[p])
        BY <4>1
      <4>5. store' <= latest
        BY <1>0, <3>2, <4>2, <4>4 DEF KeptPairs, Save
      <4>6. ASSUME NEW i \in 1 .. Len(outbox'[p])
            PROVE  outbox'[p][i] # None /\ outbox'[p][i] <= latest
        <5>1. i + 1 \in 1 .. Len(outbox[p]) /\ outbox'[p][i] = outbox[p][i + 1]
          BY <4>1, <4>2, <4>3
        <5> QED BY <1>0, <5>1 DEF KeptPairs
      <4> QED BY <1>0, <4>3, <4>5, <4>6 DEF KeptPairs
    <3>3. CASE ForgetRemove(p)
      BY <1>0, <3>3 DEF ForgetRemove, KeptPairs, None
    <3> QED BY <1>3, <3>1, <3>2, <3>3
  <2>3. KeptPairs'
    BY <1>0, <1>1, <2>1, <2>2 DEF KeptPairs
  <2>4. \A d \in Callers : CallPairs(d)'
    BY <1>0, <1>1, <2>1, CallPairsStay
  <2> QED BY <1>1, <2>3, <2>4 DEF Pairs
<1>4. CASE Start(p)
  <2>1. cells'[p] = <<store>> /\ \A q \in Procs \ {p} : cells'[q] = cells[q]
    BY <1>0, <1>4 DEF Start, IInv, Types
  <2>2. Len(<<store>>) = 1 /\ <<store>>[1] = store /\ Len(cells[p]) = 0
    BY <1>0, <1>4 DEF Start, IInv, RunningHasACell
  <2>3. KeptPairs'
    BY <1>0, <1>1, <1>4, <2>1, <2>2 DEF Start, KeptPairs
  <2>4. \A d \in Callers : CallPairs(d)'
    BY <1>0, <1>1, <1>4, <2>1, <2>2, CallPairsStay DEF Start
  <2> QED BY <1>1, <2>3, <2>4 DEF Pairs
<1>5. CASE Exit(p) \/ Fail(p)
  <2>1. Down(p) /\ store' = store
    BY <1>5 DEF Exit, Fail
  <2>2. /\ cells'[p] = <<>> /\ outbox'[p] = <<>>
        /\ \A q \in Procs \ {p} : cells'[q] = cells[q] /\ outbox'[q] = outbox[q]
    BY <1>0, <2>1 DEF Down, IInv, Types
  <2>3. KeptPairs'
    <3>1. Len(cells'[p]) = 0 /\ Len(outbox'[p]) = 0
      BY <2>2
    <3>2. \A i \in 1 .. 0 : FALSE
      OBVIOUS
    <3> QED BY <1>0, <1>1, <2>1, <2>2, <3>1, <3>2 DEF KeptPairs
  <2>4. ASSUME NEW d \in Callers PROVE CallPairs(d)'
    <3>1. CASE Home[d] = p
      <4>1. call'[d] = NoCall
        BY <2>1, <3>1 DEF Down
      <4> QED BY <1>0, <1>1, <4>1 DEF CallPairs, NoCall, Selecting, None
    <3>2. CASE Home[d] # p
      <4>1. call'[d] = call[d] /\ cells'[Home[d]] = cells[Home[d]]
        BY <1>0, <2>1, <2>2, <3>2 DEF Down
      <4> QED BY <1>0, <1>1, <4>1, CallPairsStay
    <3> QED BY <3>1, <3>2
  <2> QED BY <1>1, <2>3, <2>4 DEF Pairs
<1> QED BY <1>2, <1>3, <1>4, <1>5 DEF ProcStep

\* The steps of a caller.
LEMMA AskKeepsPairs ==
    ASSUME PairsInv, IInv', NEW c \in Callers,
           Ask(c) \/ Cancel(c) \/ Accepted(c) \/ Rejected(c) \/ Snapshot(c)
    PROVE  Pairs'
<1>0. /\ latest \in Nat \ {0} /\ call[c] \in Calls /\ Home[c] \in Procs
      /\ IInv /\ Scalars /\ KeptPairs /\ CallPairs(c)
  BY ScalarTypes DEF PairsInv, Pairs
<1>1. /\ latest' = latest /\ UNCHANGED <<store, cells, outbox>>
      /\ UNCHANGED <<features, alive, revoked, signal, forget, starts>>
      /\ asks' = asks \/ (asks' = asks + 1 /\ asks < MaxAsks)
  BY DEF Ask, Cancel, Accepted, Rejected, Snapshot, server
<1>2. Scalars'
  BY <1>0, <1>1, TokenRefreshAssumption DEF Scalars
<1>3. Others(c) /\ CallPairs(c)'
  <2>1. CASE Return(c)
    BY <1>2, <2>1, ReturnEffect, EndedHasNoPair DEF PairsInv
  <2>2. CASE Rejected(c)
    <3>1. Others(c) /\ KeepsFields(c) /\ call'[c].pc = "rejected" /\ call[c].pc = "asked"
      BY <1>0, <2>2, GotoEffect DEF Rejected
    <3> QED BY <1>0, <1>1, <3>1 DEF CallPairs, KeepsFields, Selecting
  <2>3. CASE Ask(c)
    <3>1. Len(cells[Home[c]]) \in 1 .. Len(cells[Home[c]])
      BY <1>0, <2>3 DEF Ask, IInv, Types, RunningHasACell
    <3>2. Current(Home[c]) <= latest
      BY <1>0, <3>1 DEF KeptPairs, Current
    <3> QED BY <1>0, <1>1, <2>3, <3>2, AskEffect DEF CallPairs, Ask, Selecting
  <2>4. CASE Snapshot(c) /\ ~Return(c)
    <3>1. Current(Home[c]) = call[c].held /\ call[c].pc = "rejected"
      BY <2>4 DEF Snapshot
    <3> QED BY <1>0, <1>1, <2>4, <3>1, SnapshotEffect DEF CallPairs, Selecting
  <2> QED BY <2>1, <2>2, <2>3, <2>4 DEF Cancel, Accepted
<1> QED BY <1>0, <1>1, <1>2, <1>3, CallerKeepsPairs

LEMMA RefreshKeepsPairs ==
    ASSUME PairsInv, IInv', NEW c \in Callers,
           \/ BeginInit(c) \/ GetValue(c) \/ Serve(c) \/ Unreachable(c)
           \/ SignalExpired(c) \/ Broadcast(c)
    PROVE  Pairs'
<1>0. /\ latest \in Nat \ {0} /\ MaxGen \in Nat /\ call[c] \in Calls /\ Home[c] \in Procs
      /\ IInv /\ Scalars /\ KeptPairs /\ CallPairs(c)
      /\ \A p \in Procs : outbox[p] \in Seq(Nat)
  BY ScalarTypes DEF PairsInv, Pairs
<1>1. CASE BeginInit(c) \/ GetValue(c) \/ SignalExpired(c)
  <2>1. /\ UNCHANGED <<features, server, store, cells, outbox, forget, asks, starts>>
        /\ signal' = signal \/ signal' = [signal EXCEPT ![Home[c]] = TRUE]
    BY <1>1 DEF BeginInit, GetValue, SignalExpired
  <2>2. Scalars' /\ latest' = latest
    BY <1>0, <2>1 DEF Scalars, server
  <2>3. \/ call[c].pc = "select" /\ Goto(c, "calling")
        \/ /\ call[c].pc = "select" /\ Goto(c, "got")
           /\ cells[Home[c]][call[c].sel] # None
        \/ call[c].pc = "answered" /\ Goto(c, "fallback")
    BY <1>1 DEF BeginInit, GetValue, SignalExpired
  <2>4. Others(c) /\ CallPairs(c)'
    <3>1. PICK pc \in {"calling", "got", "fallback"} :
             /\ Goto(c, pc) /\ call[c].pc \in Selecting
             /\ pc = "got" => cells[Home[c]][call[c].sel] # None
      BY <2>3 DEF Selecting
    <3>2. Others(c) /\ KeepsFields(c) /\ call'[c].pc = pc /\ pc \in Selecting
      BY <1>0, <3>1, GotoEffect DEF Selecting
    <3> QED BY <1>0, <2>1, <2>2, <3>1, <3>2 DEF CallPairs, KeepsFields
  <2> QED BY <1>0, <2>1, <2>2, <2>4, CallerKeepsPairs
<1>2. CASE Serve(c) \/ Unreachable(c)
  <2>1. /\ latest' = latest \/ (latest' = latest + 1 /\ latest < MaxGen)
        /\ alive' \in BOOLEAN
        /\ UNCHANGED <<features, revoked, store, cells, outbox, signal, forget, asks, starts>>
    BY <1>0, <1>2 DEF Serve, Unreachable, server, Scalars
  <2>2. Scalars' /\ latest' >= latest
    BY <1>0, <2>1 DEF Scalars, Gens
  <2>3. call'[c].answer = "granted" => call[c].pair < latest'
    <3>1. CASE Serve(c) /\ call[c].pair = latest /\ ~revoked
      BY <1>0, <3>1 DEF Serve
    <3>2. CASE Serve(c) /\ ~(call[c].pair = latest /\ ~revoked)
      <4>1. PICK answer \in {"invalid", "error"} :
                call' = [call EXCEPT ![c].pc = "answered", ![c].answer = answer]
        BY <3>2 DEF Serve
      <4> QED BY <1>0, <4>1 DEF IInv, Types, Calls
    <3>3. CASE Unreachable(c)
      BY <1>0, <3>3 DEF Unreachable, IInv, Types, Calls
    <3> QED BY <1>2, <3>1, <3>2, <3>3
  <2>4. Others(c) /\ CallPairs(c)'
    <3>1. "answered" \in Selecting /\ call[c].held \in Nat /\ call[c].pair \in Nat
      BY <1>0 DEF Selecting, Calls
    <3> QED BY <1>0, <1>2, <2>1, <2>2, <2>3, <3>1, ServeEffect DEF CallPairs
  <2> QED BY <2>1, <2>2, <2>4, CallerKeepsPairs
<1>3. CASE Broadcast(c)
  <2>1. Scalars' /\ latest' = latest /\ store' = store /\ cells' = cells
    BY <1>0, <1>3 DEF Broadcast, Scalars, server
  <2> DEFINE got == cells[Home[c]][call[c].sel]
  <2>2. got # None /\ got <= latest /\ got \in Nat
    <3>1. call[c].sel \in 1 .. Len(cells[Home[c]])
      BY <1>0, <1>3 DEF Broadcast, IInv, CallsAreSound, Sound, Selecting
    <3> QED BY SMTT(30), <1>0, <1>3, <3>1, ElementOfSeq DEF Broadcast, CallPairs, KeptPairs, IInv, Types
  <2>3. \A p \in Procs : \A i \in 1 .. Len(outbox'[p]) :
           outbox'[p][i] # None /\ outbox'[p][i] <= latest
    <3>1. CASE outbox' = outbox
      BY <1>0, <3>1 DEF KeptPairs
    <3>2. CASE outbox' # outbox
      <4>1. outbox' = [outbox EXCEPT ![Home[c]] = Append(outbox[Home[c]], got)]
        BY ZenonT(60), <1>3, <3>2 DEF Broadcast
      <4>2. /\ outbox'[Home[c]] = Append(outbox[Home[c]], got)
            /\ \A q \in Procs \ {Home[c]} : outbox'[q] = outbox[q]
        BY <1>0, <4>1 DEF IInv, Types
      <4> HIDE DEF got
      <4>3. /\ Len(outbox'[Home[c]]) = Len(outbox[Home[c]]) + 1
            /\ outbox'[Home[c]][Len(outbox[Home[c]]) + 1] = got
            /\ \A i \in 1 .. Len(outbox[Home[c]]) : outbox'[Home[c]][i] = outbox[Home[c]][i]
        BY <1>0, <2>2, <4>2, AppendProperties
      <4>4. ASSUME NEW i \in 1 .. Len(outbox'[Home[c]])
            PROVE  outbox'[Home[c]][i] # None /\ outbox'[Home[c]][i] <= latest
        <5>1. i \in 1 .. Len(outbox[Home[c]]) \/ i = Len(outbox[Home[c]]) + 1
          BY <1>0, <4>3
        <5> QED BY <1>0, <2>2, <4>3, <5>1 DEF KeptPairs
      <4> QED BY ZenonT(60), <1>0, <4>2, <4>4 DEF KeptPairs
    <3> QED BY <3>1, <3>2
  <2>4. KeptPairs'
    BY <1>0, <2>1, <2>3 DEF KeptPairs
  <2>5. Others(c) /\ CallPairs(c)'
    BY <1>3, <2>1, ReturnEffect, EndedHasNoPair DEF Broadcast, PairsInv
  <2>6. \A d \in Callers : CallPairs(d)'
    BY <1>0, <2>1, <2>5, CallPairsStay DEF Others
  <2> QED BY <2>1, <2>4, <2>6 DEF Pairs
<1> QED BY <1>1, <1>2, <1>3

LEMMA CellsKeepPairs ==
    ASSUME PairsInv, IInv', NEW c \in Callers, Replace(c) \/ Granted(c) \/ FallBack(c)
    PROVE  Pairs'
<1> DEFINE p == Home[c]
           v == cells[p]
<1>0. /\ latest \in Nat \ {0} /\ call[c] \in Calls /\ p \in Procs /\ v \in Seq(Nat)
      /\ IInv /\ Scalars /\ KeptPairs /\ CallPairs(c)
  BY ScalarTypes DEF PairsInv, Pairs
<1>1. Scalars' /\ latest' = latest /\ store' = store /\ outbox' = outbox
  BY <1>0 DEF Replace, Granted, FallBack, Scalars, server
<1>2. CASE Replace(c)
  <2>1. /\ \A i \in 1 .. Len(v) : cells'[p][i] = v[i]
        /\ \A i \in 1 .. Len(cells'[p]) : i \in 1 .. Len(v) \/ cells'[p][i] = 0
        /\ \A q \in Procs \ {p} : cells'[q] = cells[q]
        /\ Others(c) /\ call'[c].pc = "select"
        /\ call'[c].held = call[c].held /\ call'[c].pair = call[c].pair
    <3>1. CASE call[c].seen = Len(v)
      <4>1. /\ Others(c) /\ call'[c].pc = "select"
            /\ call'[c].held = call[c].held /\ call'[c].pair = call[c].pair
            /\ Len(cells'[p]) = Len(v) + 1 /\ cells'[p][Len(v) + 1] = 0
            /\ \A i \in 1 .. Len(v) : cells'[p][i] = v[i]
            /\ \A q \in Procs \ {p} : cells'[q] = cells[q]
        BY <1>0, <1>2, <3>1, ReplaceEffect DEF None
      <4> QED BY <1>0, <4>1
    <3>2. CASE call[c].seen # Len(v)
      BY <1>0, <1>2, <3>2, ReplaceEffect
    <3> QED BY <3>1, <3>2
  <2>2. KeptPairs'
    BY SMTT(30), <1>0, <1>1, <2>1 DEF KeptPairs
  <2>3. CallPairs(c)'
    BY <1>0, <1>1, <2>1 DEF CallPairs, Selecting
  <2>4. \A d \in Callers \ {c} : CallPairs(d)'
    <3> TAKE d \in Callers \ {c}
    <3>1. \A i \in 1 .. Len(cells[Home[d]]) :
             cells[Home[d]][i] # None => cells'[Home[d]][i] # None
      BY <2>1, TokenRefreshAssumption
    <3>2. call'[d] = call[d]
      BY <2>1 DEF Others
    <3> QED BY <1>0, <1>1, <3>1, <3>2, CallPairsStay
  <2> QED BY <1>1, <2>2, <2>3, <2>4 DEF Pairs
<1>3. CASE Granted(c) \/ FallBack(c)
  <2>1. PICK g \in Nat : Fill(c, g) /\ g # None /\ g <= latest /\ call[c].pc \in FillPCs
    <3>1. call[c].pair # None /\ call[c].pair \in Nat /\ call[c].pc \in FillPCs
      BY <1>0, <1>3 DEF Granted, FallBack, IInv, CallsAreSound, Sound, Selecting, FillPCs, Calls
    <3>2. CASE Granted(c)
      <4>1. Fill(c, call[c].pair + 1) /\ call[c].pair < latest
        BY <1>0, <3>2 DEF Granted, CallPairs
      <4> QED BY <1>0, <3>1, <4>1 DEF None
    <3>3. CASE FallBack(c)
      BY <1>0, <3>1, <3>3 DEF FallBack, CallPairs
    <3> QED BY <1>3, <3>2, <3>3
  <2>2. /\ Others(c) /\ KeepsFields(c) /\ call'[c].pc = "got"
        /\ call[c].sel \in 1 .. Len(v) /\ Len(cells'[p]) = Len(v)
        /\ \A i \in 1 .. Len(v) : cells'[p][i] = IF i = call[c].sel THEN g ELSE v[i]
        /\ \A q \in Procs \ {p} : cells'[q] = cells[q]
    BY <1>0, <2>1, FillEffect
  <2>3. KeptPairs'
    BY ZenonT(60), <1>0, <1>1, <2>1, <2>2 DEF KeptPairs
  <2>4. CallPairs(c)'
    BY <1>0, <1>1, <2>1, <2>2 DEF CallPairs, KeepsFields, Selecting
  <2>5. \A d \in Callers \ {c} : CallPairs(d)'
    <3> TAKE d \in Callers \ {c}
    <3>1. \A i \in 1 .. Len(cells[Home[d]]) :
             cells[Home[d]][i] # None => cells'[Home[d]][i] # None
      BY <2>1, <2>2, TokenRefreshAssumption
    <3>2. call'[d] = call[d]
      BY <2>2 DEF Others
    <3> QED BY <1>0, <1>1, <3>1, <3>2, CallPairsStay
  <2> QED BY <1>1, <2>3, <2>4, <2>5 DEF Pairs
<1> QED BY <1>2, <1>3

LEMMA NextKeepsPairs == PairsInv /\ [Next]_vars => PairsInv'
<1> SUFFICES ASSUME PairsInv, [Next]_vars PROVE PairsInv'
    OBVIOUS
<1>1. IInv'
  BY NextInv DEF PairsInv
<1>2. Pairs'
  BY <1>1, ServerSteps, ProcessSteps, AskKeepsPairs, RefreshKeepsPairs, CellsKeepPairs
     DEF Next, CallStep
<1> QED BY <1>1, <1>2 DEF PairsInv

-----------------------------------------------------------------------------
\* One process, benign before and after the step.
Alone(p) == /\ OneProcess /\ PairsInv /\ PairsInv' /\ Benign /\ Benign'
            /\ InStep(p)

LEMMA AloneFacts ==
    ASSUME NEW p \in Procs, Alone(p)
    PROVE  /\ Procs = {p} /\ MyCalls(p) = Callers /\ Boot[p] \in Callers
           /\ latest \in Nat \ {0} /\ store \in Nat /\ alive \in BOOLEAN
           /\ cells[p] \in Seq(Nat) /\ Len(cells[p]) \in Nat /\ outbox[p] \in Seq(Nat)
           /\ phase[p] # "down" <=> Len(cells[p]) > 0
           /\ phase \in [Procs -> Phases] /\ ~revoked
           /\ features \cap {"slow", "cancel", "lose", "exit"} = {}
<1>1. IInv /\ Scalars
  BY DEF Alone, PairsInv, Pairs
<1>2. Procs = {p} /\ \A c \in Callers : Home[c] = p
  BY TokenRefreshAssumption DEF Alone, OneProcess
<1>3. /\ latest \in Nat \ {0} /\ store \in Nat /\ alive \in BOOLEAN
      /\ cells[p] \in Seq(Nat) /\ outbox[p] \in Seq(Nat)
      /\ phase \in [Procs -> Phases]
  BY <1>1, ScalarTypes DEF Scalars, IInv, Types
<1>4. Len(cells[p]) \in Nat /\ (phase[p] # "down" <=> Len(cells[p]) > 0)
  <2>1. cells[p] = <<>> <=> Len(cells[p]) = 0
    BY <1>3, EmptySeq
  <2>2. Len(cells[p]) \in Nat
    BY <1>3
  <2> QED BY <1>1, <2>1, <2>2 DEF IInv, RunningHasACell
<1> QED BY <1>2, <1>3, <1>4, TokenRefreshAssumption DEF MyCalls, Alone, Benign

LEMMA CallerFacts ==
    ASSUME NEW p \in Procs, Alone(p), NEW c \in Callers
    PROVE  /\ Home[c] = p /\ call[c] \in Calls /\ Sound(call[c], cells[p])
           /\ CallPairs(c) /\ Follows(c)
           /\ call[c].held \in Nat /\ call[c].pair \in Nat
<1>1. Home[c] = p /\ c \in MyCalls(p)
  BY TokenRefreshAssumption DEF Alone, OneProcess, MyCalls
<1>2. call[c] \in Calls /\ Sound(call[c], cells[p]) /\ CallPairs(c)
  BY <1>1 DEF Alone, PairsInv, Pairs, IInv, Types, CallsAreSound
<1>3. call[c].held \in Nat /\ call[c].pair \in Nat
  BY <1>2 DEF Calls
<1> QED BY <1>1, <1>2, <1>3 DEF Alone, InStep

LEMMA FollowsStays ==
    ASSUME NEW p \in Procs, Alone(p), NEW c \in Callers, call'[c] = call[c],
           cells'[p] = cells[p], latest' = latest, alive' = alive
    PROVE  Follows(c)'
<1>1. Home[c] = p /\ Follows(c)
  BY CallerFacts
<1> QED BY <1>1 DEF Follows

\* The newest pair stays where it is while the cells and the server stay and the
\* callers who refresh stay, or the cell has its pair.
LEMMA NewestStays ==
    ASSUME NEW p \in Procs, Alone(p), cells'[p] = cells[p], latest' = latest,
           phase'[p] # "down" => phase[p] # "down",
           cells[p][Len(cells[p])] = None =>
              \A c \in Callers : /\ call[c].pc = "answered" => call'[c].pc = "answered"
                                 /\ Replacing(c) => Replacing(c)'
    PROVE  Newest(p)'
<1>1. MyCalls(p) = Callers /\ Newest(p)
  BY AloneFacts DEF Alone, InStep
<1> QED BY <1>1 DEF Newest, MyCalls

\* What a benign process never does.
LEMMA NeverHappens ==
    ASSUME NEW p \in Procs, Alone(p)
    PROVE  /\ ~Revoke /\ ~Exit(p) /\ ~Fail(p)
           /\ ~ForgetRead(p) /\ ~ForgetLoad(p) /\ ~ForgetRemove(p)
           /\ \A c \in Callers : ~Cancel(c) /\ ~Unreachable(c) /\ ~SignalExpired(c) /\ ~FallBack(c)
<1>1. ~Revoke
  BY DEF Alone, Benign, Revoke
<1>2. ~Exit(p)
  BY AloneFacts DEF Exit
<1>3. ~Fail(p) /\ ~ForgetRead(p) /\ ~ForgetLoad(p) /\ ~ForgetRemove(p)
  BY DEF Alone, InStep, Startup, Fail, ForgetRead, ForgetLoad, ForgetRemove
<1>4. ASSUME NEW c \in Callers
      PROVE  ~Cancel(c) /\ ~Unreachable(c) /\ ~SignalExpired(c) /\ ~FallBack(c)
  <2>1. ~Cancel(c) /\ ~Unreachable(c)
    BY AloneFacts DEF Cancel, Unreachable
  <2>2. ~SignalExpired(c) /\ ~FallBack(c)
    BY CallerFacts DEF Follows, SignalExpired, FallBack
  <2> QED BY <2>1, <2>2
<1> QED BY <1>1, <1>2, <1>3, <1>4

\* While the last cell is empty somebody is there to fill it.
LEMMA IdleHasItsPair ==
    ASSUME NEW p \in Procs, Alone(p), phase[p] # "down",
           \A c \in Callers : call[c].pc \notin Selecting
    PROVE  /\ Current(p) = latest /\ Current(p) # None
           /\ Len(cells[p]) \in 1 .. Len(cells[p])
<1>1. Newest(p) /\ MyCalls(p) = Callers /\ Len(cells[p]) \in Nat /\ Len(cells[p]) > 0
  BY AloneFacts DEF Alone, InStep
<1> QED BY <1>1 DEF Newest, Current, Replacing

\* An access token only expires when no caller is inside a refresh.
LEMMA ExpireKeepsStep ==
    ASSUME NEW p \in Procs, Alone(p), Expire PROVE InStep(p)'
<1>1. /\ UNCHANGED <<latest, store, phase, cells, call, outbox, signal, forget>>
      /\ alive' = FALSE /\ \A c \in Callers : call[c].pc \in {"idle", "asked"}
  BY AloneFacts DEF Expire, Settled
<1>2. Startup(p)' /\ Saved(p)'
  BY <1>1 DEF Alone, InStep, Startup, Saved, LastSaved, Replacing, MyCalls
<1>3. Newest(p)'
  BY <1>1, NewestStays DEF Replacing
<1>4. \A c \in Callers : Follows(c)'
  BY <1>1 DEF Follows, Selecting
<1> QED BY <1>2, <1>3, <1>4, AloneFacts DEF InStep, MyCalls

\* The process gets up with the newest pair, and what is saved is the newest pair.
LEMMA ProcessKeepsStep ==
    ASSUME NEW p \in Procs, Alone(p), Start(p) \/ SkipProbe(p) \/ SaveLatest(p) \/ Save(p)
    PROVE  InStep(p)'
<1>0. /\ Procs = {p} /\ MyCalls(p) = Callers /\ Boot[p] \in Callers /\ latest \in Nat \ {0}
      /\ Len(cells[p]) \in Nat /\ outbox[p] \in Seq(Nat) /\ store \in Nat
      /\ phase[p] # "down" <=> Len(cells[p]) > 0
      /\ Startup(p) /\ Newest(p) /\ Saved(p)
  BY AloneFacts DEF Alone, InStep
<1>1. /\ IInv /\ UNCHANGED <<latest, alive, call>>
      /\ MyCalls(p)' = MyCalls(p)
  BY DEF Alone, PairsInv, Start, SkipProbe, SaveLatest, Save, server, MyCalls
<1>2. CASE Start(p)
  <2>1. /\ phase[p] = "down" /\ phase'[p] = "loaded" /\ cells'[p] = <<latest>>
        /\ signal'[p] = FALSE /\ forget'[p].pc = "listening"
    BY <1>0, <1>1, <1>2 DEF Start, Startup, IInv, Types, NoForget, Alone, PairsInv, Pairs, Scalars
  <2>2. Len(<<latest>>) = 1 /\ <<latest>>[1] = latest /\ latest # None
    BY <1>0 DEF None
  <2>3. \A c \in Callers : call[c].pc = "idle"
    BY <1>0, <2>1, CallerFacts DEF Sound
  <2>4. Startup(p)' /\ Saved(p)'
    BY <1>0, <1>1, <2>1, <2>3 DEF Startup, Saved
  <2>5. Newest(p)'
    BY <1>1, <2>1, <2>2 DEF Newest
  <2>6. \A c \in Callers : Follows(c)'
    BY <1>1, <2>3 DEF Follows, Selecting
  <2> QED BY <1>0, <1>1, <2>4, <2>5, <2>6 DEF InStep
<1>3. CASE SkipProbe(p)
  <2>1. /\ UNCHANGED <<store, cells, outbox, signal, forget>>
        /\ phase[p] = "loaded" /\ phase'[p] = "ensured" /\ call[Boot[p]].pc = "idle"
    BY <1>0, <1>3 DEF SkipProbe, Alone, PairsInv, IInv, Types
  <2>2. Startup(p)' /\ Saved(p)'
    BY <1>0, <1>1, <2>1 DEF Startup, Saved
  <2>3. Newest(p)'
    BY <1>1, <2>1, NewestStays DEF Replacing
  <2>4. \A c \in Callers : Follows(c)'
    BY <1>1, <2>1, FollowsStays
  <2> QED BY <1>0, <1>1, <2>2, <2>3, <2>4 DEF InStep
<1>4. CASE SaveLatest(p)
  <2>1. /\ UNCHANGED <<cells, signal, forget>>
        /\ phase[p] = "ensured" /\ phase'[p] = "up" /\ outbox'[p] = <<>>
        /\ store' = IF Current(p) # None THEN Current(p) ELSE store
    BY <1>0, <1>4 DEF SaveLatest, Alone, PairsInv, IInv, Types
  <2>2. \A c \in Callers : call[c].pc = "idle"
    BY <1>0, <2>1 DEF Startup
  <2>3. Current(p) = latest /\ Current(p) # None
    BY <2>1, <2>2, IdleHasItsPair DEF Selecting
  <2>4. Startup(p)' /\ Saved(p)'
    BY <1>0, <1>1, <2>1, <2>3 DEF Startup, Saved, LastSaved, Current
  <2>5. Newest(p)'
    BY <1>1, <2>1, NewestStays DEF Replacing
  <2>6. \A c \in Callers : Follows(c)'
    BY <1>1, <2>1, FollowsStays
  <2> QED BY <1>0, <1>1, <2>4, <2>5, <2>6 DEF InStep
<1>5. CASE Save(p)
  <2>1. /\ UNCHANGED <<cells, phase, signal, forget>> /\ phase[p] = "up"
        /\ outbox[p] # <<>> /\ outbox'[p] = Tail(outbox[p]) /\ store' = Head(outbox[p])
    BY <1>0, <1>5 DEF Save, Alone, PairsInv, IInv, Types
  <2>2. LastSaved(p)' = LastSaved(p)
    <3> DEFINE o == outbox[p]
               t == Tail(outbox[p])
    <3>1. /\ Head(o) = o[1] /\ Len(t) = Len(o) - 1
          /\ \A i \in 1 .. Len(o) - 1 : t[i] = o[i + 1]
          /\ Len(o) \in Nat /\ Len(o) >= 1 /\ t \in Seq(Nat)
      BY <1>0, <2>1
    <3>2. t = <<>> <=> Len(t) = 0
      BY <3>1, EmptySeq
    <3>3. LastSaved(p) = o[Len(o)]
      BY <2>1 DEF LastSaved
    <3>4. LastSaved(p)' = IF t = <<>> THEN o[1] ELSE t[Len(t)]
      BY <2>1, <3>1 DEF LastSaved
    <3> HIDE DEF o, t
    <3>5. CASE Len(o) = 1
      BY <3>1, <3>2, <3>3, <3>4, <3>5
    <3>6. CASE Len(o) > 1
      <4>1. t # <<>> /\ Len(t) \in 1 .. Len(o) - 1 /\ Len(t) + 1 = Len(o)
        BY <3>1, <3>2, <3>6
      <4> QED BY <3>1, <3>3, <3>4, <4>1
    <3> QED BY <3>1, <3>5, <3>6
  <2>3. Startup(p)' /\ Saved(p)'
    BY <1>0, <1>1, <2>1, <2>2 DEF Startup, Saved, Replacing
  <2>4. Newest(p)'
    BY <1>1, <2>1, NewestStays DEF Replacing
  <2>5. \A c \in Callers : Follows(c)'
    BY <1>1, <2>1, FollowsStays
  <2> QED BY <1>0, <1>1, <2>3, <2>4, <2>5 DEF InStep
<1> QED BY <1>2, <1>3, <1>4, <1>5

\* A caller that is in a call is the boot caller, or the process is up.
LEMMA CallerIsUp ==
    ASSUME NEW p \in Procs, Alone(p), NEW c \in Callers, call[c].pc # "idle"
    PROVE  phase[p] = "up" \/ (phase[p] = "loaded" /\ c = Boot[p])
<1>1. Len(cells[p]) > 0 /\ Startup(p) /\ MyCalls(p) = Callers
  BY CallerFacts, AloneFacts DEF Sound, Alone, InStep
<1> QED BY <1>1, AloneFacts DEF Startup, Phases

\* A step of a caller that leaves the cells, the keyring and the server alone.
LEMMA CallerKeepsStep ==
    ASSUME NEW p \in Procs, Alone(p), NEW c \in Callers, Others(c), Follows(c)',
           UNCHANGED <<cells, latest, alive, store, outbox, signal, forget>>,
           \/ phase' = phase /\ (phase[p] = "up" \/ (phase[p] = "loaded" /\ c = Boot[p]))
           \/ phase[p] = "loaded" /\ phase'[p] = "ensured" /\ c = Boot[p] /\ call'[c].pc = "idle",
           call[c].pc # "answered", Replacing(c) => Replacing(c)'
    PROVE  InStep(p)'
<1>1. /\ MyCalls(p) = Callers /\ MyCalls(p)' = MyCalls(p) /\ phase[p] # "down"
      /\ Startup(p) /\ Saved(p) /\ Len(cells[p]) \in Nat
  BY AloneFacts DEF MyCalls, Alone, InStep
<1>2. \A d \in Callers : Replacing(d) => Replacing(d)'
  BY DEF Others, Replacing
<1>3. Startup(p)' /\ Saved(p)'
  BY <1>1, <1>2 DEF Startup, Saved, LastSaved, Others
<1>4. Newest(p)'
  BY <1>1, <1>2, NewestStays DEF Others
<1>5. \A d \in Callers : Follows(d)'
  BY FollowsStays DEF Others
<1> QED BY <1>1, <1>3, <1>4, <1>5 DEF InStep

LEMMA EnsuredEffect ==
    ASSUME NEW p \in Procs, Alone(p), NEW c \in Callers, call[c].pc # "idle",
           NEW ok, Ensured(c, ok), phase[p] = "loaded" => ok
    PROVE  \/ phase' = phase /\ phase[p] = "up"
           \/ phase[p] = "loaded" /\ phase'[p] = "ensured" /\ c = Boot[p]
BY CallerIsUp, AloneFacts, CallerFacts DEF Ensured

LEMMA AskKeepsStep ==
    ASSUME NEW p \in Procs, Alone(p), NEW c \in Callers,
           \/ Ask(c) \/ Accepted(c) \/ Rejected(c) \/ Snapshot(c)
           \/ BeginInit(c) \/ GetValue(c)
    PROVE  InStep(p)'
<1>0. /\ Home[c] = p /\ call[c] \in Calls /\ CallPairs(c) /\ Follows(c)
      /\ Sound(call[c], cells[p]) /\ IInv /\ latest \in Nat \ {0} /\ alive \in BOOLEAN
      /\ Len(cells[p]) \in Nat /\ ~revoked /\ call[c].held \in Nat
  BY AloneFacts, CallerFacts DEF Alone, PairsInv
<1>1. UNCHANGED <<cells, latest, alive, store, outbox, signal, forget>>
  BY DEF Ask, Accepted, Rejected, Snapshot, BeginInit, GetValue, server
<1>2. CASE Ask(c)
  <2>1. Others(c) /\ call'[c].pc = "asked" /\ call[c].pc = "idle" /\ phase' = phase
    BY <1>0, <1>2, AskEffect DEF Ask
  <2>2. Follows(c)' /\ ~Replacing(c)
    BY <2>1 DEF Follows, Selecting, Replacing
  <2>3. phase[p] = "up" \/ (phase[p] = "loaded" /\ c = Boot[p])
    BY <1>0, <1>2 DEF Ask
  <2> QED BY <1>1, <2>1, <2>2, <2>3, CallerKeepsStep
<1>3. CASE Return(c) /\ (Accepted(c) \/ Snapshot(c))
  <2>1. Others(c) /\ call'[c].pc = "idle" /\ call[c].pc \in {"asked", "rejected"}
    BY <1>0, <1>3, ReturnEffect DEF Accepted, Snapshot
  <2>2. Follows(c)' /\ ~Replacing(c)
    BY <2>1 DEF Follows, Selecting, Replacing
  <2>3. \/ phase' = phase /\ phase[p] = "up"
        \/ phase[p] = "loaded" /\ phase'[p] = "ensured" /\ c = Boot[p]
    <3>1. CASE Accepted(c)
      <4>1. Ensured(c, TRUE)
        BY <3>1 DEF Accepted
      <4> QED BY <2>1, <4>1, EnsuredEffect
    <3>2. CASE Snapshot(c) /\ Current(p) # call[c].held
      <4>1. Ensured(c, Current(p) # None)
        BY <1>0, <3>2 DEF Snapshot
      <4>2. phase[p] = "loaded" => Current(p) # None
        <5> SUFFICES ASSUME phase[p] = "loaded" PROVE Current(p) # None
          OBVIOUS
        <5>1. \A d \in Callers : call[d].pc \notin Selecting
          <6>1. c = Boot[p]
            BY <2>1, CallerIsUp
          <6>2. \A d \in Callers \ {c} : call[d].pc = "idle"
            BY <6>1, AloneFacts DEF Alone, InStep, Startup
          <6> QED BY <2>1, <6>2 DEF Selecting
        <5> QED BY <5>1, IdleHasItsPair
      <4> QED BY <2>1, <4>1, <4>2, EnsuredEffect
    <3>3. CASE Snapshot(c) /\ Current(p) = call[c].held
      <4>1. call'[c].pc = "snap"
        BY <1>0, <3>3, SnapshotEffect
      <4> QED BY <2>1, <4>1
    <3> QED BY <1>3, <3>1, <3>2, <3>3
  <2> QED BY <1>1, <2>1, <2>2, <2>3, CallerKeepsStep
<1>4. CASE Rejected(c)
  <2>1. /\ Others(c) /\ KeepsFields(c) /\ call'[c].pc = "rejected" /\ call[c].pc = "asked"
        /\ phase' = phase /\ ~Accepts(call[c].held)
    BY <1>0, <1>4, GotoEffect DEF Rejected
  <2>2. Follows(c)' /\ ~Replacing(c)
    BY <1>0, <1>1, <2>1 DEF Follows, Selecting, Replacing, KeepsFields, Accepts, CallPairs
  <2> QED BY <1>1, <2>1, <2>2, CallerKeepsStep, CallerIsUp
<1>5. CASE Snapshot(c) /\ Current(p) = call[c].held
  <2>1. /\ Others(c) /\ call'[c].pc = "snap" /\ call'[c].held = call[c].held
        /\ call'[c].seen = Len(cells[p]) /\ call'[c].pair = Current(p)
        /\ call[c].pc = "rejected"
    BY <1>0, <1>5, SnapshotEffect DEF Snapshot
  <2>2. phase' = phase
    BY <1>0, <1>5 DEF Snapshot
  <2>3. Current(p) = latest
    <3>1. cells[p][Len(cells[p])] # None /\ phase[p] # "down"
      BY <1>0, <1>5, <2>1, CallerIsUp DEF Current, Sound
    <3> QED BY <3>1 DEF Alone, InStep, Newest, Current
  <2>4. ~alive
    BY <1>0, <1>5, <2>1, <2>3 DEF Follows
  <2>5. Follows(c)'
    <3>1. call'[c].pair = cells[p][Len(cells[p])]
      BY <2>1 DEF Current
    <3> QED BY <1>0, <1>1, <1>5, <2>1, <2>3, <2>4, <3>1 DEF Follows, Selecting
  <2>6. ~Replacing(c)
    BY <2>1 DEF Replacing, Selecting
  <2> QED BY SMTT(30), <1>1, <2>1, <2>2, <2>5, <2>6, CallerKeepsStep, CallerIsUp
<1>6. CASE BeginInit(c) \/ GetValue(c)
  <2>1. PICK pc \in {"calling", "got"} : Goto(c, pc)
    BY <1>6 DEF BeginInit, GetValue
  <2>2. /\ Others(c) /\ KeepsFields(c) /\ call'[c].pc = pc /\ call[c].pc = "select"
        /\ phase' = phase
    BY <1>0, <1>6, <2>1, GotoEffect DEF BeginInit, GetValue
  <2>3. Follows(c)' /\ (Replacing(c) => Replacing(c)')
    BY <1>0, <1>1, <2>1, <2>2 DEF Follows, KeepsFields, Replacing, Selecting
  <2> QED BY <1>1, <2>2, <2>3, CallerKeepsStep, CallerIsUp
<1>7. Snapshot(c) => Return(c) \/ Current(p) = call[c].held
  BY <1>0 DEF Snapshot
<1>8. Accepted(c) => Return(c)
  BY DEF Accepted
<1> QED BY <1>2, <1>3, <1>4, <1>5, <1>6, <1>7, <1>8

\* The caller that fills the last cell has the newest pair: it is granted the next.
LEMMA ServeKeepsStep ==
    ASSUME NEW p \in Procs, Alone(p), NEW c \in Callers, Serve(c)
    PROVE  InStep(p)'
<1> DEFINE v == cells[p]
           n == Len(v)
<1>0. /\ Home[c] = p /\ call[c] \in Calls /\ Follows(c) /\ Sound(call[c], v) /\ IInv
      /\ latest \in Nat \ {0} /\ ~revoked /\ n \in Nat /\ MyCalls(p) = Callers
      /\ v \in Seq(Nat) /\ call[c].pair \in Nat
  BY AloneFacts, CallerFacts DEF Alone, PairsInv
<1>1. call[c].pc = "calling" /\ v[n] = None /\ n >= 2 /\ call[c].pair = v[n - 1]
  BY <1>0 DEF Serve, Follows, Sound, FillPCs, Selecting
<1>2. \A d \in Callers \ {c} : call[d].pc \notin FillPCs
  <2> TAKE d \in Callers \ {c}
  <2>1. Home[d] = p
    BY CallerFacts
  <2> QED BY <1>0, <1>1, <2>1 DEF IInv, OneRefreshAtATime, Filling, FillPCs
<1>3. call[c].pair = latest
  <2>1. \A d \in Callers : call[d].pc # "answered"
    BY <1>1, <1>2 DEF FillPCs
  <2>2. phase[p] # "down"
    BY <1>1, CallerIsUp
  <2> QED BY <1>0, <1>1, <2>1, <2>2 DEF Alone, InStep, Newest
<1>4. /\ latest' = latest + 1 /\ alive' = TRUE
      /\ UNCHANGED <<cells, store, phase, outbox, signal, forget>>
      /\ call' = [call EXCEPT ![c].pc = "answered", ![c].answer = "granted"]
  BY <1>0, <1>3, AloneFacts DEF Serve
<1>5. call'[c].answer = "granted"
  BY <1>0, <1>4 DEF IInv, Types, Calls
<1>6. /\ Others(c) /\ call'[c].pc = "answered"
      /\ call'[c].held = call[c].held /\ call'[c].pair = call[c].pair
      /\ call'[c].sel = call[c].sel /\ call'[c].replaced = call[c].replaced
  BY <1>0, ServeEffect
<1>7. \A d \in Callers : Replacing(d) => Replacing(d)'
  BY <1>6 DEF Others, Replacing, Selecting
<1>8. Startup(p)'
  <2>1. phase[p] = "up" \/ (phase[p] = "loaded" /\ c = Boot[p])
    BY <1>1, CallerIsUp
  <2> QED BY ZenonT(60), <1>0, <1>4, <1>6, <2>1 DEF Alone, InStep, Startup, MyCalls, Others
<1>9. Newest(p)'
  <2>1. phase[p] # "down" /\ Newest(p)
    BY <1>1, CallerIsUp DEF Alone, InStep
  <2>2. PICK d \in Callers : Replacing(d)
    BY <1>0, <1>1, <2>1 DEF Newest
  <2>3. Replacing(d)' /\ d \in MyCalls(p)' /\ c \in MyCalls(p)'
    BY <1>0, <1>7, <2>2 DEF MyCalls
  <2> QED BY <1>1, <1>3, <1>4, <1>6, <2>3 DEF Newest
<1>10. Saved(p)'
  BY <1>4, <1>7 DEF Alone, InStep, Saved, LastSaved, MyCalls
<1>11. Follows(c)'
  <2>1. call[c].sel = n /\ call[c].held = call[c].pair
    BY <1>0, <1>1 DEF Follows, Selecting
  <2>2. cells'[p] = v /\ n >= 2 /\ call'[c].pair = v[n - 1] /\ call'[c].sel = n
    BY <1>1, <1>4, <1>6, <2>1
  <2>3. /\ call'[c].held = call'[c].pair /\ call'[c].held # latest' /\ alive' = TRUE
        /\ latest' = call'[c].pair + 1
    BY <1>0, <1>3, <1>4, <1>6, <2>1
  <2> QED BY <1>0, <1>5, <1>6, <2>2, <2>3 DEF Follows
<1>12. \A d \in Callers \ {c} : Follows(d)'
  <2> TAKE d \in Callers \ {c}
  <2>1. /\ Home[d] = p /\ Follows(d) /\ call[d].held \in Nat /\ call[d].held <= latest
        /\ call'[d] = call[d]
    BY <1>6, CallerFacts DEF CallPairs, Others
  <2>2. call[d].pc # "answered"
    BY <1>2 DEF FillPCs
  <2> QED BY SMTT(30), <1>0, <1>4, <2>1, <2>2 DEF Follows
<1> QED BY <1>0, <1>8, <1>9, <1>10, <1>11, <1>12 DEF InStep, MyCalls

\* The cell gets the newest pair; those who wait for it still follow it.
LEMMA GrantedKeepsStep ==
    ASSUME NEW p \in Procs, Alone(p), NEW c \in Callers, Granted(c)
    PROVE  InStep(p)'
<1> DEFINE v == cells[p]
           n == Len(v)
<1>0. /\ Home[c] = p /\ call[c] \in Calls /\ Follows(c) /\ Sound(call[c], v) /\ IInv
      /\ latest \in Nat \ {0} /\ n \in Nat /\ MyCalls(p) = Callers /\ v \in Seq(Nat)
      /\ call[c].pair \in Nat
  BY AloneFacts, CallerFacts DEF Alone, PairsInv
<1>1. /\ call[c].pc = "answered" /\ call[c].sel = n /\ v[n] = None /\ n >= 2
      /\ call[c].pair = v[n - 1] /\ latest = call[c].pair + 1 /\ call[c].pc \in FillPCs
  BY <1>0 DEF Granted, Follows, Sound, FillPCs, Selecting
<1>2. Fill(c, latest) /\ UNCHANGED <<latest, alive, store, phase, outbox, signal, forget>>
  BY <1>1 DEF Granted, server
<1>3. /\ Others(c) /\ KeepsFields(c) /\ call'[c].pc = "got" /\ Len(cells'[p]) = n
      /\ \A i \in 1 .. n : cells'[p][i] = IF i = n THEN latest ELSE v[i]
  <2>1. PICK g \in Nat : g = latest /\ Fill(c, g) /\ call[c].pc \in FillPCs
    BY <1>0, <1>1, <1>2
  <2>2. IInv
    BY <1>0
  <2>3. /\ Others(c) /\ KeepsFields(c) /\ call'[c].pc = "got"
        /\ Len(cells'[Home[c]]) = Len(cells[Home[c]])
        /\ \A i \in 1 .. Len(cells[Home[c]]) :
              cells'[Home[c]][i] = IF i = call[c].sel THEN g ELSE cells[Home[c]][i]
    BY <2>1, <2>2, FillEffect
  <2> QED BY <1>0, <1>1, <2>1, <2>3
<1>4. /\ n \in 1 .. n /\ n - 1 \in 1 .. n /\ cells'[p][n] = latest
      /\ cells'[p][n - 1] = v[n - 1] /\ latest # None
  <2>1. n \in 1 .. n /\ n - 1 \in 1 .. n /\ n - 1 # n /\ latest # None
    BY SMTT(30), <1>0, <1>1 DEF None
  <2> QED BY <1>3, <2>1
<1>5. \A d \in Callers : Replacing(d) => Replacing(d)'
  BY <1>3 DEF Others, KeepsFields, Replacing, Selecting
<1>6. phase[p] = "up" \/ (phase[p] = "loaded" /\ c = Boot[p])
  BY <1>1, CallerIsUp
<1>7. Startup(p)'
  BY <1>0, <1>2, <1>3, <1>6 DEF Alone, InStep, Startup, MyCalls, Others
<1>8. Newest(p)'
  BY <1>1, <1>2, <1>3, <1>4 DEF Newest
<1>9. Saved(p)'
  <2>1. Saved(p)
    BY DEF Alone, InStep
  <2> QED BY <1>1, <1>2, <1>3, <1>4, <1>5, <2>1 DEF Saved, LastSaved, MyCalls
<1>10. Follows(c)'
  <2>1. call[c].sel = n /\ call[c].held = call[c].pair /\ (call[c].held = latest <=> ~alive)
    BY <1>0, <1>1 DEF Follows, Selecting
  <2> QED BY <1>0, <1>1, <1>2, <1>3, <1>4, <2>1 DEF Follows, KeepsFields, Selecting
<1>11. \A d \in Callers \ {c} : Follows(d)'
  <2> TAKE d \in Callers \ {c}
  <2>1. /\ Home[d] = p /\ Follows(d) /\ Sound(call[d], v) /\ call[d] \in Calls
        /\ call'[d] = call[d]
    BY <1>3, CallerFacts DEF Others
  <2>2. call[d].pc = "snap" => call[d].seen = n - 1
    BY <1>1, <2>1 DEF Follows, Sound
  <2> QED BY <1>1, <1>2, <1>3, <1>4, <2>1, <2>2 DEF Follows
<1> QED BY <1>0, <1>7, <1>8, <1>9, <1>10, <1>11 DEF InStep, MyCalls

\* Only with the newest pair, expired, is the cell replaced: nobody waits then, and
\* whoever captured a cell captured the last one.
LEMMA ReplaceKeepsStep ==
    ASSUME NEW p \in Procs, Alone(p), NEW c \in Callers, Replace(c)
    PROVE  InStep(p)'
<1> DEFINE v == cells[p]
           n == Len(v)
<1>0. /\ Home[c] = p /\ call[c] \in Calls /\ Follows(c) /\ Sound(call[c], v) /\ IInv
      /\ latest \in Nat \ {0} /\ n \in Nat /\ MyCalls(p) = Callers /\ v \in Seq(Nat)
      /\ call[c].pc = "snap" /\ Others(c) /\ call'[c].pc = "select"
      /\ call'[c].held = call[c].held /\ call'[c].pair = call[c].pair
  BY ZenonT(60), AloneFacts, CallerFacts, ReplaceEffect DEF Alone, PairsInv, Replace
<1>1. /\ UNCHANGED <<latest, alive, store, phase, outbox, signal, forget>>
      /\ MyCalls(p)' = Callers
  BY <1>0 DEF Replace, server, MyCalls
<1>2. phase[p] = "up" \/ (phase[p] = "loaded" /\ c = Boot[p])
  BY <1>0, CallerIsUp
<1>3. CASE call[c].seen # n
  <2>1. call'[c].sel = n /\ call'[c].replaced = call[c].replaced /\ cells' = cells
    BY <1>0, <1>3, ReplaceEffect
  <2>2. call[c].seen = n - 1 /\ call[c].pair = v[n - 1] /\ n >= 2
    BY SMTT(30), <1>0, <1>3 DEF Follows, Sound
  <2>3. Follows(c)'
    BY <1>0, <1>1, <2>1, <2>2 DEF Follows, Selecting
  <2>4. call[c].pc # "answered" /\ (Replacing(c) => Replacing(c)')
    BY <1>0, <2>1 DEF Replacing, Selecting
  <2> QED BY <1>0, <1>1, <1>2, <2>1, <2>3, <2>4, CallerKeepsStep
<1>4. CASE call[c].seen = n
  <2>1. /\ call'[c].sel = n + 1 /\ call'[c].replaced = TRUE
        /\ Len(cells'[p]) = n + 1 /\ cells'[p][n + 1] = None
        /\ \A i \in 1 .. n : cells'[p][i] = v[i]
    BY <1>0, <1>4, ReplaceEffect
  <2>2. /\ v[n] # None /\ n >= 1 /\ latest = v[n] /\ (n >= 2 => v[n] = v[n - 1] + 1)
        /\ call[c].pair = v[n] /\ call[c].held = v[n] /\ alive = FALSE
    <3>1. v[n] # None /\ n >= 1 /\ call[c].pair = v[n] /\ call[c].held = v[n]
          /\ (call[c].held = latest <=> ~alive)
      BY <1>0, <1>4 DEF Sound, Follows, Selecting
    <3>2. latest = v[n] /\ (n >= 2 => v[n] = v[n - 1] + 1)
      BY <1>2, <3>1 DEF Alone, InStep, Newest
    <3> QED BY <3>1, <3>2, AloneFacts
  <2>3. /\ (n + 1) - 1 = n /\ n \in 1 .. n /\ cells'[p][n] = v[n]
    BY <1>0, <2>1, <2>2
  <2>4. ASSUME NEW d \in Callers \ {c}
        PROVE  /\ call[d].pc \notin Selecting
               /\ call[d].pc = "snap" => call[d].seen = n
    <3>1. Follows(d) /\ Home[d] = p /\ call[d].held \in Nat /\ v[n] \in Nat
      BY <1>0, <2>2, CallerFacts
    <3>2. call[d].pc \in Selecting \union {"snap"} => call[d].held = latest
      BY <2>2, <3>1 DEF Follows
    <3>3. call[d].pc \notin Selecting
      <4> SUFFICES ASSUME call[d].pc \in Selecting PROVE FALSE
        OBVIOUS
      <4>1. n >= 2 /\ call[d].held = v[n - 1] /\ call[d].held = latest
        BY <3>1, <3>2 DEF Follows
      <4> QED BY <2>2, <3>1, <4>1
    <3>4. call[d].pc = "snap" => call[d].seen = n
      <4> SUFFICES ASSUME call[d].pc = "snap", call[d].seen # n PROVE FALSE
        OBVIOUS
      <4>1. call[d].seen = n - 1 /\ call[d].held = v[n - 1] /\ call[d].held = latest
        BY <3>1, <3>2 DEF Follows
      <4>2. n >= 2
        BY <1>0, <4>1, CallerFacts DEF Sound
      <4> QED BY <2>2, <3>1, <4>1, <4>2
    <3> QED BY <3>3, <3>4
  <2>5. Startup(p)'
    BY <1>0, <1>1, <1>2 DEF Alone, InStep, Startup, Others
  <2>6. Replacing(c)'
    BY <1>0, <2>1 DEF Replacing, Selecting
  <2>7. Newest(p)'
    BY <1>0, <1>1, <2>1, <2>2, <2>3, <2>6 DEF Newest
  <2>8. Saved(p)'
    <3>1. \A d \in Callers : ~Replacing(d)
      BY <1>0, <2>4 DEF Replacing, Selecting
    <3>2. phase[p] = "up" => LastSaved(p) = v[n]
      BY <1>0, <3>1 DEF Alone, InStep, Saved
    <3> QED BY <1>0, <1>1, <2>1, <2>2, <2>3, <2>6, <3>2 DEF Saved, LastSaved
  <2>9. Follows(c)'
    BY <1>0, <1>1, <2>1, <2>2, <2>3 DEF Follows, Selecting
  <2>10. \A d \in Callers \ {c} : Follows(d)'
    <3> TAKE d \in Callers \ {c}
    <3>1. Follows(d) /\ Home[d] = p /\ call'[d] = call[d]
      BY <1>0, CallerFacts DEF Others
    <3>2. Len(cells'[p]) = n + 1 /\ Home[d] = p
      BY <2>1, <3>1
    <3>3. call[d].pc = "snap" => call[d].seen = (n + 1) - 1 /\ call[d].pair = cells'[p][n]
      BY <2>3, <2>4, <3>1 DEF Follows
    <3>4. call[d].pc \notin Selecting /\ (call[d].pc = "snap" => call[d].seen = n)
      BY <2>4
    <3> QED BY SMTT(30), <1>0, <1>1, <2>3, <3>1, <3>2, <3>3, <3>4 DEF Follows
  <2> QED BY <1>1, <2>5, <2>7, <2>8, <2>9, <2>10 DEF InStep
<1> QED BY SMTT(30), <1>3, <1>4

\* The caller that made the cell tells the listener its pair.
LEMMA BroadcastKeepsStep ==
    ASSUME NEW p \in Procs, Alone(p), NEW c \in Callers, Broadcast(c)
    PROVE  InStep(p)'
<1> DEFINE v == cells[p]
           n == Len(v)
<1>0. /\ Home[c] = p /\ call[c] \in Calls /\ Follows(c) /\ CallPairs(c) /\ IInv
      /\ latest \in Nat \ {0} /\ n \in Nat /\ MyCalls(p) = Callers /\ v \in Seq(Nat)
      /\ outbox[p] \in Seq(Nat) /\ call[c].pc = "got" /\ call[c].pair \in Nat
  BY AloneFacts, CallerFacts DEF Alone, PairsInv, Broadcast
<1>1. /\ UNCHANGED <<latest, alive, store, cells, signal, forget>>
      /\ MyCalls(p)' = Callers
  BY <1>0 DEF Broadcast, server, MyCalls
<1>2. /\ call[c].sel = n /\ n >= 2 /\ call[c].pair = v[n - 1] /\ call[c].held = call[c].pair
      /\ v[n] # None
  BY <1>0 DEF Follows, Selecting, CallPairs
<1>3. latest = v[n] /\ v[n] = v[n - 1] + 1 /\ v[n] # call[c].pair /\ v[n] \in Nat
  <2>1. phase[p] # "down" /\ Newest(p)
    BY <1>0, CallerIsUp DEF Alone, InStep
  <2> QED BY SMTT(30), <1>0, <1>2, <2>1 DEF Newest
<1>4. Others(c) /\ call'[c].pc = "idle"
  BY <1>0, ReturnEffect DEF Broadcast
<1>5. \/ phase' = phase /\ phase[p] = "up"
      \/ phase[p] = "loaded" /\ phase'[p] = "ensured" /\ c = Boot[p]
  <2>1. Ensured(c, v[n] # call[c].held) /\ v[n] # call[c].held
    BY <1>0, <1>2, <1>3 DEF Broadcast
  <2> QED BY <1>0, <2>1, EnsuredEffect
<1>6. Startup(p)'
  BY <1>0, <1>1, <1>4, <1>5 DEF Alone, InStep, Startup, Others
<1>7. Newest(p)'
  <2>1. phase'[p] # "down" => phase[p] # "down"
    BY <1>5
  <2> QED BY <1>1, <1>2, <2>1, NewestStays
<1>8. Saved(p)'
  <2> SUFFICES ASSUME phase'[p] = "up"
               PROVE  \/ LastSaved(p)' = v[n]
                      \/ LastSaved(p)' = v[n - 1] /\ \E d \in Callers : Replacing(d)'
    BY <1>1, <1>2 DEF Saved
  <2>1. Saved(p) /\ phase[p] = "up"
    BY <1>5 DEF Alone, InStep
  <2>2. CASE call[c].replaced
    <3>1. outbox' = [outbox EXCEPT ![p] = Append(outbox[p], v[n])]
      BY <1>0, <1>2, <1>3, <2>2, ZenonT(60) DEF Broadcast
    <3>2. outbox'[p] = Append(outbox[p], v[n])
      BY <1>0, <3>1 DEF IInv, Types
    <3> DEFINE o == outbox[p]
               g == v[n]
    <3>3. o \in Seq(Nat) /\ g \in Nat /\ outbox'[p] = Append(o, g)
      BY <1>0, <1>3, <3>2
    <3> HIDE DEF o, g
    <3>4. /\ outbox'[p] # <<>> /\ Len(outbox'[p]) = Len(o) + 1
          /\ outbox'[p][Len(o) + 1] = g
      BY <3>3, AppendProperties
    <3> QED BY <3>4 DEF LastSaved, g
  <2>3. CASE ~call[c].replaced
    <3>1. outbox' = outbox
      BY <2>3 DEF Broadcast
    <3>2. LastSaved(p)' = LastSaved(p)
      BY <1>1, <3>1 DEF LastSaved
    <3>3. \A d \in Callers : Replacing(d) => Replacing(d)'
      BY <1>4, <2>3 DEF Others, Replacing
    <3> QED BY <1>0, <2>1, <3>2, <3>3 DEF Saved
  <2> QED BY <2>2, <2>3
<1>9. Follows(c)'
  BY <1>4 DEF Follows, Selecting
<1>10. \A d \in Callers : Follows(d)'
  BY <1>1, <1>4, <1>9, FollowsStays DEF Others
<1> QED BY <1>1, <1>6, <1>7, <1>8, <1>10 DEF InStep

-----------------------------------------------------------------------------
LEMMA StartsInStep == Init => OneInv
<1> SUFFICES ASSUME Init PROVE OneInv
    OBVIOUS
<1> USE TokenRefreshAssumption
<1>1. IInv
  BY InitInv
<1>2. Scalars
  <2>1. 1 \in Gens /\ 0 \in 0 .. MaxAsks /\ 0 \in 0 .. MaxStarts
    BY DEF Gens
  <2>2. NoForget \in [pc : ForgetPCs, rejected : Nat]
    BY DEF NoForget, ForgetPCs, None
  <2>3. features \in Modes /\ latest = 1 /\ alive = TRUE /\ revoked = FALSE /\ asks = 0 /\ starts = 0
    BY DEF Init
  <2>4. signal \in [Procs -> BOOLEAN] /\ forget \in [Procs -> [pc : ForgetPCs, rejected : Nat]]
    BY <2>2 DEF Init
  <2> QED BY <2>1, <2>3, <2>4 DEF Scalars
<1>3. \A p \in Procs : Len(cells[p]) = 0 /\ Len(outbox[p]) = 0
  BY DEF Init
<1>4. \A c \in Callers : call[c].pc = "idle" /\ call[c].held = 0 /\ call[c].pair = 0 /\ call[c].sel = 0
  BY DEF Init, NoCall, None
<1>5. Pairs
  <2>1. \A i \in 1 .. 0 : FALSE
    OBVIOUS
  <2>2. KeptPairs
    BY <1>3, <2>1 DEF Init, KeptPairs
  <2>3. \A c \in Callers : CallPairs(c)
    BY <1>4 DEF Init, CallPairs
  <2> QED BY <1>2, <2>2, <2>3 DEF Pairs
<1>6. \A p \in Procs : InStep(p)
  BY ZenonT(60), <1>4 DEF Init, InStep, Startup, Newest, Saved, Follows, Selecting, NoForget, MyCalls
<1> QED BY <1>1, <1>5, <1>6 DEF OneInv, PairsInv

LEMMA NextKeepsStep == OneProcess /\ OneInv /\ [Next]_vars => OneInv'
<1> SUFFICES ASSUME OneProcess, OneInv, [Next]_vars PROVE OneInv'
    OBVIOUS
<1>1. PairsInv /\ PairsInv'
  BY NextKeepsPairs DEF OneInv
<1>2. ASSUME Benign', NEW p \in Procs
      PROVE  InStep(p)'
  <2>1. Benign
    <3>1. features' = features /\ (revoked' = revoked \/ revoked' = TRUE)
      BY ZenonT(60) DEF Next, Expire, Revoke, Start, SkipProbe, Exit, ProcStep, SaveLatest, Save,
             ForgetRead, ForgetLoad, ForgetRemove, Fail, Ask, Cancel, CallStep, Accepted,
             Rejected, Snapshot, Replace, BeginInit, GetValue, Serve, Unreachable, Granted,
             SignalExpired, FallBack, Broadcast, server, vars
    <3> QED BY <1>2, <3>1 DEF Benign
  <2>2. Alone(p)
    BY <1>1, <1>2, <2>1 DEF Alone, OneInv
  <2>3. CASE UNCHANGED vars
    <3>1. /\ UNCHANGED <<latest, alive, store, phase, cells, call, outbox, signal, forget>>
      BY <2>3 DEF vars, server
    <3>2. InStep(p)
      BY <2>2 DEF Alone
    <3> QED BY <3>1, <3>2 DEF InStep, Startup, Newest, Saved, LastSaved, Follows, Replacing, MyCalls
  <2>4. CASE Next
    <3>1. \A q \in Procs : q = p
      BY DEF OneProcess
    <3>2. CASE Expire \/ Revoke
      BY <2>2, <3>2, NeverHappens, ExpireKeepsStep
    <3>3. CASE Start(p) \/ SkipProbe(p) \/ Exit(p) \/ ProcStep(p)
      BY <2>2, <3>3, NeverHappens, ProcessKeepsStep DEF ProcStep
    <3>4. ASSUME NEW c \in Callers, Ask(c) \/ Cancel(c) \/ CallStep(c) PROVE InStep(p)'
      BY <2>2, <3>4, NeverHappens, AskKeepsStep, ServeKeepsStep, GrantedKeepsStep,
         ReplaceKeepsStep, BroadcastKeepsStep DEF CallStep
    <3> QED BY <2>4, <3>1, <3>2, <3>3, <3>4 DEF Next
  <2> QED BY <2>3, <2>4
<1> QED BY <1>1, <1>2 DEF OneInv

LEMMA PairsAreTyped == PairsInv => TypeOK
<1> SUFFICES ASSUME PairsInv PROVE TypeOK
    OBVIOUS
<1>1. IInv /\ Scalars /\ KeptPairs /\ \A c \in Callers : CallPairs(c)
  BY DEF PairsInv, Pairs
<1>2. /\ latest \in Nat \ {0} /\ MaxGen \in Nat /\ store \in Nat /\ latest <= MaxGen
      /\ \A p \in Procs : cells[p] \in Seq(Nat) /\ outbox[p] \in Seq(Nat)
      /\ \A c \in Callers : call[c] \in Calls /\ Home[c] \in Procs
  BY <1>1, ScalarTypes DEF Scalars, Gens
<1>3. store \in Gens \union {None}
  BY <1>1, <1>2 DEF KeptPairs, Gens, None
<1>4. ASSUME NEW p \in Procs
      PROVE  /\ cells[p] \in Seq(Gens \union {None}) /\ outbox[p] \in Seq(Gens)
             /\ phase[p] # "down" <=> cells[p] # <<>>
  <2>1. \A i \in 1 .. Len(cells[p]) : cells[p][i] \in Gens \union {None}
    BY <1>1, <1>2, ElementOfSeq DEF KeptPairs, Gens, None
  <2>2. \A i \in 1 .. Len(outbox[p]) : outbox[p][i] \in Gens
    BY SMTT(30), <1>1, <1>2, ElementOfSeq DEF KeptPairs, Gens, None
  <2>3. cells[p] \in [1 .. Len(cells[p]) -> Gens \union {None}] /\ Len(cells[p]) \in Nat
    BY <1>2, <2>1, LenProperties
  <2>4. outbox[p] \in [1 .. Len(outbox[p]) -> Gens] /\ Len(outbox[p]) \in Nat
    BY <1>2, <2>2, LenProperties
  <2>5. cells[p] \in Seq(Gens \union {None})
    BY <2>3, SeqDef
  <2>6. outbox[p] \in Seq(Gens)
    BY <2>4, SeqDef
  <2> QED BY <1>1, <2>5, <2>6 DEF IInv, RunningHasACell
<1>5. ASSUME NEW c \in Callers
      PROVE  call[c].pc \in PCs /\ call[c].sel \in 0 .. Len(cells[Home[c]])
  BY <1>1, <1>2 DEF CallPairs, IInv, CallsAreSound, Sound, Calls
<1>6. \A p \in Procs : forget[p].pc \in ForgetPCs
  BY <1>1 DEF Scalars
<1> QED BY <1>1, <1>3, <1>4, <1>5, <1>6 DEF TypeOK, Scalars, IInv, Types, Phases, PCs, ForgetPCs

(* The tokens of a process that gets through unharmed: when nothing is under way the
   pair in memory and the pair in the keyring are the pair the server gave last, and
   nobody is told to sign out, for any number of callers and refreshes (auth.rs,
   get_refreshed_access_token; credentials.rs, save_session_tokens_on_refresh). *)
THEOREM TokensStaySound == OneProcess => (Spec => []TokensAreSound)
<1> SUFFICES ASSUME OneProcess PROVE Spec => []TokensAreSound
    OBVIOUS
<1>1. OneInv => TokensAreSound
  <2> SUFFICES ASSUME OneInv PROVE TokensAreSound
      OBVIOUS
  <2>1. TypeOK
    BY PairsAreTyped DEF OneInv
  <2>2. NotToldExpired
    BY DEF NotToldExpired, OneInv, InStep, Startup
  <2>3. QuietMeansStored
    <3> SUFFICES ASSUME Benign, NEW p \in Procs, Quiet(p)
                 PROVE  Current(p) = latest /\ store = latest
        BY DEF QuietMeansStored
    <3>1. InStep(p) /\ \A c \in MyCalls(p) : ~Replacing(c)
      BY DEF OneInv, Quiet, Replacing, Selecting
    <3> QED BY <3>1 DEF InStep, Newest, Saved, LastSaved, Quiet, Current
  <2> QED BY <2>1, <2>2, <2>3 DEF TokensAreSound
<1> QED BY StartsInStep, NextKeepsStep, <1>1, PTL DEF Spec
=============================================================================
