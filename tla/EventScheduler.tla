--------------------------- MODULE EventScheduler ---------------------------
(***************************************************************************)
(* EventScheduler (crates/proton-drive-sdk/src/event_scheduler.rs): polls   *)
(* each tree event scope by calling a callback, from a task per scope.      *)
(* The own volume polls in the foreground (every 30 s), at most one shared  *)
(* scope joins it, and the others poll in the background (every 10 min).    *)
(*                                                                         *)
(* The map of scopes is behind a mutex, so each call of the API is a step.  *)
(* Removing a scope drops the sender of its task's command channel; the     *)
(* task finds out when it next waits, so tasks of a scope that was removed  *)
(* and added again can overlap: each scope has Slots for them.              *)
(***************************************************************************)
EXTENDS Naturals, SequencesExt

CONSTANTS Scopes,       \* tree event scope ids
          Own,          \* own_volume_id
          Slots,        \* bound: tasks of one scope alive at a time
          MaxCommands   \* bound: commands in one (unbounded) channel

VARIABLES at,        \* what the task does: "none", "due" (about to poll),
                     \* "callback" or "timer" (in select!)
          open,      \* the scope is in the map, with this task's sender
          fg,        \* is_foreground
          commands,  \* the commands in the channel
          round      \* flips when a timer is restarted without a poll

vars == <<at, open, fg, commands, round>>

Tasks == Scopes \X Slots
ScopeOf(t) == t[1]
Shared(t) == ScopeOf(t) # Own
TasksOf(s) == {s} \X Slots
Opened == {t \in Tasks : open[t]}
Has(s) == \E t \in TasksOf(s) : open[t]
TaskOf(s) == CHOOSE t \in TasksOf(s) : open[t]

Init == /\ at = [t \in Tasks |-> "none"]
        /\ open = [t \in Tasks |-> FALSE]
        /\ fg = [t \in Tasks |-> FALSE]
        /\ commands = [t \in Tasks |-> <<>>]
        /\ round = [t \in Tasks |-> 0]

-----------------------------------------------------------------------------
(* The API. *)

\* add_scope, of a scope that is not in the map.
AddScope(s) ==
    /\ ~Has(s)
    /\ \E t \in TasksOf(s) :
          /\ at[t] = "none"
          /\ at' = [at EXCEPT ![t] = "due"]
          /\ open' = [open EXCEPT ![t] = TRUE]
          /\ fg' = [fg EXCEPT ![t] = (s = Own)]
          /\ commands' = [commands EXCEPT ![t] = <<>>]
          /\ round' = [round EXCEPT ![t] = 0]

\* Mutant of SetForeground: the other foreground scope keeps its interval.
MutSetForeground(s) ==
    /\ Has(s)
    /\ LET t == TaskOf(s) IN
       /\ Shared(t) /\ ~fg[t]
       /\ Len(commands[t]) < MaxCommands
       /\ fg' = [fg EXCEPT ![t] = TRUE]
       /\ commands' = [commands EXCEPT ![t] = Append(@, "PollNow")]
    /\ UNCHANGED <<at, open, round>>

\* set_foreground: the other shared scopes go to the background.
SetForeground(s) ==
    /\ Has(s)
    /\ LET t == TaskOf(s)
           others == {o \in Opened : Shared(o) /\ fg[o]}
       IN
       /\ Shared(t) /\ ~fg[t]
       /\ \A o \in others \cup {t} : Len(commands[o]) < MaxCommands
       /\ fg' = [o \in Tasks |-> IF o = t THEN TRUE
                                 ELSE IF o \in others THEN FALSE ELSE fg[o]]
       /\ commands' = [o \in Tasks |->
              IF o = t THEN Append(commands[o], "PollNow")
              ELSE IF o \in others THEN Append(commands[o], "Reschedule")
              ELSE commands[o]]
    /\ UNCHANGED <<at, open, round>>

\* set_background
SetBackground(s) ==
    /\ Has(s)
    /\ LET t == TaskOf(s) IN
       /\ Shared(t) /\ fg[t] /\ Len(commands[t]) < MaxCommands
       /\ fg' = [fg EXCEPT ![t] = FALSE]
       /\ commands' = [commands EXCEPT ![t] = Append(@, "Reschedule")]
    /\ UNCHANGED <<at, open, round>>

\* remove_scope, and for all scopes the drop of the scheduler.
RemoveScope(s) ==
    /\ Has(s)
    /\ open' = [open EXCEPT ![TaskOf(s)] = FALSE]
    /\ UNCHANGED <<at, fg, commands, round>>

-----------------------------------------------------------------------------
(* poll_loop, a task. *)

Poll(t) ==
    /\ at[t] = "due"
    /\ at' = [at EXCEPT ![t] = "callback"]
    /\ UNCHANGED <<open, fg, commands, round>>

CallbackEnds(t) ==
    /\ at[t] = "callback"
    /\ at' = [at EXCEPT ![t] = "timer"]
    /\ UNCHANGED <<open, fg, commands, round>>

\* The sleep of this round is over.
TimerFires(t, r) ==
    /\ at[t] = "timer" /\ round[t] = r
    /\ at' = [at EXCEPT ![t] = "due"]
    /\ round' = [round EXCEPT ![t] = 0]
    /\ UNCHANGED <<open, fg, commands>>

\* Mutant of Receive: a poll that is asked for only restarts the timer.
MutReceive(t) ==
    /\ at[t] = "timer" /\ commands[t] # <<>>
    /\ commands' = [commands EXCEPT ![t] = Tail(@)]
    /\ round' = [round EXCEPT ![t] = 1 - @]
    /\ UNCHANGED <<at, open, fg>>

Receive(t) ==
    /\ at[t] = "timer" /\ commands[t] # <<>>
    /\ commands' = [commands EXCEPT ![t] = Tail(@)]
    /\ \/ Head(commands[t]) = "PollNow"
          /\ at' = [at EXCEPT ![t] = "due"] /\ round' = [round EXCEPT ![t] = 0]
       \/ Head(commands[t]) = "Reschedule"
          /\ round' = [round EXCEPT ![t] = 1 - @] /\ UNCHANGED at
    /\ UNCHANGED <<open, fg>>

\* The sender is gone and the channel is empty: the task ends.
Hangup(t) ==
    /\ at[t] = "timer" /\ commands[t] = <<>> /\ ~open[t]
    /\ at' = [at EXCEPT ![t] = "none"]
    /\ fg' = [fg EXCEPT ![t] = FALSE]
    /\ UNCHANGED <<open, commands, round>>

-----------------------------------------------------------------------------
Select(t) == Receive(t) \/ Hangup(t)
Api(s) == AddScope(s) \/ SetForeground(s) \/ SetBackground(s) \/ RemoveScope(s)

Next == \/ \E s \in Scopes : Api(s)
        \/ \E t \in Tasks : \/ Poll(t) \/ CallbackEnds(t) \/ Select(t)
                            \/ \E r \in 0..1 : TimerFires(t, r)

Spec == Init /\ [][Next]_vars

\* Tasks run and callbacks return.  A timer fires when it is not restarted.  A
\* command that waits in the channel is ready when select! starts, and the sleep
\* takes at least 30 s: the timer cannot win every time.
FairSpec == /\ Spec
            /\ \A t \in Tasks : /\ WF_vars(Poll(t)) /\ WF_vars(CallbackEnds(t))
                                /\ SF_vars(Select(t))
                                /\ \A r \in 0..1 : WF_vars(TimerFires(t, r))

-----------------------------------------------------------------------------
TypeOK ==
    /\ at \in [Tasks -> {"none", "due", "callback", "timer"}]
    /\ open \in [Tasks -> BOOLEAN] /\ fg \in [Tasks -> BOOLEAN]
    /\ commands \in [Tasks -> Seq({"PollNow", "Reschedule"})]
    /\ round \in [Tasks -> 0..1]

(* Safety: the own volume is in the foreground, and one shared scope at most,
   whatever set_foreground, set_background and remove_scope do. *)
OneForegroundScope ==
    /\ \A t \in Opened : ~Shared(t) => fg[t]
    /\ \A t, u \in {o \in Opened : Shared(o) /\ fg[o]} : t = u

(* Safety: the last command that waits in a shared scope's channel agrees with
   its state.  A scope whose foreground was taken over restarts its timer with
   the longer interval, and one that came to the foreground is polled. *)
LastCommandIsCurrent ==
    \A t \in Opened :
        commands[t] # <<>> => (Last(commands[t]) = "PollNow") = fg[t]

(* Safety: the map of scopes and the channels of their tasks agree. *)
ScopesAreSound == TypeOK /\ OneForegroundScope /\ LastCommandIsCurrent

(* Safety, the claim of event_scheduler.rs:5: the client is never called again
   before it has processed the previous events of a scope.  Not checked, for it
   does not hold when a scope is added again during a callback. *)
NeverCalledAgain ==
    \A t, u \in Tasks :
        ScopeOf(t) = ScopeOf(u) /\ at[t] = "callback" /\ at[u] = "callback" => t = u

(* Action property, the claim of event_scheduler.rs:38: a scope that was
   removed is not polled any more.  Not checked, for it does not hold: a task
   that is about to poll does not look at its channel. *)
RemovedIsNotPolled ==
    [][\A t \in Tasks : at[t] # "callback" /\ at'[t] = "callback" => open[t]]_vars

(* Liveness: a scope in the map is polled again and again, however often it is
   moved between foreground and background. *)
PolledForever ==
    \A t \in Tasks : open[t] ~> (at[t] = "callback" \/ ~open[t])

(* Liveness: the task of a scope that was removed ends. *)
RemovedTasksEnd ==
    \A t \in Tasks : (at[t] # "none" /\ ~open[t]) ~> (at[t] = "none")

(* Liveness: a scope is polled for as long as it is added. *)
ScopesArePolled == PolledForever /\ RemovedTasksEnd
=============================================================================
