----------------------------- MODULE EventFeed ------------------------------
(***************************************************************************)
(* Subscriptions to what happens on the server                             *)
(* (crates/proton-drive-sdk/src/events.rs): the changes of a volume, or    *)
(* those of the own volume and of what is shared with the user, which a    *)
(* task polls for and hands to a callback one by one.                      *)
(*                                                                         *)
(* The server numbers its events; it answers with a page of those after a  *)
(* number, or, when it has forgotten some of them, with the word `refresh' *)
(* and its last number.  A request may fail.                               *)
(***************************************************************************)
EXTENDS Integers, Sequences, FiniteSets, SequencesExt

CONSTANTS PageSize,   \* bound: events of an answer
          MaxEvents,  \* bound: events of the volume
          MaxShares,  \* bound: changes of what is shared with the user
          MaxFaults   \* bound: requests that fail

Kinds == {"tree", "drive"}   \* subscribe_to_tree_events, subscribe_to_drive_events
Refresh(id) == -id   \* TreeRefresh, among the numbers of events
Shared == 0          \* SharedWithMeUpdated

VARIABLES
  log,       \* the last event of the volume
  oldest,    \* the first one the server still has
  shares,    \* the last change of what is shared
  kind,      \* which of the two subscriptions is looked at: they share nothing
  sub,       \* what it does
  faults     \* number of faults

vars == <<log, oldest, shares, kind, sub, faults>>

\* event_id, core_event_id; todo: callbacks that remain of an answer; seen: history, the
\* callbacks made; from, sharesFrom: history, where it started; lapse: history, the last
\* number that came with `refresh'.
New == [pc |-> "new", event |-> 0, core |-> 0, todo |-> <<>>, more |-> FALSE, disposed |-> FALSE,
        seen |-> <<>>, from |-> 0, sharesFrom |-> 0, lapse |-> 0]

Init == log = 0 /\ oldest = 1 /\ shares = 0 /\ faults = 0 /\ kind \in Kinds /\ sub = New

-----------------------------------------------------------------------------
(* The server. *)
Happen ==
  /\ log < MaxEvents /\ log' = log + 1
  /\ UNCHANGED <<oldest, shares, kind, sub, faults>>
Forget ==
  /\ oldest' \in oldest + 1 .. log + 1
  /\ UNCHANGED <<log, shares, kind, sub, faults>>
Share ==
  /\ shares < MaxShares /\ shares' = shares + 1
  /\ UNCHANGED <<log, oldest, kind, sub, faults>>

\* get_volume_events
Answer(after) ==
  LET last == IF after + PageSize < log THEN after + PageSize ELSE log
  IN IF after + 1 < oldest THEN [id |-> log, events |-> <<>>, refresh |-> TRUE, more |-> FALSE]
     ELSE [id |-> last, events |-> [i \in 1..last - after |-> after + i], refresh |-> FALSE,
           more |-> last < log]

Quiet == UNCHANGED <<log, oldest, shares, kind>>
Fails == faults < MaxFaults /\ faults' = faults + 1

-----------------------------------------------------------------------------
(* Both read the latest numbers before they start their task. *)

Subscribe ==
  /\ sub.pc = "new" /\ Quiet
  /\ \/ /\ sub' = [New EXCEPT !.pc = "poll", !.event = log, !.core = shares,
                              !.from = log, !.sharesFrom = shares]
        /\ UNCHANGED faults
     \/ Fails /\ sub' = [New EXCEPT !.pc = "ended"]

\* Mutant: after an error it starts again from the latest event.
MutMissed == [sub EXCEPT !.pc = "wait", !.event = log]
\* An error is logged, and the same events are asked for later.
Missed == [sub EXCEPT !.pc = "wait"]

\* The task of subscribe_to_tree_events: one answer, its events, then a refresh.
PollTree ==
  /\ kind = "tree" /\ sub.pc = "poll" /\ ~sub.disposed /\ Quiet
  /\ \/ LET answer == Answer(sub.event)
        IN /\ sub' = [sub EXCEPT
                !.pc = "call", !.event = answer.id, !.more = answer.more,
                !.todo = answer.events \o (IF answer.refresh THEN <<Refresh(answer.id)>> ELSE <<>>),
                !.lapse = IF answer.refresh THEN answer.id ELSE @]
           /\ UNCHANGED faults
     \/ Fails /\ sub' = Missed

\* The volume's tick of subscribe_to_drive_events, which looks at neither `refresh' nor
\* `more'; and the tick for what is shared.
PollDrive ==
  /\ kind = "drive" /\ sub.pc = "poll" /\ ~sub.disposed /\ Quiet
  /\ \/ LET answer == Answer(sub.event)
        IN /\ sub' = [sub EXCEPT
                !.pc = "call", !.event = answer.id, !.todo = answer.events,
                !.lapse = IF answer.refresh THEN answer.id ELSE @]
           /\ UNCHANGED faults
     \/ /\ sub' = [sub EXCEPT
             !.pc = "call", !.core = shares,
             !.todo = IF sub.core < shares THEN <<Shared>> ELSE <<>>]
        /\ UNCHANGED faults
     \/ Fails /\ sub' = Missed

\* dispatch_volume_events: one callback.  Nothing is awaited between them.
Callback ==
  /\ sub.pc = "call" /\ sub.todo # <<>> /\ Quiet /\ UNCHANGED faults
  /\ sub' = [sub EXCEPT !.todo = Tail(@), !.seen = Append(@, Head(sub.todo))]

\* With more to come it asks again at once, otherwise it sleeps or waits to be stopped.
Called ==
  /\ sub.pc = "call" /\ sub.todo = <<>> /\ Quiet /\ UNCHANGED faults
  /\ sub' = [sub EXCEPT !.pc = IF sub.more THEN "poll" ELSE "wait", !.more = FALSE]

Tick ==
  /\ sub.pc = "wait" /\ ~sub.disposed /\ Quiet /\ UNCHANGED faults
  /\ sub' = [sub EXCEPT !.pc = "poll"]

\* EventSubscription::dispose and abort: the task ends where it awaits something.
Dispose ==
  /\ sub.pc \in {"poll", "call", "wait"} /\ ~sub.disposed /\ Quiet /\ UNCHANGED faults
  /\ sub' = [sub EXCEPT !.disposed = TRUE]
End ==
  /\ sub.pc \in {"poll", "wait"} /\ sub.disposed /\ Quiet /\ UNCHANGED faults
  /\ sub' = [sub EXCEPT !.pc = "ended"]

Next == \/ Happen \/ Forget \/ Share
        \/ Subscribe \/ PollTree \/ PollDrive \/ Callback \/ Called \/ Tick \/ Dispose \/ End
Spec == Init /\ [][Next]_vars

-----------------------------------------------------------------------------
Seen == {e \in ToSet(sub.seen) : e > 0}
Started == sub.pc \in {"poll", "wait"}

(* No event is handed over twice or after a later one, whatever failed in between. *)
OnceInOrder ==
  LET numbers == SelectSeq(sub.seen, LAMBDA e : e > 0)
  IN \A i \in 1..Len(numbers) - 1 : numbers[i] < numbers[i + 1]

(* What happened since the subscription up to the number it will ask from was handed
   over, but for what the server had forgotten; a subscriber of a tree was then told to
   read it all again, and one of the drive is told nothing. *)
NothingIsSkipped ==
  Started =>
    /\ \A e \in sub.from + 1 .. sub.event : e \in Seen \/ e <= sub.lapse
    /\ kind = "tree" /\ sub.lapse # 0 => Refresh(sub.lapse) \in ToSet(sub.seen)
    /\ kind = "drive" /\ sub.core > sub.sharesFrom => Shared \in ToSet(sub.seen)

(* Safety: each subscriber is told of every change once, in order. *)
EventsAreSound == OnceInOrder /\ NothingIsSkipped
=============================================================================
