----------------------------- MODULE MCSdkParts ------------------------------
(* The instances of two parts of the SDK that share nothing, for one run: three
   transfers share two permits of a FlexibleSemaphore, or an EventScheduler polls
   the own volume and two shared scopes.  `part' says which of them runs. *)
EXTENDS FlexibleSemaphore

CONSTANTS Scopes, Own, Slots, MaxCommands
VARIABLES part, at, open, fg, commands, round

E == INSTANCE EventScheduler
eventVars == <<at, open, fg, commands, round>>
partVars == <<part, vars, eventVars>>

PartInit == part \in {"semaphore", "events"} /\ Init /\ E!Init

PartNext == \/ part = "semaphore" /\ Next /\ UNCHANGED <<part, eventVars>>
            \/ part = "events" /\ E!Next /\ UNCHANGED <<part, vars>>

\* The part that does not run stays as it starts, where none of these steps is
\* enabled: the fairness is that of each module.
PartSpec ==
    /\ PartInit /\ [][PartNext]_partVars
    /\ WF_vars(Serve \/ Drained)
    /\ \A c \in Clients : SF_vars(Release(c))
    /\ \A t \in E!Tasks : /\ WF_eventVars(E!Poll(t)) /\ WF_eventVars(E!CallbackEnds(t))
                          /\ SF_eventVars(E!Select(t))
                          /\ \A r \in 0..1 : WF_eventVars(E!TimerFires(t, r))

(* Safety: no permit is lost but those of dropped waits (utils/semaphore.rs), and the
   map of scopes and the channels of their tasks agree (event_scheduler.rs). *)
NothingIsLost == Conservation /\ E!ScopesAreSound

(* Liveness: whoever waits for permits gets them, and a scope is polled for as long
   as it is added. *)
EveryoneIsServed == WaitersAreServed /\ E!ScopesArePolled
==============================================================================
