----------------------------- MODULE BlockRetry -----------------------------
(***************************************************************************)
(* The download of a block (crates/proton-drive-sdk/src/block/download.rs):*)
(* up to five attempts under one permit, a wait before each but the first, *)
(* one refresh of an address that has expired, and the events that tell    *)
(* the program its requests are throttled.                                 *)
(*                                                                         *)
(* Contents are left out: an attempt ends with an answer, of which all     *)
(* that matters is what it makes the code do.  Waits are counted in what   *)
(* the server asked for; time passes otherwise unseen.                     *)
(***************************************************************************)
EXTENDS Integers, Sequences, FiniteSets

CONSTANTS Targets,   \* the blocks that are downloaded
          Permits,   \* max_degree_of_parallelism
          Delays     \* the Retry-After of an answer, in steps; 0: none

Attempts == 5        \* 0..=4
Backoff == 1         \* retry_backoff_delay, which is longer than nothing

VARIABLES
  permits,   \* permits of the queue that are free
  get,       \* what each download does
  expired,   \* addresses of each block that the server no longer serves; 0 is the first
  throttled  \* what the listeners were told last

vars == <<permits, get, expired, throttled>>

\* error, delay: last_error and its retry_after; target: which address it has; waited:
\* history, how long it waited since; sent: history, how often it asked;
\* told: history, those that it was told have expired.
New == [pc |-> "new", attempt |-> 0, target |-> 0, refreshed |-> FALSE, throttled |-> FALSE,
        error |-> "none", delay |-> 0, waited |-> 0, sent |-> 0, told |-> {}]

Init == /\ permits = Permits /\ throttled = FALSE
        /\ get = [b \in Targets |-> New] /\ expired = [b \in Targets |-> {}]

\* Kinds of errors: is_retryable of a status, 429, the time-out of a body; a request
\* that was not sent has an error of the middleware, which is none of those, as has a
\* block that cannot be decrypted; is_expired_target; another status.
Retried == {"busy", "throttled", "timeout"}
Final == {"unsent", "undecryptable", "denied"}

Set(b, record) == get' = [get EXCEPT ![b] = record]
\* What an ended download keeps is what is said of it.
Leave(b, record) ==
  /\ Set(b, [New EXCEPT !.pc = record.pc, !.error = record.error, !.sent = record.sent,
                        !.throttled = record.throttled])
  /\ expired' = [expired EXCEPT ![b] = {}]
  /\ permits' = permits + 1

\* start_block
Start(b) ==
  /\ get[b].pc = "new" /\ permits > 0 /\ permits' = permits - 1
  /\ Set(b, [get[b] EXCEPT !.pc = "send"]) /\ UNCHANGED <<expired, throttled>>

\* An address stops working whenever the server says so.
Expire(b) ==
  /\ get[b].pc \in {"new", "wait", "send"} /\ get[b].target \notin expired[b]
  /\ expired' = [expired EXCEPT ![b] = @ \cup {get[b].target}]
  /\ UNCHANGED <<permits, get, throttled>>

\* The sleep before an attempt: what the last answer asked for, or the backoff.
Wait(b) ==
  /\ get[b].pc = "wait"
  /\ Set(b, [get[b] EXCEPT !.pc = "send", !.waited = IF @ < get[b].delay THEN get[b].delay ELSE @ + Backoff])
  /\ UNCHANGED <<permits, expired, throttled>>

\* What an attempt that failed leaves for the next one, if there is one.
Again(b, error, delay, record) ==
  LET left == [record EXCEPT !.error = error, !.delay = delay, !.waited = 0,
                             !.sent = @ + 1, !.attempt = @ + 1]
  IN IF left.attempt < Attempts
       THEN Set(b, [left EXCEPT !.pc = "wait"]) /\ UNCHANGED <<permits, expired>>
     ELSE Leave(b, [left EXCEPT !.pc = "failed"])
GiveUp(b, error) ==
  Leave(b, [get[b] EXCEPT !.pc = "failed", !.error = error, !.sent = @ + 1])

\* The block is written whole once it is decrypted; then the end of throttling is told.
Succeed(b) ==
  /\ get[b].pc = "send" /\ get[b].target \notin expired[b]
  /\ Leave(b, [get[b] EXCEPT !.pc = "done", !.sent = @ + 1])
  /\ throttled' = (throttled /\ ~get[b].throttled)

Retry(b) ==
  /\ get[b].pc = "send"
  /\ \E error \in Retried, delay \in Delays :
       /\ error = "timeout" => delay = 0
       /\ Again(b, error, delay, [get[b] EXCEPT !.throttled = @ \/ error = "throttled"])
       /\ throttled' = (throttled \/ error = "throttled")

Refuse(b) ==
  /\ get[b].pc = "send" /\ UNCHANGED throttled
  /\ \E error \in Final : GiveUp(b, error)

\* Mutant: the new address is read, and the old one asked again.
MutRefreshTarget(b) ==
  Again(b, "expired", 0, [get[b] EXCEPT !.refreshed = TRUE, !.told = @ \cup {get[b].target}])
\* refresh_target: the address of the block in a new listing of the revision.
RefreshTarget(b) ==
  Again(b, "expired", 0, [get[b] EXCEPT !.refreshed = TRUE, !.target = @ + 1,
                                        !.told = @ \cup {get[b].target}])

\* An expired address is refreshed once; a listing that fails or lacks the block, or a
\* second expiry, ends the download.
Expired(b) ==
  /\ get[b].pc = "send" /\ get[b].target \in expired[b] /\ UNCHANGED throttled
  /\ \/ ~get[b].refreshed /\ RefreshTarget(b)
     \/ GiveUp(b, IF get[b].refreshed THEN "expiredAgain" ELSE "unlisted")

Next == \E b \in Targets : \/ Start(b) \/ Expire(b) \/ Wait(b) \/ Succeed(b) \/ Retry(b)
                          \/ Refuse(b) \/ Expired(b)
Spec == Init /\ [][Next]_vars

-----------------------------------------------------------------------------
Active(b) == get[b].pc \in {"wait", "send"}

(* Safety: a download asks at most five times, waits as long as it was told to, does not
   come back to an address it knows has expired, and gives up early only on an answer
   that another attempt would not change; its permit is free when it ends, and a success
   after throttling leaves no word of its own that requests are throttled. *)
RetriesAreSound ==
  /\ permits + Cardinality({b \in Targets : Active(b)}) = Permits
  /\ \A b \in Targets : LET g == get[b] IN
       /\ g.sent <= Attempts
       /\ g.pc = "send" /\ g.error # "none" => g.waited >= g.delay /\ g.waited > 0
       /\ Active(b) => g.target \notin g.told
       /\ g.pc = "failed" => \/ g.sent = Attempts
                             \/ g.error \in Final \cup {"expiredAgain", "unlisted"}
  /\ throttled => \E b \in Targets : get[b].throttled /\ get[b].pc # "done"
=============================================================================
