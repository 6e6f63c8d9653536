---------------------------- MODULE AccountCaches ----------------------------
(***************************************************************************)
(* The addresses and keys of an account (crates/proton-sdk-rs2/src/        *)
(* account.rs) and the two caches they are kept in (api/cache.rs): one of   *)
(* entities, one of secrets, both SQLite files of limited size              *)
(* (crates/proton-drive-sdk/src/cache/sqlite.rs).  The cache of secrets     *)
(* also has what nothing else keeps: the passphrases of the user's keys     *)
(* (secret.rs).                                                            *)
(*                                                                         *)
(* features says what happens in a behaviour: calls overlap ("concurrent"), *)
(* some keys cannot be opened ("locked"), the caches are full, for the keys *)
(* of files and folders fill them too ("full"), or the process is killed    *)
(* between two statements, and what is in the caches stays ("kill").        *)
(***************************************************************************)
EXTENDS Integers, Sequences, FiniteSets, SequencesExt, FiniteSetsExt

CONSTANTS Callers, Addresses,  \* address ids, by their order
          Whole, Damaged,      \* what the server may have as keys of the addresses
          Files, Capacity,     \* nodes with keys; entries of the secret cache
          MaxCalls,            \* the sets of features, and in each a bound on calls
          MaxFaults            \* bound: requests that fail

VARIABLES
  features,
  keys,      \* of each address on the server, a sequence of keys
  entities,  \* the addresses that are cached
  tagged,    \* those with the tag user:current:address
  secrets,   \* the keys of the secret cache, the least recently used first
  stored,    \* of each address, the keys under "address:ID:keys"
  cutOff,    \* history: a process was killed when it had stored some addresses of a list
  call, calls, faults

vars == <<features, keys, entities, tagged, secrets, stored, cutOff, call, calls, faults>>

\* Cache keys: a kind and a number.
Passphrase == <<"account:passphrase", 0>>
UserKeys == <<"user:current:keys", 0>>
First == CHOOSE c \in Callers : TRUE    \* without "concurrent", calls come one by one
Idle == [op |-> "none", of |-> 0, pc |-> "idle", todo |-> {}, got |-> {}, again |-> FALSE]

\* A session has just begun: login stored the passphrase of the user's key.
Init ==
  /\ features \in DOMAIN MaxCalls
  /\ keys \in (IF "locked" \in features THEN Damaged ELSE Whole)
  /\ entities = {} /\ tagged = {} /\ secrets = <<Passphrase>> /\ stored = [a \in Addresses |-> <<>>]
  /\ cutOff = FALSE /\ call = [c \in Callers |-> Idle] /\ calls = 0 /\ faults = 0

-----------------------------------------------------------------------------
(* SqliteCacheRepository: reading a value and setting it are uses of it, and a new one
   that finds the table full makes room by what was used longest ago. *)

In(s) == s \in ToSet(secrets)
Evicted(seq) == SubSeq(seq, Max({1, Capacity \div 4}) + 1, Len(seq))
Use(seq, s) ==
  IF s \in ToSet(seq) THEN Append(Remove(seq, s), s)
  ELSE Append(IF Len(seq) < Capacity THEN seq ELSE Evicted(seq), s)
Read(s) == secrets' = IF In(s) THEN Use(secrets, s) ELSE secrets
Set(s) == secrets' = Use(secrets, s)

KeysOf(a) == <<"address:keys", a>>

-----------------------------------------------------------------------------
(* convert_from_address_dto *)

Active(a) == SelectSeq(keys[a], LAMBDA k : k.active)
Opened(a) == SelectSeq(Active(a), LAMBDA k : k.opens = "yes")
\* The token of a key is none of the user's: the address cannot be used.
Broken(a) == \E k \in ToSet(Active(a)) : k.opens = "error"

\* Mutant: the position among all keys.
MutPrimaryIndex(a) == SelectInSeq(keys[a], LAMBDA k : k.primary)
\* primary_key_index: the position among the active keys, the first without a primary.
PrimaryIndex(a) == Max({1, SelectInSeq(Active(a), LAMBDA k : k.primary)})

-----------------------------------------------------------------------------
Fails == faults < MaxFaults /\ faults' = faults + 1
Fine == UNCHANGED faults
Go(c, pc) == call' = [call EXCEPT ![c].pc = pc]
Ends(c, pc, got) == call' = [call EXCEPT ![c].pc = pc, ![c].got = got]
Caches == <<entities, tagged, secrets, stored>>
At(c, pc) == call[c].pc = pc /\ UNCHANGED <<features, keys, cutOff, calls>>

Begin(c, op, a) ==
  /\ call[c].pc \in {"idle", "done", "failed", "locked"} /\ calls < MaxCalls[features]
  /\ "concurrent" \in features \/ c = First
  /\ calls' = calls + 1
  /\ call' = [call EXCEPT ![c] = [Idle EXCEPT !.op = op, !.of = a, !.pc = "look"]]
  /\ UNCHANGED <<features, keys, Caches, cutOff, faults>>

\* get_current_user_addresses: what has the tag is the list, unless nothing has;
\* get_address: the entry will do if the keys are there too.
Look(c) ==
  /\ At(c, "look") /\ Fine /\ UNCHANGED <<entities, tagged, stored>>
  /\ IF call[c].op = "list"
     THEN /\ UNCHANGED secrets
          /\ IF tagged # {} THEN Ends(c, "done", tagged) ELSE Go(c, "fetch")
     ELSE LET a == call[c].of IN
          /\ IF a \in entities THEN Read(KeysOf(a)) ELSE UNCHANGED secrets
          /\ IF a \notin entities \/ ~In(KeysOf(a)) THEN Go(c, "fetch")
             ELSE IF call[c].op = "primary" THEN Go(c, "keys") ELSE Ends(c, "done", {a})

\* get_addresses, get_address
Fetch(c) ==
  /\ At(c, "fetch") /\ UNCHANGED Caches
  /\ \/ /\ call' = [call EXCEPT ![c].pc = "user",
                                ![c].todo = IF call[c].op = "list" THEN Addresses ELSE {call[c].of}]
        /\ Fine
     \/ Go(c, "failed") /\ Fails

\* get_user_keys: from the cache, or the user's keys opened with their passphrases.
GetUserKeys(c) ==
  /\ At(c, "user") /\ UNCHANGED <<entities, tagged, stored>>
  /\ IF In(UserKeys) THEN Read(UserKeys) /\ Go(c, "convert") /\ Fine
     ELSE \/ /\ Fine
             /\ IF In(Passphrase)
                THEN secrets' = Use(Use(secrets, Passphrase), UserKeys) /\ Go(c, "convert")
                ELSE UNCHANGED secrets /\ Go(c, "locked")
          \/ Go(c, "failed") /\ Fails /\ UNCHANGED secrets

\* The addresses one by one, in any order: set_address_keys, unless there are none; one
\* that cannot be used is left out of a list.
Convert(c, a) ==
  /\ At(c, "convert") /\ a \in call[c].todo /\ Fine /\ UNCHANGED <<entities, tagged>>
  /\ IF Broken(a)
     THEN /\ UNCHANGED <<secrets, stored>>
          /\ IF call[c].op = "list" THEN call' = [call EXCEPT ![c].todo = @ \ {a}]
             ELSE Go(c, "failed")
     ELSE /\ IF Opened(a) = <<>> THEN UNCHANGED <<secrets, stored>>
             ELSE Set(KeysOf(a)) /\ stored' = [stored EXCEPT ![a] = Opened(a)]
          /\ call' = [call EXCEPT ![c].todo = @ \ {a}, ![c].got = @ \cup {a}]

\* set_current_user_addresses: the tag is taken from all first,
RemoveByTag(c) ==
  /\ At(c, "convert") /\ call[c].op = "list" /\ call[c].todo = {} /\ Fine
  /\ entities' = entities \ tagged /\ tagged' = {} /\ UNCHANGED <<secrets, stored>>
  /\ call' = [call EXCEPT ![c].pc = "store", ![c].todo = call[c].got]
\* Mutant: the entries keep the tags they have.
MutStore(c, a) ==
  /\ At(c, "store") /\ a \in call[c].todo /\ Fine /\ UNCHANGED <<secrets, stored>>
  /\ entities' = entities \cup {a}
  /\ tagged' = IF a \in entities THEN tagged ELSE tagged \cup {a}
  /\ call' = [call EXCEPT ![c].todo = @ \ {a}]
\* and then they are set with it.
Store(c, a) ==
  /\ At(c, "store") /\ a \in call[c].todo /\ Fine /\ UNCHANGED <<secrets, stored>>
  /\ entities' = entities \cup {a} /\ tagged' = tagged \cup {a}
  /\ call' = [call EXCEPT ![c].todo = @ \ {a}]
Listed(c) ==
  /\ At(c, "store") /\ call[c].todo = {} /\ Fine /\ UNCHANGED Caches
  /\ Go(c, "done")

\* set_address: the entry is set without a tag.
SetAddress(c) ==
  /\ At(c, "convert") /\ call[c].op # "list" /\ call[c].todo = {} /\ Fine
  /\ entities' = entities \cup {call[c].of} /\ tagged' = tagged \ {call[c].of}
  /\ UNCHANGED <<secrets, stored>>
  /\ Go(c, IF call[c].op = "primary" THEN "keys" ELSE "done")

\* get_address_primary_private_key: get_address_private_keys, which asks for the address
\* once more when they are not there, and one of them by its position.
PrimaryKey(c) ==
  /\ At(c, "keys") /\ Fine /\ UNCHANGED <<entities, tagged, stored>>
  /\ LET a == call[c].of IN
     /\ Read(KeysOf(a))
     /\ IF In(KeysOf(a))
        THEN IF PrimaryIndex(a) <= Len(stored[a]) THEN Ends(c, "done", {stored[a][PrimaryIndex(a)]})
             ELSE Go(c, "failed")
        ELSE IF call[c].again THEN Go(c, "failed")
        ELSE call' = [call EXCEPT ![c].pc = "look", ![c].again = TRUE]

\* The rest of the client uses the key of a node, and the entity cache, which is as
\* full, drops an address.
UseNode(f) ==
  /\ "full" \in features /\ Set(<<"node", f>>)
  /\ UNCHANGED <<features, keys, entities, tagged, stored, cutOff, call, calls, faults>>
DropEntity(a) ==
  /\ "full" \in features /\ a \in entities
  /\ entities' = entities \ {a} /\ tagged' = tagged \ {a}
  /\ UNCHANGED <<features, keys, secrets, stored, cutOff, call, calls, faults>>

\* The next process finds what was stored, of a list maybe a part.
Kill(c) ==
  /\ "kill" \in features /\ call[c].pc \notin {"idle", "done", "failed", "locked"}
  /\ call' = [call EXCEPT ![c] = Idle]
  /\ cutOff' = (cutOff \/ (call[c].pc = "store" /\ call[c].todo \notin {{}, call[c].got}))
  /\ UNCHANGED <<features, keys, Caches, calls, faults>>

Next ==
  \/ \E c \in Callers : \E op \in {"list", "address", "primary"} :
        \E a \in IF op = "list" THEN {0} ELSE Addresses : Begin(c, op, a)
  \/ \E c \in Callers : Look(c) \/ Fetch(c) \/ GetUserKeys(c) \/ RemoveByTag(c) \/ Listed(c)
                        \/ SetAddress(c) \/ PrimaryKey(c) \/ Kill(c)
  \/ \E c \in Callers : \E a \in Addresses : Convert(c, a) \/ Store(c, a)
  \/ \E f \in Files : UseNode(f)
  \/ \E a \in Addresses : DropEntity(a)
Spec == Init /\ [][Next]_vars

-----------------------------------------------------------------------------
Done(c, op) == call[c].pc = "done" /\ call[c].op = op

(* account.rs:59: the list is that of all addresses, when calls come one by one, all
   keys open and the caches have room; unless a process was killed between the statements
   that store the list, whose part is then taken for the whole (api/cache.rs:118-133). *)
WholeList == features \subseteq {"kill"} /\ ~cutOff =>
               \A c \in Callers : Done(c, "list") => call[c].got = Addresses

(* The primary key of an address is the one the server calls so, unless an active key
   of that address cannot be opened. *)
PrimaryIsPrimary ==
  \A c \in Callers : Done(c, "primary") /\ Opened(call[c].of) = Active(call[c].of)
    /\ (\E k \in ToSet(Active(call[c].of)) : k.primary) => \A k \in call[c].got : k.primary

(* The keys of a session stay usable: what opens them is there as long as the cache of
   secrets has room. *)
KeysStayUsable == \A c \in Callers : call[c].pc # "locked"

(* A call fails only because a request did, or a key cannot be opened. *)
FailsForReason ==
  features \cap {"locked", "full"} = {} => \A c \in Callers : call[c].pc = "failed" => faults > 0

(* Safety: lists are whole, a primary key is the right one, and keys can be had as long
   as the caches have room; the caches never hold more than they may. *)
AccountIsSound ==
  /\ WholeList /\ PrimaryIsPrimary /\ FailsForReason
  /\ "full" \notin features => KeysStayUsable
  /\ Len(secrets) <= Capacity /\ tagged \subseteq entities
=============================================================================
