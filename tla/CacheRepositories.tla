------------------------- MODULE CacheRepositories -------------------------
(***************************************************************************)
(* The stores behind the caches of entities and secrets: a map in memory    *)
(* with an index of tags (proton-sdk-rs2/src/cache.rs), a database file     *)
(* (cache/sqlite.rs), one whose values are encrypted (cache/encrypted.rs),  *)
(* and the keyring of the system (cache/keyring.rs).  Each keeps a value    *)
(* and tags by key; how a database orders its entries by last use is left   *)
(* open, so an eviction may hit any of them.                               *)
(*                                                                         *)
(* features names the store ("memory", "sqlite", "keyring"), and what       *)
(* happens besides: calls of several tasks (of several processes, for a     *)
(* database) at once ("parallel", each with keys of its own; "shared", on   *)
(* any key), a kill and a restart between two statements ("kill"), another  *)
(* master key after a restart ("rotate").                                  *)
(***************************************************************************)
EXTENDS Naturals, FiniteSets

CONSTANTS Tasks,      \* naturals from 1, each the owner of the key of its number
          Keys, Tags, Values,
          Capacity,   \* max_cache_size of a database
          MaxCalls    \* bound: calls, for each of the sets of features a behaviour may have

VARIABLES
  features,
  entries,   \* what is stored by key, and the master key it was encrypted with
  tagsOf,    \* the tags of each key; in a database, its table of tags
  keysOf,    \* the index from tags to keys, in memory
  tracked,   \* the keys this process put into the keyring
  master,    \* the master key
  task,      \* what each task does
  given,     \* history: what each key was last set to; none after it was removed
  unsure,    \* history: keys whose call was cut off, or overlapped another
  calls

vars == <<features, entries, tagsOf, keysOf, tracked, master, task, given, unsure, calls>>

None == "none"
Stored(v) == [value |-> v, master |-> master]
NoEntry == [value |-> None, master |-> 0]
NoTask == [pc |-> "idle", key |-> 1, value |-> None, tags |-> {}, left |-> {}, keys |-> {}]
NotGiven == [value |-> None, tags |-> {}]

Init ==
  /\ features \in DOMAIN MaxCalls
  /\ entries = [k \in Keys |-> NoEntry] /\ tagsOf = [k \in Keys |-> {}] /\ keysOf = [t \in Tags |-> {}]
  /\ tracked = {} /\ master = 1 /\ task = [p \in Tasks |-> NoTask]
  /\ given = [k \in Keys |-> NotGiven] /\ unsure = {} /\ calls = 0

Store == CHOOSE s \in {"memory", "sqlite", "keyring"} : s \in features
Memory == Store = "memory"
There(k) == entries[k] # NoEntry
Present == {k \in Keys : There(k)}
\* What try_get answers: what another master key encrypted is as if it was not there.
Readable(k) == There(k) /\ entries[k].master = master
\* get_by_tags of one tag
Found(t) == IF Memory THEN {k \in keysOf[t] : There(k)} ELSE {k \in Present : t \in tagsOf[k]}

Tables == <<entries, tagsOf, keysOf>>
Outside == <<tracked, master>>
Does(p, r) == task' = [task EXCEPT ![p] = r]
Goes(p, pc) == Does(p, [task[p] EXCEPT !.pc = pc])
At(p, pc) == task[p].pc = pc /\ UNCHANGED <<features, calls>>
Quiet == \A p \in Tasks : task[p].pc = "idle"

-----------------------------------------------------------------------------
(* Calls.  The caller is told of nothing until the last step. *)

May(p, k) == /\ features \cap {"parallel", "shared"} = {} => p = 1
             /\ "parallel" \in features => k = p
Starts(p) == /\ task[p].pc = "idle" /\ calls < MaxCalls[features] /\ calls' = calls + 1
             /\ UNCHANGED <<features, Tables, Outside>>
\* Calls on one key at once: either may be the last.
Overlapped(p, ks) == {k \in ks : \E q \in Tasks \ {p} : task[q].pc # "idle" /\ k \in task[q].keys}

Set(p) ==
  /\ Starts(p)
  /\ \E k \in Keys, v \in Values : May(p, k) /\ \E T \in IF Store = "keyring" THEN {{}} ELSE SUBSET Tags :
       /\ Does(p, [NoTask EXCEPT !.key = k, !.value = v, !.tags = T, !.keys = {k},
                     !.pc = CASE Memory -> "unindex" [] Store = "sqlite" -> "evict" [] OTHER -> "password"])
       /\ given' = [given EXCEPT ![k] = [value |-> v, tags |-> T]]
       /\ unsure' = unsure \cup Overlapped(p, {k})
\* remove; remove_by_tag, of the keys that have the tag; clear
Remove(p) ==
  /\ Starts(p) /\ Store # "keyring"
  /\ \E ks \in {{k} : k \in Keys} \cup (IF "parallel" \in features THEN {} ELSE {Found(t) : t \in Tags}) :
       /\ \A k \in ks : May(p, k)
       /\ given' = [k \in Keys |-> IF k \in ks THEN NotGiven ELSE given[k]]
       /\ unsure' = unsure \cup Overlapped(p, ks)
       /\ Does(p, [NoTask EXCEPT !.keys = ks, !.pc = IF Memory THEN "drop" ELSE "delete"])
Clear(p) ==
  /\ Starts(p) /\ p = 1 /\ features \cap {"parallel", "shared"} = {} /\ UNCHANGED unsure
  /\ given' = [k \in Keys |-> NotGiven]
  /\ Does(p, [NoTask EXCEPT !.keys = Keys, !.pc = IF Store = "keyring" THEN "drain" ELSE "clear"])

-----------------------------------------------------------------------------
(* In memory: three maps, each with locks of its own. *)

\* Mutant: the old tags of a key stay in the index.
MutUnindex(p) ==
  /\ At(p, "unindex") /\ UNCHANGED <<entries, keysOf, Outside, given, unsure>>
  /\ tagsOf' = [tagsOf EXCEPT ![task[p].key] = {}] /\ Goes(p, "untag")
Unindex(p) ==
  /\ At(p, "unindex") /\ UNCHANGED <<entries, keysOf, Outside, given, unsure>>
  /\ tagsOf' = [tagsOf EXCEPT ![task[p].key] = {}]
  /\ Does(p, [task[p] EXCEPT !.pc = "untag", !.left = tagsOf[task[p].key]])
\* One tag after the other loses the key, of a set or a removal.
Untag(p) ==
  /\ At(p, "untag") /\ UNCHANGED <<entries, tagsOf, Outside, given, unsure>>
  /\ IF task[p].left = {}
     THEN /\ UNCHANGED keysOf
          /\ Goes(p, IF task[p].value # None THEN "insert" ELSE "drop")
     ELSE \E t \in task[p].left : /\ keysOf' = [keysOf EXCEPT ![t] = @ \ {task[p].key}]
                                  /\ Does(p, [task[p] EXCEPT !.left = @ \ {t}])
Insert(p) ==
  /\ At(p, "insert") /\ UNCHANGED <<tagsOf, keysOf, Outside, given, unsure>>
  /\ entries' = [entries EXCEPT ![task[p].key] = Stored(task[p].value)] /\ Goes(p, "retag")
Retag(p) ==
  /\ At(p, "retag") /\ UNCHANGED <<entries, keysOf, Outside, given, unsure>>
  /\ tagsOf' = [tagsOf EXCEPT ![task[p].key] = task[p].tags]
  /\ Does(p, [task[p] EXCEPT !.pc = "index", !.left = @ \cup task[p].tags])
Index(p) ==
  /\ At(p, "index") /\ UNCHANGED <<entries, tagsOf, Outside, given, unsure>>
  /\ IF task[p].left = {} THEN Does(p, NoTask) /\ UNCHANGED keysOf
     ELSE \E t \in task[p].left : /\ keysOf' = [keysOf EXCEPT ![t] = @ \cup {task[p].key}]
                                  /\ Does(p, [task[p] EXCEPT !.left = @ \ {t}])
\* The keys that are to go, one after the other.
Drop(p) ==
  /\ At(p, "drop") /\ UNCHANGED <<tagsOf, keysOf, Outside, given, unsure>>
  /\ IF task[p].keys = {} THEN Does(p, NoTask) /\ UNCHANGED entries
     ELSE \E k \in task[p].keys :
            /\ entries' = [entries EXCEPT ![k] = NoEntry]
            /\ Does(p, [task[p] EXCEPT !.pc = "unindex", !.key = k, !.keys = @ \ {k}])
-----------------------------------------------------------------------------
(* In a database: one statement after the other. *)

EvictCount == IF Capacity < 8 THEN 1 ELSE Capacity \div 4
Evict(p) ==
  /\ At(p, "evict") /\ UNCHANGED <<keysOf, Outside, given, unsure>> /\ Goes(p, "upsert")
  /\ IF Cardinality(Present) < Capacity \/ There(task[p].key) THEN UNCHANGED <<entries, tagsOf>>
     ELSE \E old \in {s \in SUBSET Present : Cardinality(s) = EvictCount} :
            /\ entries' = [k \in Keys |-> IF k \in old THEN NoEntry ELSE entries[k]]
            /\ tagsOf' = [k \in Keys |-> IF k \in old THEN {} ELSE tagsOf[k]]
Upsert(p) ==
  /\ At(p, "upsert") /\ UNCHANGED <<tagsOf, keysOf, Outside, given, unsure>> /\ Goes(p, "untagAll")
  /\ entries' = [entries EXCEPT ![task[p].key] = Stored(task[p].value)]
\* Mutant: the tags of the old value stay.
MutDeleteTags(p) ==
  /\ At(p, "untagAll") /\ UNCHANGED <<Tables, Outside, given, unsure>>
  /\ Does(p, [task[p] EXCEPT !.pc = "tag", !.left = task[p].tags])
DeleteTags(p) ==
  /\ At(p, "untagAll") /\ UNCHANGED <<entries, keysOf, Outside, given, unsure>>
  /\ tagsOf' = [tagsOf EXCEPT ![task[p].key] = {}]
  /\ Does(p, [task[p] EXCEPT !.pc = "tag", !.left = task[p].tags])
\* A tag needs its entry, which another process may have removed.
InsertTag(p) ==
  /\ At(p, "tag") /\ UNCHANGED <<entries, keysOf, Outside, given, unsure>>
  /\ IF task[p].left = {} \/ ~There(task[p].key) THEN Does(p, NoTask) /\ UNCHANGED tagsOf
     ELSE \E t \in task[p].left : /\ tagsOf' = [tagsOf EXCEPT ![task[p].key] = @ \cup {t}]
                                  /\ Does(p, [task[p] EXCEPT !.left = @ \ {t}])
Delete(p) ==
  /\ At(p, "delete") /\ UNCHANGED <<keysOf, Outside, given, unsure>> /\ Does(p, NoTask)
  /\ entries' = [k \in Keys |-> IF k \in task[p].keys THEN NoEntry ELSE entries[k]]
  /\ tagsOf' = [k \in Keys |-> IF k \in task[p].keys THEN {} ELSE tagsOf[k]]
ClearAll(p) ==
  /\ At(p, "clear") /\ UNCHANGED <<Outside, given, unsure>> /\ Does(p, NoTask)
  /\ entries' = [k \in Keys |-> NoEntry] /\ tagsOf' = [k \in Keys |-> {}] /\ keysOf' = [t \in Tags |-> {}]

-----------------------------------------------------------------------------
(* In the keyring. *)

SetPassword(p) ==
  /\ At(p, "password") /\ UNCHANGED <<tagsOf, keysOf, Outside, given, unsure>>
  /\ entries' = [entries EXCEPT ![task[p].key] = Stored(task[p].value)] /\ Goes(p, "track")
Track(p) ==
  /\ At(p, "track") /\ UNCHANGED <<Tables, master, given, unsure>> /\ Does(p, NoTask)
  /\ tracked' = tracked \cup {task[p].key}
\* clear: what is tracked is removed, one by one; a removal that fails is not told.
Drain(p) ==
  /\ At(p, "drain") /\ UNCHANGED <<Tables, master, given, unsure>>
  /\ tracked' = {} /\ Does(p, [task[p] EXCEPT !.pc = "remove", !.keys = tracked])
RemoveValue(p) ==
  /\ At(p, "remove") /\ UNCHANGED <<tagsOf, keysOf, Outside, given>>
  /\ IF task[p].keys = {} THEN Does(p, NoTask) /\ UNCHANGED <<entries, unsure>>
     ELSE \E k \in task[p].keys :
            /\ Does(p, [task[p] EXCEPT !.keys = @ \ {k}])
            /\ \/ entries' = [entries EXCEPT ![k] = NoEntry] /\ UNCHANGED unsure
               \/ unsure' = unsure \cup {k} /\ UNCHANGED entries

-----------------------------------------------------------------------------
\* The process dies, and another one opens the store; of what is in memory nothing is left.
Kill ==
  /\ "kill" \in features /\ \E p \in Tasks : task[p].pc # "idle"
  /\ task' = [p \in Tasks |-> NoTask] /\ tracked' = {}
  /\ unsure' = unsure \cup UNION {task[p].keys : p \in Tasks} \cup (IF Store = "keyring" THEN Keys ELSE {})
  /\ UNCHANGED <<features, Tables, master, given, calls>>
\* cache_master_key makes another key when it cannot read the one it had.
Rotate ==
  /\ "rotate" \in features /\ Quiet /\ master = 1 /\ master' = 2
  /\ given' = [k \in Keys |-> NotGiven]
  /\ UNCHANGED <<features, Tables, tracked, task, unsure, calls>>

Next ==
  \/ \E p \in Tasks :
       \/ Set(p) \/ Remove(p) \/ Clear(p)
       \/ Unindex(p) \/ Untag(p) \/ Insert(p) \/ Retag(p) \/ Index(p) \/ Drop(p)
       \/ Evict(p) \/ Upsert(p) \/ DeleteTags(p) \/ InsertTag(p) \/ Delete(p) \/ ClearAll(p)
       \/ SetPassword(p) \/ Track(p) \/ Drain(p) \/ RemoveValue(p)
  \/ Kill \/ Rotate
Spec == Init /\ [][Next]_vars

-----------------------------------------------------------------------------
(* Nothing but what a key was last set to is read, or nothing: never an older value, one
   that was removed, or one of another master key; and outside of a database, which
   evicts, it is there. *)
ReadsAreCurrent == \A k \in Keys \ unsure : Quiet =>
  /\ Readable(k) => entries[k].value = given[k].value
  /\ Store # "sqlite" => (Readable(k) <=> given[k] # NotGiven)

(* What is found by a tag is what is there and was last set with it, also when tasks set
   and remove keys of their own at once: no key is left in the index of a tag it lost. *)
TagsAreRight == Quiet /\ unsure = {} => \A t \in Tags :
  {k \in Found(t) : Readable(k)} = {k \in Keys : Readable(k) /\ t \in given[k].tags}

(* A database holds no more than it has room for, also when processes are killed between
   the statements of a call.  Two processes that set at once, each with a connection of
   its own, may both find room for one more (sqlite.rs 78-102). *)
RoomIsKept == Store = "sqlite" /\ features \cap {"parallel", "shared"} = {} =>
                Cardinality(Present) <= Capacity

(* clear reaches every secret this process put into the keyring. *)
SecretsAreTracked == Store = "keyring" /\ Quiet => Present \ unsure \subseteq tracked

(* Safety *)
StoresAreSound == ReadsAreCurrent /\ TagsAreRight /\ RoomIsKept /\ SecretsAreTracked
=============================================================================
