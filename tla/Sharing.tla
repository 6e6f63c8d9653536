------------------------------ MODULE Sharing ------------------------------
(***************************************************************************)
(* Sharing one node with people and by a public link                       *)
(* (proton-drive-sdk/src/sharing.rs, the commands of pdcli/src/share.rs).  *)
(*                                                                         *)
(* An operation is a series of requests: it asks whether the node has a    *)
(* share, reads who has access in four lists, changes one person after the *)
(* other, and reads the lists again.  Invited people answer in between,    *)
(* and the owner may use another device.                                   *)
(*                                                                         *)
(* Whether a node has a share is remembered in the entity cache, which all *)
(* processes of the machine keep in one database (pdcli/src/credentials.rs *)
(* 128-145).                                                               *)
(***************************************************************************)
EXTENDS Naturals, FiniteSets

CONSTANTS
  Callers,     \* operations of this machine that may run side by side
  Emails,      \* people
  Members0,    \* those of them who have an account from the start
  MaxShares,   \* bound: shares the node has one after the other
  MaxCalls,    \* bound: operations, for each of the Modes
  MaxOthers,   \* bound: changes the owner makes on another device
  Modes        \* what may happen together: sets of the features below

Roles == {"viewer", "editor"}

\* "others": another device changes access too; "kept": the cache may be older
\* than this machine's own operations.
Features == {"others", "kept"}

None == 0                \* no share
Absent == MaxShares + 1  \* the cache has no entry for the node

Kinds == {"none", "member", "proton", "external"}
Access == [kind : Kinds, role : Roles]
NoAccess == [kind |-> "none", role |-> "viewer"]

VARIABLES
  features,  \* the mode of the behaviour
  share,     \* the share of the node on the server
  made,      \* number of shares made so far
  access,    \* what each person is to the share
  link,      \* its public link, by its generated password; 0 is no link
  gens,      \* number of links made so far
  accounts,  \* people with an account
  cache,     \* the share of the node as the entity cache has it
  call,      \* the locals of each operation
  calls,     \* number of operations started
  others     \* number of changes made elsewhere

vars == <<features, share, made, access, link, gens, accounts, cache, call, calls, others>>
server == <<share, made, access, link, gens>>

\* One line of the lists of members and invitations.
Entry == [email : Emails, role : Roles]

\* What get_sharing_info returns.
Info == [proton : SUBSET Entry, external : SUBSET Entry, members : SUBSET Entry, link : Nat]
NoInfo == [proton |-> {}, external |-> {}, members |-> {}, link |-> 0]

Idle == [op |-> "none", pc |-> "idle", users |-> {}, todo |-> {}, known |-> {}, role |-> "viewer",
         wantsLink |-> FALSE, id |-> None, asked |-> None, last |-> FALSE, info |-> NoInfo,
         touched |-> {}, result |-> "none"]

Init ==
  /\ features \in Modes
  /\ share = None /\ made = 0
  /\ access = [e \in Emails |-> NoAccess]
  /\ link = 0 /\ gens = 0
  /\ accounts = Members0
  /\ cache = Absent
  /\ call = [c \in Callers |-> Idle]
  /\ calls = 0 /\ others = 0

-----------------------------------------------------------------------------
(* Requests, and what the server makes of them (external).  A request that names
   a share or an entry that is gone is refused. *)

Listed(kind) == {[email |-> e, role |-> access[e].role] : e \in {x \in Emails : access[x].kind = kind}}
EmailsOf(entries) == {n.email : n \in entries}
HasEntry(entries, e) == e \in EmailsOf(entries)
RoleIn(entries, e) == (CHOOSE n \in entries : n.email = e).role

\* The role of one entry, and the removal of one.
CanChange(id, e, kind) == id = share /\ share # None /\ access[e].kind = kind
SetRole(e, role) == access' = [access EXCEPT ![e].role = role]
Remove(e) == access' = [access EXCEPT ![e] = NoAccess]

\* An invitation; inviting someone who has access already is refused, unless the
\* invitation of a person without an account is being converted.
CanInvite(id, e, from) == id = share /\ share # None /\ access[e].kind = from
Invite(e, kind, role) == access' = [access EXCEPT ![e] = [kind |-> kind, role |-> role]]

\* The share goes, with everybody in it.
DropShare ==
  /\ share' = None
  /\ access' = [e \in Emails |-> NoAccess]
  /\ link' = 0
  /\ UNCHANGED <<made, gens>>

NewShare ==
  /\ share' = made + 1
  /\ made' = made + 1
  /\ UNCHANGED <<access, link, gens>>

\* Someone but the operation c changes what e is.
TouchedBy(c, e) ==
  [d \in Callers |-> IF d = c THEN call[d] ELSE [call[d] EXCEPT !.touched = @ \cup {e}]]
Touched(e) == [d \in Callers |-> [call[d] EXCEPT !.touched = @ \cup {e}]]
WithAccess == {e \in Emails : access[e].kind # "none"}

-----------------------------------------------------------------------------
(* The course of an operation *)

Running(c, op, pc) == call[c].op \in op /\ call[c].pc = pc
To(c, pc) == call' = [call EXCEPT ![c].pc = pc]
Ended(o, result) == [Idle EXCEPT !.op = o.op, !.users = o.users, !.role = o.role,
                                 !.touched = o.touched, !.result = result]
End(c, result) == call' = [call EXCEPT ![c] = Ended(@, result)]

Start(c, op, users, role, wantsLink, pc) ==
  /\ call[c].pc = "idle" /\ calls < MaxCalls[features]
  /\ calls' = calls + 1
  /\ call' = [call EXCEPT ![c] = [Idle EXCEPT !.op = op, !.users = users, !.todo = users, !.pc = pc,
                 !.known = users \cap accounts, !.role = role, !.wantsLink = wantsLink]]
  /\ cache' \in IF "kept" \in features THEN {cache} ELSE {Absent, share}
  /\ UNCHANGED <<features, server, accounts, others>>

\* `share_node` asks first which of the people have keys, and so an account.
ShareNode(c) == \E users \in SUBSET Emails, role \in Roles, wantsLink \in BOOLEAN :
  /\ users # {} \/ wantsLink
  /\ Start(c, "share", users, role, wantsLink, "context")

UnshareNode(c) == \E users \in SUBSET Emails, wantsLink \in BOOLEAN :
  /\ users # {} \/ wantsLink
  /\ Start(c, "unshare", users, "viewer", wantsLink, "info")

CreatePublicLink(c) == Start(c, "link", {}, "viewer", TRUE, "context")

ConvertNonProtonInvitation(c) == \E e \in Emails :
  Start(c, "convert", {e}, "viewer", FALSE, "info")

\* The details of the node, when the cache does not have them.
GetNodeMetadata(c) ==
  /\ call[c].pc \in {"context", "info"} /\ cache = Absent
  /\ cache' = share
  /\ UNCHANGED <<features, server, accounts, call, calls, others>>

\* `load_share_context`: no share, or one that is gone, is an error.  share_node
\* and create_public_link make a share then, whatever the error was.
LoadShareContext(c) ==
  /\ call[c].pc = "context" /\ cache # Absent
  /\ IF cache = share /\ share # None
     THEN call' = [call EXCEPT ![c].id = share,
                      ![c].pc = CASE call[c].op = "share" -> "info"
                                  [] call[c].op = "link" -> "link"
                                  [] call[c].op = "convert" -> "users"]
     ELSE IF call[c].op = "convert" THEN End(c, "failed") ELSE To(c, "create")
  /\ UNCHANGED <<features, server, accounts, cache, calls, others>>

\* The cache is not told of the new share.
CreateShare(c) ==
  /\ call[c].pc = "create"
  /\ IF share = None /\ made < MaxShares
     THEN /\ NewShare
          /\ call' = [call EXCEPT ![c].id = made + 1,
                         ![c].pc = IF call[c].op = "share" THEN "info" ELSE "link"]
     ELSE End(c, "failed") /\ UNCHANGED server
  /\ UNCHANGED <<features, accounts, cache, calls, others>>

(* get_sharing_info *)

\* First the share of the node, then the invitations of it.
ReadInvitations(c) ==
  /\ call[c].pc = "info" /\ cache # Absent
  /\ LET o == call[c] IN
     IF cache = None
     THEN CASE o.op = "share" /\ ~o.last ->
                 call' = [call EXCEPT ![c].info = NoInfo, ![c].pc = "users"]
            [] o.op = "share" /\ o.last -> End(c, "missing")
            [] o.op = "unshare" -> End(c, "notShared")
            [] o.op = "convert" -> End(c, "failed")
     ELSE IF cache # share THEN End(c, "failed")
     ELSE call' = [call EXCEPT ![c].info = [NoInfo EXCEPT !.proton = Listed("proton")],
                      ![c].asked = cache, ![c].pc = "external",
                      ![c].id = IF o.op = "unshare" THEN cache ELSE @]
  /\ UNCHANGED <<features, server, accounts, cache, calls, others>>

ReadList(c, pc, next, infoWith) ==
  /\ call[c].pc = pc
  /\ IF call[c].asked = share
     THEN call' = [call EXCEPT ![c].info = infoWith, ![c].pc = next]
     ELSE End(c, "failed")
  /\ UNCHANGED <<features, server, accounts, cache, calls, others>>

ReadExternalInvitations(c) ==
  ReadList(c, "external", "members", [call[c].info EXCEPT !.external = Listed("external")])
ReadMembers(c) ==
  ReadList(c, "members", "urls", [call[c].info EXCEPT !.members = Listed("member")])

Nobody(info) == info.members = {} /\ info.proton = {} /\ info.external = {} /\ info.link = 0

ReadUrls(c) ==
  LET o == call[c]
      info == [o.info EXCEPT !.link = link]
  IN  /\ o.pc = "urls"
      /\ IF o.asked # share THEN End(c, "failed")
         ELSE CASE o.op \in {"share", "unshare"} /\ ~o.last ->
                     call' = [call EXCEPT ![c].info = info,
                                ![c].pc = IF o.op = "unshare" /\ o.wantsLink THEN "link" ELSE "users"]
                [] o.op = "link" -> End(c, IF info.link = 0 THEN "failed" ELSE "ok")
                [] o.op = "share" /\ o.last -> End(c, "ok")
                [] o.op = "unshare" /\ o.last ->
                     IF Nobody(info) THEN To(c, "drop") ELSE End(c, "ok")
                [] o.op = "convert" ->
                     IF \E e \in o.users : HasEntry(info.external, e) /\ e \in accounts
                     THEN call' = [call EXCEPT ![c].info = info, ![c].pc = "context"]
                     ELSE End(c, "failed")
      /\ UNCHANGED <<features, server, accounts, cache, calls, others>>

(* share_node: one request for each person who is not yet what they should be *)

\* The request for e: who is listed is changed if the role differs, who is not
\* listed is invited.
Wanted(o, e) ==
  LET invited == IF e \in o.known THEN o.info.proton ELSE o.info.external
      kind == IF e \in o.known THEN "proton" ELSE "external"
  IN  IF HasEntry(invited, e)
      THEN [do |-> IF RoleIn(invited, e) = o.role THEN "nothing" ELSE "role", kind |-> kind]
      ELSE IF HasEntry(o.info.members, e)
      THEN [do |-> IF RoleIn(o.info.members, e) = o.role THEN "nothing" ELSE "role", kind |-> "member"]
      ELSE [do |-> "invite", kind |-> kind]

\* People with an account come first.
NextUser(o, e) == e \in o.todo /\ (o.todo \cap o.known # {} => e \in o.known)

ShareUser(c) == \E e \in Emails :
  LET o == call[c]
      w == Wanted(o, e)
      rest == [o EXCEPT !.todo = @ \ {e}]
      done == call' = [TouchedBy(c, e) EXCEPT ![c] = rest]
  IN  /\ Running(c, {"share"}, "users") /\ NextUser(o, e)
      /\ CASE w.do = "nothing" -> call' = [call EXCEPT ![c] = rest] /\ UNCHANGED server
           [] w.do = "role" /\ CanChange(o.id, e, w.kind) ->
                SetRole(e, o.role) /\ done /\ UNCHANGED <<share, made, link, gens>>
           [] w.do = "invite" /\ CanInvite(o.id, e, "none") ->
                Invite(e, w.kind, o.role) /\ done /\ UNCHANGED <<share, made, link, gens>>
           [] OTHER -> End(c, "failed") /\ UNCHANGED server
      /\ UNCHANGED <<features, accounts, cache, calls, others>>

MutAfterUsers(o) ==   \* who is left is not asked
  CASE o.op = "unshare" -> "drop" [] o.wantsLink -> "link" [] OTHER -> "info"
AfterUsers(o) == IF o.op = "share" /\ o.wantsLink THEN "link" ELSE "info"

\* All people are done.  share_node makes or changes the link now, unshare_node
\* has removed it before; both read the lists once more.
UsersDone(c) ==
  /\ Running(c, {"share", "unshare"}, "users") /\ call[c].todo = {}
  /\ call' = [call EXCEPT ![c].last = TRUE, ![c].pc = AfterUsers(call[c])]
  /\ UNCHANGED <<features, server, accounts, cache, calls, others>>

\* A person without an account has got one: the invitation becomes a normal one.
ConvertUser(c) == \E e \in call[c].users :
  LET o == call[c] IN
  /\ Running(c, {"convert"}, "users")
  /\ IF CanInvite(o.id, e, "external")
     THEN /\ Invite(e, "proton", RoleIn(o.info.external, e))
          /\ call' = [TouchedBy(c, e) EXCEPT ![c] = Ended(@, "ok")]
          /\ UNCHANGED <<share, made, link, gens>>
     ELSE End(c, "failed") /\ UNCHANGED server
  /\ UNCHANGED <<features, accounts, cache, calls, others>>

\* The password of a link is a generated one, which is in its address, and a
\* custom one that may follow it.  An update keeps the generated part.
LinkAfter(o, update) == IF update THEN o.info.link ELSE gens + 1

PublicLink(c) ==
  LET o == call[c]
      update == o.op = "share" /\ o.info.link # 0
      next == IF o.op = "share" THEN [o EXCEPT !.pc = "info"]
              ELSE [o EXCEPT !.pc = "urls", !.asked = o.id]
  IN  /\ Running(c, {"share", "link"}, "link")
      /\ IF o.id = share /\ share # None /\ link = (IF update THEN o.info.link ELSE 0)
         THEN /\ link' = LinkAfter(o, update)
              /\ gens' = IF update THEN gens ELSE gens + 1
              /\ call' = [call EXCEPT ![c] = next]
              /\ UNCHANGED <<share, made, access>>
         ELSE End(c, "failed") /\ UNCHANGED server
      /\ UNCHANGED <<features, accounts, cache, calls, others>>

(* unshare_node: every entry that was listed for a person is removed, the member
   first; an entry that is gone by now ends the operation *)

\* The entries of e that are still to be removed, in the order of the requests.
MutToRemove(o, e) ==   \* the invitations of people without an account forgotten
  {i \in 1 .. 2 : HasEntry(IF i = 1 THEN o.info.members ELSE o.info.proton, e)}
ToRemove(o, e) ==
  LET kinds == <<[kind |-> "member", in |-> o.info.members], [kind |-> "proton", in |-> o.info.proton],
                 [kind |-> "external", in |-> o.info.external]>>
  IN  {i \in 1 .. 3 : HasEntry(kinds[i].in, e)}
KindAt == <<"member", "proton", "external">>
Drop(info, e, kind) ==
  LET without(entries) == {n \in entries : n.email # e}
  IN  CASE kind = "member" -> [info EXCEPT !.members = without(@)]
        [] kind = "proton" -> [info EXCEPT !.proton = without(@)]
        [] kind = "external" -> [info EXCEPT !.external = without(@)]

UnshareUser(c) == \E e \in call[c].todo :
  LET o == call[c]
      kind == KindAt[CHOOSE i \in ToRemove(o, e) : \A j \in ToRemove(o, e) : i <= j]
  IN  /\ Running(c, {"unshare"}, "users")
      /\ IF ToRemove(o, e) = {}
         THEN call' = [call EXCEPT ![c].todo = @ \ {e}] /\ UNCHANGED server
         ELSE IF CanChange(o.id, e, kind)
         THEN /\ Remove(e)
              /\ call' = [TouchedBy(c, e) EXCEPT ![c].info = Drop(o.info, e, kind)]
              /\ UNCHANGED <<share, made, link, gens>>
         ELSE End(c, "failed") /\ UNCHANGED server
      /\ UNCHANGED <<features, accounts, cache, calls, others>>

\* Before the people, the link.
RemoveLink(c) ==
  LET o == call[c] IN
  /\ Running(c, {"unshare"}, "link")
  /\ IF o.info.link = 0 THEN To(c, "users") /\ UNCHANGED server
     ELSE IF o.id = share /\ share # None /\ link = o.info.link
     THEN link' = 0 /\ To(c, "users") /\ UNCHANGED <<share, made, access, gens>>
     ELSE End(c, "failed") /\ UNCHANGED server
  /\ UNCHANGED <<features, accounts, cache, calls, others>>

\* Nobody is left: the share goes, by force.
DeleteShare(c) ==
  /\ Running(c, {"unshare"}, "drop")
  /\ IF call[c].id = share /\ share # None
     THEN /\ DropShare
          /\ call' = [d \in Callers |-> IF d = c THEN Ended(call[c], "ok")
                                        ELSE [call[d] EXCEPT !.touched = @ \cup WithAccess]]
     ELSE End(c, "failed") /\ UNCHANGED server
  /\ UNCHANGED <<features, accounts, cache, calls, others>>

-----------------------------------------------------------------------------
(* Other people, and other devices of the owner *)

Elsewhere == UNCHANGED <<features, accounts, cache, calls>>

AcceptInvitation(e) ==
  /\ access[e].kind = "proton"
  /\ access' = [access EXCEPT ![e].kind = "member"]
  /\ UNCHANGED <<share, made, link, gens, call, others>> /\ Elsewhere

RejectInvitation(e) ==
  /\ access[e].kind = "proton"
  /\ Remove(e) /\ call' = Touched(e)
  /\ UNCHANGED <<share, made, link, gens, others>> /\ Elsewhere

LeaveSharedNode(e) ==
  /\ access[e].kind = "member"
  /\ Remove(e) /\ call' = Touched(e)
  /\ UNCHANGED <<share, made, link, gens, others>> /\ Elsewhere

\* Someone who was invited without an account makes one.
Register(e) ==
  /\ e \notin accounts
  /\ accounts' = accounts \cup {e}
  /\ UNCHANGED <<features, server, cache, call, calls, others>>

Other ==
  /\ "others" \in features /\ others < MaxOthers
  /\ others' = others + 1
  /\ \/ \E e \in Emails, r \in Roles : /\ CanInvite(share, e, "none")
                                       /\ Invite(e, IF e \in accounts THEN "proton" ELSE "external", r)
                                       /\ call' = Touched(e)
                                       /\ UNCHANGED <<share, made, link, gens>>
     \/ \E e \in Emails : /\ access[e].kind # "none"
                          /\ Remove(e) /\ call' = Touched(e)
                          /\ UNCHANGED <<share, made, link, gens>>
     \/ \E e \in accounts : /\ access[e].kind = "external"
                             /\ Invite(e, "proton", access[e].role) /\ call' = Touched(e)
                             /\ UNCHANGED <<share, made, link, gens>>
     \/ share = None /\ made < MaxShares /\ NewShare /\ UNCHANGED call
     \/ share # None /\ DropShare /\ call' = [d \in Callers |-> [call[d] EXCEPT !.touched = Emails]]
  /\ Elsewhere

Next ==
  \/ \E c \in Callers : ShareNode(c)
  \/ \E c \in Callers : UnshareNode(c)
  \/ \E c \in Callers : CreatePublicLink(c)
  \/ \E c \in Callers : ConvertNonProtonInvitation(c)
  \/ \E c \in Callers : GetNodeMetadata(c)
  \/ \E c \in Callers : LoadShareContext(c)
  \/ \E c \in Callers : CreateShare(c)
  \/ \E c \in Callers : ReadInvitations(c)
  \/ \E c \in Callers : ReadExternalInvitations(c)
  \/ \E c \in Callers : ReadMembers(c)
  \/ \E c \in Callers : ReadUrls(c)
  \/ \E c \in Callers : ShareUser(c)
  \/ \E c \in Callers : UsersDone(c)
  \/ \E c \in Callers : ConvertUser(c)
  \/ \E c \in Callers : PublicLink(c)
  \/ \E c \in Callers : UnshareUser(c)
  \/ \E c \in Callers : RemoveLink(c)
  \/ \E c \in Callers : DeleteShare(c)
  \/ \E e \in Emails : AcceptInvitation(e)
  \/ \E e \in Emails : RejectInvitation(e)
  \/ \E e \in Emails : LeaveSharedNode(e)
  \/ \E e \in Emails : Register(e)
  \/ Other

Spec == Init /\ [][Next]_vars

-----------------------------------------------------------------------------
(* Properties *)

\* Every variable has its type.
TypeOK ==
  /\ features \subseteq Features
  /\ share \in 0 .. MaxShares /\ made \in 0 .. MaxShares
  /\ access \in [Emails -> Access]
  /\ link \in 0 .. gens /\ gens \in Nat
  /\ accounts \subseteq Emails
  /\ cache \in 0 .. Absent
  /\ \A c \in Callers : call[c].info \in Info /\ call[c].touched \subseteq Emails
  /\ calls \in 0 .. MaxCalls[features] /\ others \in 0 .. MaxOthers

\* unshare_node that found the share and ended well has left nobody it was asked
\* to remove, be it as a member or with an invitation of either kind, although
\* they may have answered the invitation between the lists.
RevokedIsGone == \A c \in Callers :
  (call[c].op = "unshare" /\ call[c].result = "ok") =>
    \A e \in call[c].users : access[e].kind = "none" \/ e \in call[c].touched

\* share_node that ended well has given everybody the role it was asked for.
SharedAsAsked == \A c \in Callers :
  (call[c].op = "share" /\ call[c].result = "ok") =>
    \A e \in call[c].users :
      (access[e].kind # "none" /\ access[e].role = call[c].role) \/ e \in call[c].touched

\* A node without a share is shared with nobody.
NoShareNoAccess ==
  share = None => link = 0 /\ \A e \in Emails : access[e].kind = "none"

SharingIsSound == TypeOK /\ RevokedIsGone /\ SharedAsAsked /\ NoShareNoAccess

\* unshare_node takes nothing from a person it was not asked to remove, also when
\* it deletes the share: not from one whose invitation is open or has just been
\* accepted.  And a link that is changed keeps its address.
NobodyIsDropped == [][
  /\ \A c \in Callers, e \in Emails :
       ( /\ call[c].op = "unshare" /\ call[c].pc # "idle" /\ call'[c] # call[c]
         /\ access[e].kind # "none" /\ access'[e].kind = "none" )
         => e \in call[c].users \cup call'[c].touched
  /\ (link # 0 /\ link' # 0) => link' = link ]_vars

\* What `pdcli share revoke` says it has done (pdcli/src/flags.rs 482): also an
\* unshare_node that takes the node for not shared has left nobody.  The cache is
\* not told when the node gets a share.
RevokeRemoves == \A c \in Callers :
  (call[c].op = "unshare" /\ call[c].result \in {"ok", "notShared"}) =>
    \A e \in call[c].users : access[e].kind = "none" \/ e \in call[c].touched
=============================================================================
