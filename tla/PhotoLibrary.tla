---------------------------- MODULE PhotoLibrary ----------------------------
(***************************************************************************)
(* The timeline and one album of the Photos volume (proton-drive-sdk's     *)
(* photo.rs and api/file/photos.rs): photos that are in the album only are *)
(* saved to the timeline, alone or so that the album can be deleted, while *)
(* the people it is shared with and the other devices of the owner change  *)
(* it.                                                                     *)
(*                                                                         *)
(* A photo may have related photos (the video of a live photo), which are  *)
(* saved with it: the server says which ones a request forgot.             *)
(***************************************************************************)
EXTENDS Naturals, Sequences, SequencesExt, FiniteSets

CONSTANTS
  Photos,     \* photos that are, or will be, in the library
  Homes0,     \* where they may be to start with
  Related0,   \* the related photos of each
  MaxCalls,   \* bound: calls of this machine
  MaxOthers   \* bound: changes made elsewhere

\* "shared": in the library of somebody else; "none": not uploaded yet.
Homes == {"timeline", "album", "shared", "none", "gone"}
NoPhoto == 0

VARIABLES
  home,     \* the folder each photo is in
  members,  \* the photos of the album
  album,    \* its name, 0 when it is deleted
  copies,   \* photos of others that were copied into the timeline
  related,  \* the related photos of each
  call,     \* the locals of the call
  saved,    \* history: photos that were said to be saved, with their related ones
  unread,   \* history: those of them whose answer was bad, or was not there, and was not read
  lost,     \* history: photos that went with the album although it was not forced
  calls, others

vars == <<home, members, album, copies, related, call, saved, unread, lost, calls, others>>

Idle == [op |-> "none", pc |-> "idle", save |-> FALSE, force |-> FALSE, todo |-> <<>>, photo |-> NoPhoto,
         extra |-> {}, read |-> {}, payload |-> {}, attempt |-> 0, digest |-> 0, result |-> "none"]

Init ==
  /\ home \in Homes0
  /\ members = {p \in Photos : home[p] = "album"}
  /\ album = 1
  /\ copies = {} /\ related = Related0
  /\ call = Idle
  /\ saved = {} /\ unread = {} /\ lost = {} /\ calls = 0 /\ others = 0

InTimeline(p) == home[p] = "timeline" \/ p \in copies

-----------------------------------------------------------------------------
(* The server (external) *)

InAlbumOnly == {p \in Photos : home[p] = "album"}
There(p) == home[p] \in {"timeline", "album", "shared"}

\* Without force the album stays while a photo is in it only.
MayDelete(force) == force \/ InAlbumOnly = {}
DeleteIt(force) ==
  /\ album' = 0 /\ members' = {}
  /\ home' = [p \in Photos |-> IF home[p] = "album" THEN "gone" ELSE home[p]]
  /\ lost' = IF call.force THEN lost ELSE lost \cup InAlbumOnly

\* The related photos a request forgot.
Missing(p, sent) == {q \in related[p] : There(q) /\ ~InTimeline(q)} \ sent
CanSave(p) == home[p] \in {"album", "shared"}

\* What it takes of the photos it is sent: all of a copy, or nothing; of a transfer
\* each photo for itself, but the main one only when no related one was forgotten.
Takes(p, sent, taken) ==
  /\ p \in taken => CanSave(p) /\ Missing(p, sent) = {}
  /\ home[p] = "shared" => taken \in {{}, {p} \cup sent}
Save(photos) ==
  /\ home' = [p \in Photos |-> IF p \in photos /\ home[p] = "album" THEN "timeline" ELSE home[p]]
  /\ copies' = copies \cup {p \in photos : home[p] = "shared"}

-----------------------------------------------------------------------------
(* Calls, one after the other *)

Begin(c) == call.pc = "idle" /\ calls < MaxCalls /\ calls' = calls + 1 /\ call' = c
Library == <<home, members, album, copies, related, saved, unread, lost>>
Return(result) == call' = [call EXCEPT !.pc = "idle", !.result = result]

\* The photos that are saved one after the other.
NextPhoto(c) ==
  IF c.todo = <<>> THEN [c EXCEPT !.pc = IF c.op = "delete" /\ c.result # "error" THEN "retry" ELSE "idle"]
  ELSE [c EXCEPT !.pc = "details", !.photo = Head(c.todo), !.todo = Tail(c.todo), !.extra = {}, !.attempt = 0]

\* One that fails does not keep the next from being saved, but an album from being
\* deleted.
Failed(c) == NextPhoto([c EXCEPT !.result = "error"])

DeleteAlbum ==
  /\ album # 0
  /\ \E force, save \in BOOLEAN :
       Begin([Idle EXCEPT !.op = "delete", !.pc = "delete", !.force = force, !.save = save])
  /\ UNCHANGED <<Library, others>>

\* The typed error names the photos, in any order.
DeleteRequest ==
  /\ call.pc = "delete"
  /\ IF album # 0 /\ MayDelete(call.force)
     THEN DeleteIt(call.force) /\ Return("ok") /\ UNCHANGED <<copies, related, saved, unread>>
     ELSE /\ IF album # 0 /\ call.save
             THEN \E todo \in SetToSeqs(InAlbumOnly) : call' = NextPhoto([call EXCEPT !.todo = todo])
             ELSE Return("error")
          /\ UNCHANGED Library
  /\ UNCHANGED <<calls, others>>

\* delete_album asks once more, and as it did the first time.
MutRetryForce == TRUE      \* the photos are saved, so the album is deleted with force
RetryForce == call.force
DeleteAgain ==
  /\ call.pc = "retry"
  /\ IF album # 0 /\ MayDelete(RetryForce)
     THEN DeleteIt(RetryForce) /\ Return("ok") /\ UNCHANGED <<copies, related, saved, unread>>
     ELSE Return("error") /\ UNCHANGED Library
  /\ UNCHANGED <<calls, others>>

SaveToTimeline ==
  /\ \E p, q \in Photos : p # q /\ There(p) /\ There(q) /\
       Begin(NextPhoto([Idle EXCEPT !.op = "save", !.todo = <<p, q>>]))
  /\ UNCHANGED <<Library, others>>

\* build_transfer_payload reads the photo, then each related one.  One that is in
\* the timeline is an error.
ReadDetails ==
  /\ call.pc = "details"
  /\ call' = IF ~There(call.photo) \/ home[call.photo] = "timeline" THEN Failed(call)
             ELSE [call EXCEPT !.pc = "related", !.payload = {}, !.read = related[call.photo] \cup call.extra]
  /\ UNCHANGED <<Library, calls, others>>

ReadRelated ==
  /\ call.pc = "related"
  /\ \/ call.read = {} /\ call' = [call EXCEPT !.pc = "transfer"]
     \/ \E q \in call.read :
          call' = IF ~There(q) \/ home[q] = "timeline" THEN Failed(call)
                  ELSE [call EXCEPT !.read = @ \ {q}, !.payload = @ \cup {q}]
  /\ UNCHANGED <<Library, calls, others>>

\* What a good end says is in the timeline.
Told(p) == {p} \cup call.payload \cup {q \in related[p] : There(q)}

\* transfer_same_volume or copy_cross_volume, which is tried again once with the
\* related photos that were missing.  Of the answers to a transfer only that for the
\* main photo is looked at, and it is taken for a good one when it is not there.
Transfer ==
  LET p == call.photo
      sent == {p} \cup call.payload
      missing == Missing(p, call.payload)
  IN
  /\ call.pc = "transfer"
  /\ \E taken \in SUBSET sent, answered \in BOOLEAN :
       /\ Takes(p, call.payload, taken) /\ Save(taken)
       /\ home[p] = "shared" => answered
       /\ \/ /\ p \in taken \/ ~answered
             /\ saved' = saved \cup Told(p)
             /\ unread' = unread \cup ((IF answered THEN sent ELSE Told(p)) \ taken)
             /\ call' = NextPhoto(call)
          \/ /\ p \notin taken /\ answered
             /\ call' = IF missing = {} \/ ~CanSave(p) \/ call.attempt = 1 THEN Failed(call)
                        ELSE [call EXCEPT !.pc = "details", !.attempt = 1, !.extra = missing]
             /\ UNCHANGED <<saved, unread>>
  /\ UNCHANGED <<members, album, related, lost, calls, others>>

\* Any of the requests may fail; a transfer also when it was done.
RequestFails ==
  /\ call.pc \in {"details", "related", "transfer"}
  /\ call' = Failed(call)
  /\ \E taken \in SUBSET ({call.photo} \cup call.payload) :
       /\ call.pc # "transfer" => taken = {}
       /\ Takes(call.photo, call.payload, taken) /\ Save(taken)
  /\ UNCHANGED <<members, album, related, saved, unread, lost, calls, others>>

\* add_photos_to_album reads the photo and encrypts it for the album.
AddPhoto == \E p \in Photos :
  /\ album # 0 /\ There(p)
  /\ Begin([Idle EXCEPT !.op = "add", !.pc = "add", !.photo = p]) /\ UNCHANGED <<Library, others>>
AddRequest ==
  /\ call.pc = "add"
  /\ IF album # 0 /\ There(call.photo)
     THEN members' = members \cup {call.photo} /\ Return("ok")
     ELSE UNCHANGED members /\ Return("error")
  /\ UNCHANGED <<home, album, copies, related, saved, unread, lost, calls, others>>

\* For a photo of the timeline; the answer is not looked at.
RemovePhoto == \E p \in members :
  /\ home[p] = "timeline"
  /\ Begin([Idle EXCEPT !.op = "remove", !.result = "ok"])
  /\ members' = members \ {p}
  /\ UNCHANGED <<home, album, copies, related, saved, unread, lost, others>>

\* update_album with a new name, for the name of the album of that moment; whether
\* it was refused is not looked at either.
UpdateAlbum ==
  /\ album # 0
  /\ Begin([Idle EXCEPT !.op = "rename", !.pc = "rename", !.digest = album])
  /\ UNCHANGED <<Library, others>>
RenameRequest ==
  /\ call.pc = "rename"
  /\ album' = IF album = call.digest THEN 2 ELSE album
  /\ Return("ok")
  /\ UNCHANGED <<home, members, copies, related, saved, unread, lost, calls, others>>

\* create_album; here one album at a time.
CreateAlbum ==
  /\ album = 0 /\ Begin([Idle EXCEPT !.op = "create", !.pc = "create"]) /\ UNCHANGED <<Library, others>>
CreateRequest ==
  /\ call.pc = "create"
  /\ \/ album' = 1 /\ Return("ok")
     \/ Return("error") /\ UNCHANGED album
  /\ UNCHANGED <<home, members, copies, related, saved, unread, lost, calls, others>>

\* favorite_photo, off and on: update_photos of one photo of the own volume.
FavoritePhoto == \E p \in Photos :
  /\ home[p] \in {"timeline", "album"} /\ UNCHANGED <<Library, others>>
  /\ \/ \E r \in {"ok", "error"} : Begin([Idle EXCEPT !.op = "favorite", !.result = r])
     \/ Begin([Idle EXCEPT !.op = "favorite", !.pc = "parent", !.photo = p])

\* build_favorite_payload: nothing for a photo of the timeline, and nothing when it
\* cannot be built, which is no error.  Related photos are left out.
FavoritePayload ==
  /\ call.pc \in {"parent", "build"} /\ UNCHANGED <<Library, calls, others>>
  /\ \/ call' = [call EXCEPT !.pc = "favorite"]
     \/ home[call.photo] = "album" /\ call.pc = "parent" /\ call' = [call EXCEPT !.pc = "build"]
     \/ There(call.photo) /\ call.pc = "build"
        /\ call' = [call EXCEPT !.pc = "favorite", !.payload = {call.photo}]

\* set_photo_favorite saves a photo of the album, if the server has what it needs for
\* that; the answer is not looked at.
SetPhotoFavorite ==
  /\ call.pc = "favorite"
  /\ \/ Save({p \in call.payload : home[p] = "album"})
     \/ UNCHANGED <<home, copies>>
  /\ Return("ok") \/ Return("error")
  /\ UNCHANGED <<members, album, related, saved, unread, lost, calls, others>>

\* Somebody the album is shared with adds a photo, or the related one of a photo; the
\* owner's other device saves one, renames the album or deletes it.
Other ==
  /\ others < MaxOthers /\ others' = others + 1
  /\ \/ \E p \in Photos :
          /\ album # 0 /\ home[p] = "none"
          /\ home' = [home EXCEPT ![p] = "album"] /\ members' = members \cup {p}
          /\ \/ UNCHANGED related
             \/ \E q \in InAlbumOnly : related' = [related EXCEPT ![q] = @ \cup {p}]
          /\ UNCHANGED <<album, copies, lost>>
     \/ \E p \in InAlbumOnly :
          /\ Save({p} \cup related[p]) /\ UNCHANGED <<members, album, related, lost>>
     \/ album # 0 /\ album' = 3 /\ UNCHANGED <<home, members, copies, related, lost>>
     \/ /\ album # 0 /\ InAlbumOnly = {}
        /\ album' = 0 /\ members' = {} /\ UNCHANGED <<home, copies, related, lost>>
  /\ UNCHANGED <<call, saved, unread, calls>>

Next ==
  \/ DeleteAlbum
  \/ DeleteRequest
  \/ DeleteAgain
  \/ SaveToTimeline
  \/ ReadDetails
  \/ ReadRelated
  \/ Transfer
  \/ RequestFails
  \/ AddPhoto
  \/ AddRequest
  \/ RemovePhoto
  \/ UpdateAlbum
  \/ RenameRequest
  \/ CreateAlbum
  \/ CreateRequest
  \/ FavoritePhoto
  \/ FavoritePayload
  \/ SetPhotoFavorite
  \/ Other

Spec == Init /\ [][Next]_vars

-----------------------------------------------------------------------------
(* Properties *)

\* Every variable has its type.
TypeOK ==
  /\ home \in [Photos -> Homes] /\ members \subseteq Photos /\ album \in 0 .. 3
  /\ copies \subseteq Photos /\ related \in [Photos -> SUBSET Photos]
  /\ saved \cup unread \cup lost \cup call.extra \cup call.read \cup call.payload \subseteq Photos
  /\ calls \in 0 .. MaxCalls /\ others \in 0 .. MaxOthers

\* An album that is deleted without force takes no photo with it: not one that was
\* added after the others were saved, nor one whose save failed.
NothingIsLost == lost = {}

\* A photo that was said to be saved is in the timeline, with the related ones it
\* had then, whatever was uploaded between the two attempts; but for photos that were
\* sent and that the server did not take, link by link, while its answer for the main
\* photo was good or left out (photo.rs 1237-1248): of those nobody is told.
SavedIsWhole == \A p \in saved : InTimeline(p) \/ p \in unread

\* delete_album says it is done only of an album that is gone.
DeletedIsGone == call.op = "delete" /\ call.pc = "idle" /\ call.result = "ok" => album = 0

LibraryIsSound == TypeOK /\ NothingIsLost /\ SavedIsWhole /\ DeletedIsGone
=============================================================================
