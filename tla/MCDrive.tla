------------------------------- MODULE MCDrive -------------------------------
(* The instances of the parts of the SDK that keep what they read of the drive, for
   one run: three nodes that are moved, renamed, trashed and read, or one node that
   is shared with two people; or an album whose photos are saved to the timeline, or a
   timeline whose copies are removed; or, on top of them, the window of the desktop app.
   `part' says which of them runs. *)
EXTENDS DriveNodes, FiniteSets, TLC

CONSTANTS Callers, Emails, Members0, MaxShares, MaxCalls,
          Pictures, Homes0, Related0, Place0, ContentOf, Live0, Folders, Pages, Runs, Batch, PageSize, MaxFaults, MaxAdded, MaxSent, MaxLogins
VARIABLES part, shareMode, share, made, access, publicLink, gens, accounts, shareCache, call, calls,
          elsewhere,
          home, members, album, copies, related, albumCall, saved, unread, lost, albumCalls, contributed,
          live, trash, dedupe, chosen, faults,
          mode, session, logins, app, sent, clicks, files, wanted, photos, rows, albumItems, view, more, back,
          bar, thumbnails

At(parent, name) == [parent |-> parent, name |-> name]

\* A folder with a child, and a folder whose sibling can be made.
MCLinks == {[n \in Nodes |-> CASE n = "a" -> At(Root, "x")
                              [] n = "b" -> At(Root, "y")
                              [] n = "c" -> At("b", "x")],
            [n \in Nodes |-> CASE n = "a" -> At(Root, "x")
                              [] n = "b" -> At("a", "x")
                              [] n = "c" -> NoPlace]}

\* Alone; with operations that overlap or with another client, in the first of the two.
MCModes == {{}, {"overlap"}, {"others"}}

\* The cache may be of any age; so, with other devices; as this machine left it.
MCShareCalls == [m \in {{}, {"others"}, {"kept"}} |-> IF m = {"others"} THEN 1 ELSE 2]

S == INSTANCE Sharing WITH Modes <- DOMAIN MCShareCalls, MaxCalls <- MCShareCalls,
                           features <- shareMode, link <- publicLink, cache <- shareCache, others <- elsewhere
shareVars == <<shareMode, share, made, access, publicLink, gens, accounts, shareCache, call, calls,
               elsewhere>>

\* Two photos of the own album, of others, or one that others add to; the second is
\* related to the first.
MCHomes == {[p \in Pictures |-> CASE p \in {1, 2} -> "album" [] p = 3 -> "none" [] OTHER -> "timeline"],
            [p \in Pictures |-> CASE p \in {1, 2} -> "shared" [] p = 3 -> "album" [] OTHER -> "none"],
            [p \in Pictures |-> IF p = 1 THEN "album" ELSE "none"]}
MCRelated == [p \in Pictures |-> IF p = 1 THEN {2} ELSE {}]
L == INSTANCE PhotoLibrary WITH Photos <- Pictures, MaxOthers <- MaxAdded,
                                call <- albumCall, calls <- albumCalls, others <- contributed
libraryVars == <<home, members, album, copies, related, albumCall, saved, unread, lost, albumCalls, contributed>>

\* Three copies of one photo, the newest with the highest uid, and one without a hash.
MCPlace == [p \in Pictures |-> CASE p = 3 -> 1 [] p = 1 -> 2 [] p = 4 -> 3 [] p = 2 -> 4]
MCContentOf == [p \in Pictures |-> IF p = 4 THEN "unknown" ELSE "a"]
MCLive == {{1, 3, 4}, {2, 3, 4}}
P == INSTANCE PhotoDedupe WITH Photos <- Pictures, Place <- Place0, run <- dedupe
dedupeVars == <<live, trash, dedupe, chosen, faults>>

\* The desktop app: the pages alone, a session that ends meanwhile, and a slow
\* `status'; two albums of two pages, one album on a page of the list.
MCAlbumList == <<"x", "y">>
MCMaxClicks == [m \in {{"files"}, {"photos"}, {"files", "account"}, {"photos", "account"},
                       {"account", "slow"}, {"files", "sharing"}, {"files", "sharing", "account"}} |->
                  IF m \in {{"files"}, {"files", "sharing"}} THEN 5
                  ELSE IF m = {"photos", "account"} THEN 2
                  ELSE IF "account" \in m /\ "slow" \notin m THEN 3 ELSE 4]
W == INSTANCE DesktopApp WITH AlbumList <- MCAlbumList, MaxClicks <- MCMaxClicks,
                              Modes <- DOMAIN MCMaxClicks
desktopVars == <<mode, session, logins, app, sent, clicks, files, wanted, photos, rows, albumItems, view,
                 more, back, bar, thumbnails>>

(* Those with an account are people, and each bound is a number. *)
ASSUME SharingIsGiven == Members0 \subseteq Emails /\ MaxShares \in Nat /\ MaxOthers \in Nat

(* Photos are numbers in the order of their uids, of which there are finitely many, and
   a photo has one place in the timeline. *)
ASSUME PicturesAreGiven == IsFiniteSet(Pictures) /\ Pictures \subseteq Nat \ {0}
ASSUME LibraryIsGiven ==
  /\ Homes0 \subseteq [Pictures -> L!Homes] /\ Related0 \in [Pictures -> SUBSET Pictures]
  /\ MaxCalls \in Nat /\ MaxAdded \in Nat
ASSUME DedupeIsGiven ==
  /\ Live0 \subseteq SUBSET Pictures /\ MaxFaults \in Nat
  /\ Place0 \in [Pictures -> Nat \ {0}] /\ \A p, q \in Pictures : Place0[p] = Place0[q] => p = q

(* The two tasks do the same things. *)
Symmetry == Permutations(Tasks)

driveVars == <<part, vars, shareVars, libraryVars, dedupeVars, desktopVars>>

\* The part that does not run stays in one state.
DriveInit ==
  /\ part \in {"nodes", "share", "library", "dedupe", "desktop"}
  /\ Init /\ S!Init /\ L!Init /\ P!Init /\ W!Init
  /\ part # "nodes" => features = {} /\ link["c"] = NoPlace
  /\ features # {} => link["c"] # NoPlace
  /\ part # "share" => shareMode = {}
  /\ part # "library" => home = CHOOSE h \in Homes0 : TRUE
  /\ part # "dedupe" => live = CHOOSE l \in Live0 : TRUE
  /\ part # "desktop" => mode = {"files"}

DriveNext ==
  \/ part = "nodes" /\ Next /\ UNCHANGED <<part, shareVars, libraryVars, dedupeVars, desktopVars>>
  \/ part = "share" /\ S!Next /\ UNCHANGED <<part, vars, libraryVars, dedupeVars, desktopVars>>
  \/ part = "library" /\ L!Next /\ UNCHANGED <<part, vars, shareVars, dedupeVars, desktopVars>>
  \/ part = "dedupe" /\ P!Next /\ UNCHANGED <<part, vars, shareVars, libraryVars, desktopVars>>
  \/ part = "desktop" /\ W!Next /\ UNCHANGED <<part, vars, shareVars, libraryVars, dedupeVars>>

DriveSpec == DriveInit /\ [][DriveNext]_driveVars

(* Safety: who has access is who the operations say they gave it to, or left it. *)
SharingIsSound == part = "share" => S!SharingIsSound

(* Action property: nobody loses access who was not to, and a link keeps its
   address. *)
NobodyIsDropped == S!NobodyIsDropped

(* Safety: no photo goes with an album that was not deleted with force, and what is
   said to be saved is; dedupes that run at once, on any device, leave one copy of each
   photo. *)
PhotosAreKept == /\ part = "library" => L!LibraryIsSound
                 /\ part = "dedupe" => P!DedupeIsSound

(* Safety: the window shows, and acts on, what the user asked for last, of the
   account that is signed in, in whatever order the answers come. *)
DesktopIsSound == part = "desktop" => W!DesktopIsSound
==============================================================================
