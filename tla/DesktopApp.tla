----------------------------- MODULE DesktopApp -----------------------------
(***************************************************************************)
(* The desktop app (crates/pdcli/src/bin/pdcli-gui.rs).  Its window is one  *)
(* thread; all it knows comes from `pdcli' processes, each run by a thread  *)
(* of its own that sends what it said to the window when it ends.  So the   *)
(* answers to what the user clicked come in any order, to a window that may *)
(* show something else by then, or another account.                         *)
(*                                                                         *)
(* The answers that replace what is shown carry the number of their request *)
(* (load_files, load_photos, load_albums, load_album), the others the item  *)
(* they are about, and those of `status' nothing.                           *)
(***************************************************************************)
EXTENDS Naturals, Sequences, FiniteSets, Functions

CONSTANTS Folders,     \* places of the Files page
          AlbumList,   \* the names of albums as they are listed, one a page
          Pages,       \* pages of the timeline and of each album
          MaxClicks,   \* bound: what the user does, and the timer asks, in each mode
          MaxSent,     \* bound: answers on their way when the user clicks
          MaxLogins,   \* bound: accounts the CLI is signed in to, one after the other
          Modes        \* what may happen: sets of the features below

\* "files" and "photos": the pages the user opens; "account": the user signs out
\* and in, and the session may end; "slow": `status' may take longer than a sign-in;
\* "sharing": the user shares the files.
Features == {"files", "photos", "account", "slow", "sharing"}

None == 0
Nowhere == "nowhere"
NoPhoto == [of |-> Nowhere, page |-> 0, account |-> None]
Photo == [of : {"timeline"} \cup Range(AlbumList), page : 1 .. Pages, account : 1 .. MaxLogins]

\* The window "Share": the item in its title, the item whose link it shows, and
\* the command it asks to confirm.
NoCommand == [op |-> "none", uid |-> Nowhere]
Closed == [open |-> FALSE, title |-> Nowhere, link |-> Nowhere, confirm |-> NoCommand]

VARIABLES
  mode,        \* the mode of the behaviour
  session,     \* the account the CLI has credentials for
  logins,      \* number of accounts so far
  app,         \* authenticated, the account that is shown, whether it may sign in, and share_window
  sent,        \* answers on their way to the window
  clicks,      \* number of clicks so far
  files,       \* FilesState, of the trail the last folder, and the account of the items
  wanted,      \* history: the folder that was asked for last, and the view
  photos,      \* PhotosState
  rows,        \* the photos in the lists of the timeline and of the album
  albumItems,  \* the albums in the list of albums, and their account
  view,        \* photos_views: the list that is shown
  more, back,  \* the buttons load_more and back_to_albums
  bar,         \* photo_bar and the photo of photo_web
  thumbnails   \* PhotoThumbnails

photoVars == <<photos, rows, albumItems, view, more, back, bar, thumbnails>>
vars == <<mode, session, logins, app, sent, clicks, files, wanted, photoVars>>

Init ==
  /\ mode \in Modes
  /\ session = 1 /\ logins = 1
  /\ app = [authenticated |-> FALSE, shown |-> None, ready |-> FALSE, wrong |-> FALSE, panel |-> Closed]
  /\ sent = {[kind |-> "account", account |-> 1]}
  /\ clicks = 0
  /\ files = [request |-> 0, folder |-> Nowhere, account |-> None, selected |-> Nowhere]
  /\ wanted = [folder |-> Nowhere, view |-> Nowhere]
  /\ photos = [request |-> 0, next |-> None, albums |-> None, album |-> None, uid |-> Nowhere,
               selected |-> NoPhoto, items |-> <<>>]
  /\ rows = [l \in {"timeline", "album"} |-> <<>>]
  /\ albumItems = [count |-> 0, account |-> None]
  /\ view = "timeline"
  /\ more = [visible |-> FALSE, sensitive |-> TRUE] /\ back = FALSE
  /\ bar = [revealed |-> FALSE, link |-> NoPhoto]
  /\ thumbnails = [textures |-> {}, waiting |-> {}]

\* The window "Share" is modal.
OnPage(page) == app.authenticated /\ page \in mode /\ ~app.panel.open
Click == clicks < MaxClicks[mode] /\ Cardinality(sent) < MaxSent /\ clicks' = clicks + 1
Has(feature) == feature \in mode

-----------------------------------------------------------------------------
(* Requests.  What a process will say is what the account of the moment has. *)

\* load_files.
FilesReply(folder) ==
  [kind |-> "files", n |-> files.request + 1, folder |-> folder, account |-> session]
LoadFiles(folder) ==
  /\ files' = [files EXCEPT !.request = @ + 1]
  /\ sent' = sent \cup {FilesReply(folder)}
  /\ wanted' = [wanted EXCEPT !.folder = folder]

\* load_photos, load_albums, load_album.  `of' is the account the cursor or the
\* album is from: for another one the answer is an error.
PhotosReply(kind, uid, cursor, of) ==
  [kind |-> kind, n |-> photos.request + 1, uid |-> uid, cursor |-> cursor,
   account |-> IF of = session THEN session ELSE None]

\* load_thumbnails, for the photos that are neither here nor asked for.
Unseen(items) == {p \in items : p \notin thumbnails.textures /\ p \notin thumbnails.waiting}

-----------------------------------------------------------------------------
(* The Files page *)

\* A folder, a crumb, the parent, a toggle or Refresh.
Navigate(folder) ==
  /\ OnPage("files") /\ Click
  /\ LoadFiles(folder)
  /\ UNCHANGED <<mode, session, logins, app, photoVars>>

SelectFile ==
  /\ OnPage("files") /\ Click /\ files.folder # Nowhere /\ files.selected = Nowhere
  /\ files' = [files EXCEPT !.selected = files.folder]
  /\ UNCHANGED <<mode, session, logins, app, sent, wanted, photoVars>>

\* Rename, trash, keep offline and the other actions on the selected item.
FileAction ==
  /\ OnPage("files") /\ Click /\ files.selected # Nowhere
  /\ sent' = sent \cup {[kind |-> "file action", account |-> session]}
  /\ UNCHANGED <<mode, session, logins, app, files, wanted, photoVars>>

\* An action that is done loads the folder that is shown again.  It takes the place
\* of one that the user opened meanwhile and that is still on its way.
FileActionDone(e) ==
  /\ e.kind = "file action"
  /\ IF app.authenticated /\ e.account # None
     THEN /\ files' = [files EXCEPT !.request = @ + 1]
          /\ sent' = (sent \ {e}) \cup {FilesReply(files.folder)}
          /\ wanted' = [wanted EXCEPT !.folder = files.folder]
     ELSE sent' = sent \ {e} /\ UNCHANGED <<files, wanted>>
  /\ UNCHANGED <<mode, session, logins, app, clicks, photoVars>>

FilesCome(e, ok) ==
  /\ e.kind = "files" /\ sent' = sent \ {e}
  /\ ok => e.account # None
  /\ IF e.n # files.request
     THEN ok /\ UNCHANGED <<files, wanted>>
     ELSE IF ok
     THEN /\ files' = [files EXCEPT !.folder = e.folder, !.account = e.account, !.selected = Nowhere]
          /\ UNCHANGED wanted
     ELSE UNCHANGED files /\ wanted' = [wanted EXCEPT !.folder = files.folder]
  /\ UNCHANGED <<mode, session, logins, app, clicks, photoVars>>

-----------------------------------------------------------------------------
(* The window "Share" of the selected item *)

Sharing == "sharing" \in mode /\ app.authenticated /\ app.panel.open
ShareCommand(op, uid) == [kind |-> "share", op |-> op, uid |-> uid, account |-> session, n |-> clicks]

OpenShare ==
  /\ OnPage("sharing") /\ Click /\ files.selected # Nowhere
  /\ app' = [app EXCEPT !.panel = [Closed EXCEPT !.open = TRUE, !.title = files.selected]]
  /\ sent' = sent \cup {ShareCommand("status", files.selected)}
  /\ UNCHANGED <<mode, session, logins, files, wanted, photoVars>>

\* It hides, and what it shows stays.
CloseShare ==
  /\ Sharing /\ app.panel.confirm = NoCommand /\ app' = [app EXCEPT !.panel.open = FALSE]
  /\ UNCHANGED <<mode, session, logins, sent, clicks, files, wanted, photoVars>>

\* "Check Sharing", "Create or Update Link" and "Invite", of the item that is
\* selected; there is none when the list was loaded again meanwhile.
ShareClicked(op) ==
  /\ Sharing /\ app.panel.confirm = NoCommand /\ Click /\ files.selected # Nowhere
  /\ sent' = sent \cup {ShareCommand(op, files.selected)}
  /\ UNCHANGED <<mode, session, logins, app, files, wanted, photoVars>>

\* "Remove Link" and "Remove": confirm_dialog keeps the uid of the item.
AskToRemove(op) ==
  /\ Sharing /\ app.panel.confirm = NoCommand /\ files.selected # Nowhere
  /\ app' = [app EXCEPT !.panel.confirm = [op |-> op, uid |-> files.selected]]
  /\ UNCHANGED <<mode, session, logins, sent, clicks, files, wanted, photoVars>>
Confirmed(yes) ==
  /\ Sharing /\ app.panel.confirm # NoCommand
  /\ app' = [app EXCEPT !.panel.confirm = NoCommand]
  /\ IF yes THEN Click /\ sent' = sent \cup {ShareCommand(app.panel.confirm.op, app.panel.confirm.uid)}
     ELSE UNCHANGED <<sent, clicks>>
  /\ UNCHANGED <<mode, session, logins, files, wanted, photoVars>>

\* What is said of an item that is not selected any more is dropped.
MutIsSelected(uid) == TRUE      \* the answers are for whatever is shown
IsSelected(uid) == files.selected = uid
Linked(e, link) == app' = [app EXCEPT !.panel.link = IF link THEN e.uid ELSE Nowhere]
ShareCome(e, ok) ==
  /\ e.kind = "share" /\ (ok => e.account # None)
  /\ IF ~ok \/ ~IsSelected(e.uid)
     THEN sent' = sent \ {e} /\ UNCHANGED app
     ELSE \/ /\ e.op \in {"status", "link"} /\ sent' = sent \ {e}
             /\ \/ Linked(e, TRUE)
                \/ e.op = "status" /\ Linked(e, FALSE)
          \/ /\ e.op \in {"remove", "invite", "revoke"}
             /\ sent' = (sent \ {e}) \cup {[e EXCEPT !.op = "status", !.account = session]}
             /\ IF e.op = "remove" THEN Linked(e, FALSE) ELSE UNCHANGED app
  /\ UNCHANGED <<mode, session, logins, clicks, files, wanted, photoVars>>

-----------------------------------------------------------------------------
(* The Photos page *)

SelectNone == bar' = [bar EXCEPT !.revealed = FALSE, !.link = NoPhoto]

\* The button "Timeline", and the end of an import.
ShowTimeline(gone) ==
  /\ view' = "timeline"
  /\ rows' = [rows EXCEPT !["timeline"] = <<>>]
  /\ photos' = [photos EXCEPT !.items = <<>>, !.selected = NoPhoto, !.request = @ + 1]
  /\ sent' = (sent \ gone) \cup {PhotosReply("photos", "timeline", None, session)}
  /\ wanted' = [wanted EXCEPT !.view = "timeline"]
  /\ more' = [visible |-> FALSE, sensitive |-> TRUE]
  /\ SelectNone
  /\ UNCHANGED <<mode, session, logins, app, files, albumItems, back, thumbnails>>

\* The button "Albums", and the end of the creation of an album.
ShowAlbums(gone) ==
  /\ view' = "albums"
  /\ albumItems' = [count |-> 0, account |-> None]
  /\ photos' = [photos EXCEPT !.albums = None, !.selected = NoPhoto, !.request = @ + 1]
  /\ sent' = (sent \ gone) \cup {PhotosReply("albums", Nowhere, None, session)}
  /\ wanted' = [wanted EXCEPT !.view = "albums"]
  /\ more' = [visible |-> FALSE, sensitive |-> TRUE]
  /\ SelectNone
  /\ UNCHANGED <<mode, session, logins, app, files, rows, back, thumbnails>>

TimelineClicked == OnPage("photos") /\ Click /\ ShowTimeline({})
AlbumsClicked == OnPage("photos") /\ Click /\ ShowAlbums({})

MutBackRequest == photos.request      \* an album on its way is not dropped
BackRequest == photos.request + 1
BackClicked ==
  /\ OnPage("photos") /\ Click /\ back
  /\ view' = "albums" /\ back' = FALSE
  /\ photos' = [photos EXCEPT !.request = BackRequest, !.selected = NoPhoto]
  /\ more' = [visible |-> photos.albums # None, sensitive |-> TRUE]
  /\ wanted' = [wanted EXCEPT !.view = "albums"]
  /\ SelectNone
  /\ UNCHANGED <<mode, session, logins, app, sent, files, rows, albumItems, thumbnails>>

\* A row of the list of albums.
AlbumActivated(a) ==
  /\ OnPage("photos") /\ Click /\ view = "albums" /\ a \in 1 .. albumItems.count
  /\ more' = [visible |-> FALSE, sensitive |-> TRUE]
  /\ photos' = [photos EXCEPT !.uid = AlbumList[a], !.album = None, !.selected = NoPhoto, !.request = @ + 1]
  /\ sent' = sent \cup {PhotosReply("album", AlbumList[a], None, albumItems.account)}
  /\ wanted' = [wanted EXCEPT !.view = AlbumList[a]]
  /\ SelectNone
  /\ UNCHANGED <<mode, session, logins, app, files, rows, albumItems, view, back, thumbnails>>

\* The next page of the list that is shown.
LoadMore ==
  LET of == IF view = "albums" THEN albumItems.account
            ELSE IF photos.items = <<>> THEN None ELSE photos.items[1].account
      r == CASE view = "timeline" -> PhotosReply("photos", "timeline", photos.next, of)
             [] view = "albums" -> PhotosReply("albums", Nowhere, photos.albums, of)
             [] view = "album" -> PhotosReply("album", photos.uid, photos.album, of)
  IN  /\ OnPage("photos") /\ Click /\ more.visible /\ more.sensitive
      /\ more' = [more EXCEPT !.sensitive = FALSE]
      /\ IF r.cursor = None THEN UNCHANGED <<photos, sent>>
         ELSE photos' = [photos EXCEPT !.request = @ + 1] /\ sent' = sent \cup {r}
      /\ UNCHANGED <<mode, session, logins, app, files, wanted, rows, albumItems, view, back, bar, thumbnails>>

\* A row of the timeline or of the album: the item with its index.
PhotoSelected(i) ==
  /\ OnPage("photos") /\ Click /\ view # "albums"
  /\ i <= Len(rows[view]) /\ i <= Len(photos.items) /\ photos.selected # photos.items[i]
  /\ photos' = [photos EXCEPT !.selected = photos.items[i]]
  /\ bar' = [revealed |-> TRUE, link |-> NoPhoto]
  /\ sent' = sent \cup {[kind |-> "web", uid |-> photos.items[i]]}
  /\ UNCHANGED <<mode, session, logins, app, files, wanted, rows, albumItems, view, more, back, thumbnails>>

WebCome(e) ==
  /\ e.kind = "web" /\ sent' = sent \ {e}
  /\ bar' = IF photos.selected = e.uid THEN [bar EXCEPT !.link = e.uid] ELSE bar
  /\ UNCHANGED <<mode, session, logins, app, clicks, files, wanted, photos, rows, albumItems, view, more, back,
                 thumbnails>>

\* An import, or a new album; when it is done the button is clicked.
PhotoCommand(kind) ==
  /\ OnPage("photos") /\ Click
  /\ sent' = sent \cup {[kind |-> kind, account |-> session]}
  /\ UNCHANGED <<mode, session, logins, app, files, wanted, photoVars>>
PhotoCommandDone(e) ==
  /\ UNCHANGED clicks
  /\ \/ e.kind = "import" /\ e.account # None /\ ShowTimeline({e})
     \/ e.kind = "create album" /\ e.account # None /\ ShowAlbums({e})
     \/ /\ e.kind \in {"import", "create album"} /\ e.account = None
        /\ sent' = sent \ {e}
        /\ UNCHANGED <<mode, session, logins, app, files, wanted, photoVars>>

\* show_photos: the rows of a page, instead of those in the list or after them.
\* The list that is cleared tells of its selection that it is gone.
ShowPhotos(list, e, page, next) ==
  LET new == [of |-> e.uid, page |-> page, account |-> e.account]
      shown == IF e.cursor = None THEN <<new>> ELSE rows[list] \o <<new>>
      asked == Unseen({new})
  IN  /\ rows' = [rows EXCEPT ![list] = shown]
      /\ photos' = [photos EXCEPT
            !.items = IF e.cursor = None THEN <<new>> ELSE @ \o <<new>>,
            !.selected = IF e.cursor = None THEN NoPhoto ELSE @,
            !.next = IF list = "timeline" THEN next ELSE @,
            !.album = IF list = "album" THEN next ELSE @]
      /\ bar' = IF e.cursor = None /\ \E i \in 1 .. Len(rows[list]) : rows[list][i] = photos.selected
                THEN [revealed |-> FALSE, link |-> NoPhoto] ELSE bar
      /\ thumbnails' = [thumbnails EXCEPT !.waiting = @ \cup asked]
      /\ sent' = (sent \ {e}) \cup {[kind |-> "thumbnail", uid |-> p] : p \in asked}
      /\ more' = [visible |-> next # None, sensitive |-> TRUE]
      /\ view' = list /\ back' = (list = "album")

Page(cursor) == IF cursor = None THEN 1 ELSE cursor
After(page, last) == IF page < last THEN page + 1 ELSE None

\* A page of the timeline, of the albums or of one album; or the failure.
PhotosCome(e, ok) ==
  /\ e.kind \in {"photos", "albums", "album"}
  /\ ok => e.account # None
  /\ IF e.n # photos.request \/ (e.kind = "album" /\ e.uid # photos.uid)
     THEN ok /\ sent' = sent \ {e} /\ UNCHANGED photoVars
     ELSE IF ~ok
     THEN /\ more' = [more EXCEPT !.sensitive = TRUE] /\ sent' = sent \ {e}
          /\ UNCHANGED <<photos, rows, albumItems, view, back, bar, thumbnails>>
     ELSE \/ /\ e.kind = "photos"
             /\ ShowPhotos("timeline", e, Page(e.cursor), After(Page(e.cursor), Pages))
             /\ UNCHANGED albumItems
          \/ /\ e.kind = "album"
             /\ ShowPhotos("album", e, Page(e.cursor), After(Page(e.cursor), Pages))
             /\ UNCHANGED albumItems
          \/ LET next == After(Page(e.cursor), Len(AlbumList)) IN
             /\ e.kind = "albums" /\ sent' = sent \ {e}
             /\ albumItems' = [count |-> Page(e.cursor), account |-> e.account]
             /\ photos' = [photos EXCEPT !.albums = next]
             /\ more' = [visible |-> next # None, sensitive |-> TRUE]
             /\ view' = "albums" /\ back' = FALSE
             /\ UNCHANGED <<rows, bar, thumbnails>>
  /\ UNCHANGED <<mode, session, logins, app, clicks, files, wanted>>

\* load_thumbnails answers for every photo, if only that there is none.
ThumbnailComes(e) ==
  /\ e.kind = "thumbnail" /\ sent' = sent \ {e}
  /\ \E textures \in {{e.uid}, {}} :
       thumbnails' = [waiting |-> thumbnails.waiting \ {e.uid}, textures |-> thumbnails.textures \cup textures]
  /\ UNCHANGED <<mode, session, logins, app, clicks, files, wanted, photos, rows, albumItems, view, more, back,
                 bar>>

-----------------------------------------------------------------------------
(* The account *)

\* The credentials were read: the window shows the pages of the account, or the
\* page to sign in.
AccountComes(e) ==
  /\ e.kind = "account"
  /\ IF e.account # None
     THEN /\ app' = [app EXCEPT !.authenticated = TRUE, !.shown = e.account]
          /\ files' = [files EXCEPT !.request = @ + 1]
          /\ photos' = [photos EXCEPT !.request = @ + 1]
          /\ sent' = (sent \ {e}) \cup {FilesReply("root"), PhotosReply("photos", "timeline", None, session)}
          /\ wanted' = [folder |-> "root", view |-> Nowhere]
          /\ UNCHANGED bar
     ELSE /\ app' = [app EXCEPT !.authenticated = FALSE, !.shown = None, !.ready = TRUE, !.panel.open = FALSE]
          /\ files' = [files EXCEPT !.request = @ + 1, !.selected = Nowhere]
          /\ photos' = [photos EXCEPT !.request = @ + 1, !.selected = NoPhoto]
          /\ bar' = [bar EXCEPT !.revealed = FALSE]
          /\ sent' = sent \ {e} /\ UNCHANGED wanted
  /\ UNCHANGED <<mode, session, logins, clicks, rows, albumItems, view, more, back, thumbnails>>

OnlyApp == UNCHANGED <<mode, files, wanted, photoVars>>

\* `pdcli login'.
SignIn ==
  /\ Has("account") /\ ~app.authenticated /\ app.ready /\ logins < MaxLogins
  /\ "slow" \in mode \/ \A e \in sent : e.kind # "status"
  /\ session' = logins + 1 /\ logins' = logins + 1
  /\ app' = [app EXCEPT !.ready = FALSE]
  /\ sent' = sent \cup {[kind |-> "sign in"]}
  /\ UNCHANGED clicks /\ OnlyApp
SignInDone(e) ==
  /\ e.kind = "sign in"
  /\ sent' = (sent \ {e}) \cup {[kind |-> "account", account |-> session]}
  /\ app' = [app EXCEPT !.ready = TRUE]
  /\ UNCHANGED <<session, logins, clicks>> /\ OnlyApp

\* `pdcli logout', for the user or by the window itself.
Logout == session' = None /\ UNCHANGED logins
SignOut ==
  /\ OnPage("account") /\ Click
  /\ Logout
  /\ sent' = sent \cup {[kind |-> "sign out"]}
  /\ UNCHANGED app /\ OnlyApp

\* The photos stay as they are.
SignOutDone(e) ==
  /\ e.kind = "sign out" /\ sent' = sent \ {e}
  /\ app' = [app EXCEPT !.authenticated = FALSE, !.shown = None, !.ready = TRUE, !.panel.open = FALSE]
  /\ files' = [request |-> files.request + 1, folder |-> Nowhere, account |-> None, selected |-> Nowhere]
  /\ UNCHANGED <<mode, session, logins, clicks, wanted, photoVars>>

\* The CLI removes credentials that Proton rejects.
Expire ==
  /\ Has("account") /\ session # None
  /\ Logout /\ UNCHANGED <<app, sent, clicks>> /\ OnlyApp

\* The timer.
RefreshStatus ==
  /\ Has("account") /\ app.authenticated /\ Click
  /\ sent' = sent \cup {[kind |-> "status", signedIn |-> session # None]}
  /\ UNCHANGED <<session, logins, app>> /\ OnlyApp
StatusComes(e) ==
  /\ e.kind = "status"
  /\ IF ~e.signedIn /\ app.authenticated
     THEN /\ Logout
          /\ app' = [app EXCEPT !.authenticated = FALSE, !.wrong = @ \/ session # None]
          /\ sent' = (sent \ {e}) \cup {[kind |-> "sign out"]}
     ELSE sent' = sent \ {e} /\ UNCHANGED <<session, logins, app>>
  /\ UNCHANGED clicks /\ OnlyApp

Next ==
  \/ \E f \in Folders : Navigate(f)
  \/ SelectFile
  \/ FileAction
  \/ \E e \in sent : FileActionDone(e)
  \/ \E e \in sent, ok \in BOOLEAN : FilesCome(e, ok)
  \/ OpenShare
  \/ CloseShare
  \/ \E op \in {"status", "link", "invite"} : ShareClicked(op)
  \/ \E op \in {"remove", "revoke"} : AskToRemove(op)
  \/ \E yes \in BOOLEAN : Confirmed(yes)
  \/ \E e \in sent, ok \in BOOLEAN : ShareCome(e, ok)
  \/ TimelineClicked
  \/ AlbumsClicked
  \/ BackClicked
  \/ \E a \in 1 .. Len(AlbumList) : AlbumActivated(a)
  \/ LoadMore
  \/ \E i \in 1 .. Pages : PhotoSelected(i)
  \/ \E e \in sent : WebCome(e)
  \/ \E kind \in {"import", "create album"} : PhotoCommand(kind)
  \/ \E e \in sent : PhotoCommandDone(e)
  \/ \E e \in sent, ok \in BOOLEAN : PhotosCome(e, ok)
  \/ \E e \in sent : ThumbnailComes(e)
  \/ \E e \in sent : AccountComes(e)
  \/ SignIn
  \/ \E e \in sent : SignInDone(e)
  \/ SignOut
  \/ \E e \in sent : SignOutDone(e)
  \/ Expire
  \/ RefreshStatus
  \/ \E e \in sent : StatusComes(e)

Spec == Init /\ [][Next]_vars

-----------------------------------------------------------------------------
(* Properties *)

\* Every variable has its type.
TypeOK ==
  /\ mode \subseteq Features
  /\ session \in 0 .. logins /\ logins \in 1 .. MaxLogins /\ clicks \in 0 .. MaxClicks[mode]
  /\ files.folder \in Folders \cup {Nowhere}
  /\ photos.items \in Seq(Photo) /\ rows \in [{"timeline", "album"} -> Seq(Photo)]
  /\ view \in {"timeline", "albums", "album"}
  /\ albumItems.count \in 0 .. Len(AlbumList)
  /\ thumbnails.textures \cup thumbnails.waiting \subseteq Photo

\* The list that is shown has the photos the window acts on, row by row, and they
\* are the first pages of one listing, each once: also when lists are loaded page by
\* page, left and opened again before the answers come.
RowsAreItems ==
  /\ view # "albums" => rows[view] = photos.items
  /\ view = "album" => \A i \in 1 .. Len(photos.items) : photos.items[i].of = photos.uid
  /\ \A i \in 1 .. Len(photos.items) : photos.items[i] = [photos.items[1] EXCEPT !.page = i]

\* No late answer takes the user to a list, or to an album, that was not the last
\* one asked for.
ViewIsWanted ==
  app.authenticated /\ wanted.view # Nowhere =>
    CASE wanted.view \in {"timeline", "albums"} -> view = wanted.view
      [] OTHER -> view = "albums" \/ (view = "album" /\ photos.uid = wanted.view)

\* The bar below the photos, with the buttons for the selected one and the link to
\* it, is about a photo of the list.  Only for the first account: the selection of
\* one that signed out is kept.
BarIsOfSelected ==
  logins = 1 /\ app.authenticated =>
    /\ bar.revealed => \E i \in 1 .. Len(photos.items) : photos.items[i] = photos.selected
    /\ bar.revealed /\ bar.link # NoPhoto => bar.link = photos.selected

\* Every row that waits for its thumbnail is told of it, and each is asked for once.
ThumbnailsAreAskedFor ==
  thumbnails.waiting = {e.uid : e \in {x \in sent : x.kind = "thumbnail"}}

\* When nothing that may change it is on its way, the folder that was asked for last
\* is shown, or the failure to load it.
FolderIsWanted ==
  app.authenticated /\ ~(\E e \in sent : e.kind = "files" /\ e.n = files.request) => files.folder = wanted.folder

\* The files of one account are never shown to another.
FilesAreOfAccount == app.authenticated /\ files.account # None => files.account = app.shown

\* The window "Share" shows the link of the item in its title, not of one that was
\* shared before and whose answers are late.
LinkIsOfTitle == app.panel.open /\ app.panel.link # Nowhere => app.panel.link = app.panel.title

\* The window ends no session but one that has ended, unless `status' is slow.
NoSessionIsEnded == "slow" \notin mode => ~app.wrong

DesktopIsSound == /\ TypeOK /\ RowsAreItems /\ ViewIsWanted /\ BarIsOfSelected /\ ThumbnailsAreAskedFor
                  /\ FolderIsWanted /\ FilesAreOfAccount /\ NoSessionIsEnded /\ LinkIsOfTitle
=============================================================================
