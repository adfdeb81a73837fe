-------------------------------- MODULE Reports --------------------------------
(***************************************************************************)
(* Reports of an outage: CreateReport uploads a picture to the storage,    *)
(* asks for its URL and only then writes the report under /reports/<uid>;  *)
(* ReportsHistory observes that node and decodes all of it or nothing;     *)
(* ReportDetails shows one report.  One device, on which accounts come and *)
(* go, by force too, while uploads are on their way.                       *)
(*                                                                         *)
(* Storage and database client are external.  An observer sees the node of *)
(* the server with the local writes that have no answer yet, until the     *)
(* server cancels it; no other device writes under the accounts of this    *)
(* one.                                                                    *)
(***************************************************************************)
EXTENDS Integers, Sequences

CONSTANTS
  Accounts,    \* the users that sign in on the device
  NoAccount,   \* nobody is signed in
  NoReport,    \* no report opened
  Uploads,     \* bound: presses of the send button, each with its upload
  Idle         \* an upload that has not started or has ended

\* What the field image holds: a URL, nothing (upload failed: nil is written,
\* which the database drops), or "" (no URL for the upload).
Images == {"url", "none", "empty"}

\* id numbers the reports in the order of their writes.
Report == [id : Nat, author : Accounts, image : Images]

\* An upload of createReport: mine while the screen that sent it is open.
Upload == [author : Accounts, stage : {"putData", "downloadURL"}, mine : BOOLEAN]

Write == [node : Accounts, report : Report]

ASSUME ReportsAssumption ==
  /\ NoAccount \notin Accounts
  /\ NoReport \notin Report
  /\ Idle \notin Upload

VARIABLES
  account,   \* Auth.auth().currentUser
  late,      \* is a sign-in on the way?
  owner,     \* the account whose node the open history asked for
  watched,   \* does the open history observe that node?
  screen,    \* the screen on top
  uploads,   \* the uploads on the way
  pressed,   \* the uploads that were started
  server,    \* the node of each account on the server
  pend,      \* local writes the server has not answered
  written,   \* number of writes so far
  loaded,    \* the nodes the device has complete data of
  events,    \* snapshots queued for the observer of the open history
  reports,   \* ReportsHistoryViewModel.reports, as a set
  viewed     \* the report of ReportDetails

vars == <<account, late, owner, watched, screen, uploads, pressed, server, pend, written, loaded,
          events, reports, viewed>>

Screens == {"list", "profile", "create", "history", "details"}
InHistory == screen \in {"history", "details"}

TypeOK ==
  /\ account \in Accounts \cup {NoAccount}
  /\ screen \in Screens
  /\ uploads \in [Uploads -> Upload \cup {Idle}]
  /\ pressed \subseteq Uploads
  /\ server \in [Accounts -> SUBSET Report]
  /\ pend \in Seq(Write)
  /\ written \in Nat
  /\ loaded \subseteq Accounts
  /\ events \in Seq(SUBSET Report)
  /\ reports \subseteq Report
  /\ viewed \in Report \cup {NoReport}
  /\ late \in BOOLEAN
  /\ owner \in Accounts \cup {NoAccount}
  /\ watched \in BOOLEAN
  /\ watched => InHistory /\ owner # NoAccount

-----------------------------------------------------------------------------

\* The data of node u with the writes p over it.
View(nodes, p, u) ==
  nodes[u] \cup {p[k].report : k \in {l \in DOMAIN p : p[l].node = u}}

\* The snapshots queued for the open history when the local writes become p:
\* one more if its node is complete and looks different.
Raise(p) ==
  IF InHistory /\ owner \in loaded /\ View(server, p, owner) # View(server, pend, owner)
  THEN Append(events, View(server, p, owner)) ELSE events

\* [String : Report] decodes when every report has an image URL.
Decodes(snapshot) == \A r \in snapshot : r.image = "url"

Init ==
  /\ account = NoAccount
  /\ late = FALSE
  /\ owner = NoAccount
  /\ watched = FALSE
  /\ screen = "list"
  /\ uploads = [k \in Uploads |-> Idle]
  /\ pressed = {}
  /\ server = [u \in Accounts |-> {}]
  /\ pend = <<>>
  /\ written = 0
  /\ loaded = {}
  /\ events = <<>>
  /\ reports = {}
  /\ viewed = NoReport

\* openAccount without a user, up to the call of Auth.signIn; the button can
\* be pressed again before the answer.
SignUp ==
  /\ screen = "list" /\ account = NoAccount
  /\ late' = TRUE
  /\ UNCHANGED <<account, owner, watched, screen, uploads, pressed, server, pend, written, loaded,
                 events, reports, viewed>>

\* Auth.signIn answers, on whatever screen; more sign-ins may be on the way.
SignIn(u) ==
  /\ late
  /\ account' = u
  /\ late' \in BOOLEAN
  /\ UNCHANGED <<owner, watched, screen, uploads, pressed, server, pend, written, loaded, events,
                 reports, viewed>>

SignInFails ==
  /\ late
  /\ late' = FALSE
  /\ UNCHANGED <<account, owner, watched, screen, uploads, pressed, server, pend, written, loaded,
                 events, reports, viewed>>

\* A refresh of the token finds the account invalid, on whatever screen:
\* FirebaseAuth signs it out, and no screen is told.
ForcedSignOut ==
  /\ account # NoAccount
  /\ account' = NoAccount
  /\ UNCHANGED <<late, owner, watched, screen, uploads, pressed, server, pend, written, loaded,
                 events, reports, viewed>>

\* openAccount with a user.
OpenProfile ==
  /\ screen = "list" /\ account # NoAccount
  /\ screen' = "profile"
  /\ UNCHANGED <<account, late, owner, watched, uploads, pressed, server, pend, written, loaded,
                 events, reports, viewed>>

\* signOut of the profile, which then closes.
SignOut ==
  /\ screen = "profile"
  /\ account' = NoAccount
  /\ screen' = "list"
  /\ UNCHANGED <<late, owner, watched, uploads, pressed, server, pend, written, loaded, events,
                 reports, viewed>>

\* goToCreateReport: no look at the user.
OpenCreate ==
  /\ screen = "profile"
  /\ screen' = "create"
  /\ UNCHANGED <<account, late, owner, watched, uploads, pressed, server, pend, written, loaded,
                 events, reports, viewed>>

\* A new ReportsHistoryViewModel observes the node of the user, if there is
\* one: an event at once if the node is complete.
OpenHistory ==
  /\ screen = "profile"
  /\ screen' = "history"
  /\ owner' = account
  /\ watched' = (account # NoAccount)
  /\ events' = IF account \in loaded THEN <<View(server, pend, account)>> ELSE <<>>
  /\ UNCHANGED <<account, late, uploads, pressed, server, pend, written, loaded, reports, viewed>>

\* didSelectRowAt, goToReportDetails.
OpenDetails(r) ==
  /\ screen = "history" /\ r \in reports
  /\ screen' = "details"
  /\ viewed' = r
  /\ UNCHANGED <<account, late, owner, watched, uploads, pressed, server, pend, written, loaded,
                 events, reports>>

\* The uploads once their screen is gone: close finds no controller.
Orphaned == [k \in Uploads |-> IF uploads[k] = Idle THEN Idle
                               ELSE [uploads[k] EXCEPT !.mine = FALSE]]

\* The back button.  The list of a history that is left is not shown again,
\* though the observer goes on filling it.
Back ==
  /\ \/ /\ screen = "profile"
        /\ screen' = "list"
        /\ UNCHANGED <<owner, watched, uploads, events, reports, viewed>>
     \/ /\ screen = "create"
        /\ screen' = "profile" /\ uploads' = Orphaned
        /\ UNCHANGED <<owner, watched, events, reports, viewed>>
     \/ /\ screen = "history"
        /\ screen' = "profile" /\ owner' = NoAccount /\ watched' = FALSE
        /\ events' = <<>> /\ reports' = {}
        /\ UNCHANGED <<uploads, viewed>>
     \/ /\ screen = "details"
        /\ screen' = "history" /\ viewed' = NoReport
        /\ UNCHANGED <<owner, watched, uploads, events, reports>>
  /\ UNCHANGED <<account, late, pressed, server, pend, written, loaded>>

-----------------------------------------------------------------------------
(* CreateReportViewModel: createReport and uploadMedia.                     *)

\* The send button, with the user of the moment, and without one nothing; a
\* picture that pngData cannot encode is never uploaded.
CreateReport(k, encodable) ==
  /\ screen = "create" /\ account # NoAccount /\ k \notin pressed
  /\ pressed' = pressed \cup {k}
  /\ uploads' = [uploads EXCEPT ![k] =
                   IF encodable THEN [author |-> account, stage |-> "putData", mine |-> TRUE]
                   ELSE Idle]
  /\ UNCHANGED <<account, late, owner, watched, screen, server, pend, written, loaded, events,
                 reports, viewed>>

\* The end of the upload: the URL is asked for.
UploadDone(k) ==
  /\ uploads[k] # Idle /\ uploads[k].stage = "putData"
  /\ uploads' = [uploads EXCEPT ![k].stage = "downloadURL"]
  /\ UNCHANGED <<account, late, owner, watched, screen, pressed, server, pend, written, loaded,
                 events, reports, viewed>>

NewReport(k, image) == [id |-> written + 1, author |-> uploads[k].author, image |-> image]

\* A faulty write: under the user signed in when the upload ends.
WriteCurrent(k, image) ==
  /\ account # NoAccount
  /\ LET p == Append(pend, [node |-> account, report |-> NewReport(k, image)])
     IN  pend' = p /\ events' = Raise(p)
  /\ written' = written + 1
  /\ screen' = IF uploads[k].mine THEN "profile" ELSE screen
  /\ uploads' = [(IF uploads[k].mine THEN Orphaned ELSE uploads) EXCEPT ![k] = Idle]
  /\ UNCHANGED <<account, late, owner, watched, pressed, server, loaded, reports, viewed>>

\* A faulty write: id is left out of the dictionary.
WriteAnonymous(k, image) ==
  /\ LET r == [author |-> uploads[k].author, image |-> image]
         p == Append(pend, [node |-> uploads[k].author, report |-> r])
     IN  pend' = p /\ events' = Raise(p)
  /\ written' = written + 1
  /\ screen' = IF uploads[k].mine THEN "profile" ELSE screen
  /\ uploads' = [(IF uploads[k].mine THEN Orphaned ELSE uploads) EXCEPT ![k] = Idle]
  /\ UNCHANGED <<account, late, owner, watched, pressed, server, loaded, reports, viewed>>

\* completion(url): the report is written under the id read at the press,
\* and close pops the screen if it is still there.
WriteReport(k, image) ==
  /\ LET p == Append(pend, [node |-> uploads[k].author, report |-> NewReport(k, image)])
     IN  pend' = p /\ events' = Raise(p)
  /\ written' = written + 1
  /\ screen' = IF uploads[k].mine THEN "profile" ELSE screen
  /\ uploads' = [(IF uploads[k].mine THEN Orphaned ELSE uploads) EXCEPT ![k] = Idle]
  /\ UNCHANGED <<account, late, owner, watched, pressed, server, loaded, reports, viewed>>

\* putData fails: completion(nil).
UploadFails(k) ==
  /\ uploads[k] # Idle /\ uploads[k].stage = "putData"
  /\ WriteReport(k, "none")

\* downloadURL answers with a URL, or with an error: completion("").
UrlArrives(k, image) ==
  /\ uploads[k] # Idle /\ uploads[k].stage = "downloadURL"
  /\ WriteReport(k, image)

-----------------------------------------------------------------------------
(* The database client and the server (external).                          *)

\* The first data of the node arrives for the open history.
Sync ==
  /\ watched /\ owner \notin loaded
  /\ loaded' = loaded \cup {owner}
  /\ events' = Append(events, View(server, pend, owner))
  /\ UNCHANGED <<account, late, owner, watched, screen, uploads, pressed, server, pend, written,
                 reports, viewed>>

\* The rules may deny a node to the user of the moment: its observers are
\* cancelled, the data of the node is dropped, and the error closure of
\* fetchPlaces only logs.
Cancel(u) ==
  /\ u # account
  /\ u \in loaded \/ (watched /\ owner = u)
  /\ watched' = (watched /\ owner # u)
  /\ loaded' = loaded \ {u}
  /\ UNCHANGED <<account, late, owner, screen, uploads, pressed, server, pend, written, events,
                 reports, viewed>>

\* The oldest write is applied and acknowledged: observers see no change.
Accept ==
  /\ pend # <<>>
  /\ LET w == Head(pend) IN server' = [server EXCEPT ![w.node] = @ \cup {w.report}]
  /\ pend' = Tail(pend)
  /\ UNCHANGED <<account, late, owner, watched, screen, uploads, pressed, written, loaded,
                 events, reports, viewed>>

\* The oldest write is refused and taken back.
Refuse ==
  /\ pend # <<>>
  /\ pend' = Tail(pend)
  /\ events' = Raise(Tail(pend))
  /\ UNCHANGED <<account, late, owner, watched, screen, uploads, pressed, server, written,
                 loaded, reports, viewed>>

\* A faulty delivery: an empty node is taken for data that does not decode.
DeliverNonEmpty ==
  /\ InHistory /\ events # <<>>
  /\ events' = Tail(events)
  /\ reports' = IF Head(events) # {} /\ Decodes(Head(events)) THEN Head(events) ELSE reports
  /\ UNCHANGED <<account, late, owner, watched, screen, uploads, pressed, server, pend, written,
                 loaded, viewed>>

\* A faulty delivery: the reports that decode are taken one by one.
DeliverEach ==
  /\ InHistory /\ events # <<>>
  /\ events' = Tail(events)
  /\ reports' = {r \in Head(events) : r.image = "url"}
  /\ UNCHANGED <<account, late, owner, watched, screen, uploads, pressed, server, pend, written,
                 loaded, viewed>>

\* The observer of fetchPlaces: nothing in the node gives the empty list, a
\* snapshot that does not decode is dropped.
Deliver ==
  /\ InHistory /\ events # <<>>
  /\ events' = Tail(events)
  /\ reports' = IF Decodes(Head(events)) THEN Head(events) ELSE reports
  /\ UNCHANGED <<account, late, owner, watched, screen, uploads, pressed, server, pend, written,
                 loaded, viewed>>

\* The app is killed and started again: uploads and writes without an answer
\* are lost, the user stays signed in.
Restart ==
  /\ late' = FALSE
  /\ owner' = NoAccount
  /\ watched' = FALSE
  /\ screen' = "list"
  /\ uploads' = [k \in Uploads |-> Idle]
  /\ pend' = <<>>
  /\ loaded' = {}
  /\ events' = <<>>
  /\ reports' = {}
  /\ viewed' = NoReport
  /\ UNCHANGED <<account, pressed, server, written>>

Next ==
  \/ \E u \in Accounts : SignIn(u) \/ Cancel(u)
  \/ SignUp \/ SignInFails \/ SignOut \/ ForcedSignOut
  \/ OpenProfile \/ OpenCreate \/ OpenHistory \/ Back
  \/ \E r \in reports : OpenDetails(r)
  \/ \E k \in Uploads :
       \/ \E encodable \in BOOLEAN : CreateReport(k, encodable)
       \/ UploadDone(k) \/ UploadFails(k)
       \/ UrlArrives(k, "url") \/ UrlArrives(k, "empty")
  \/ Sync \/ Accept \/ Refuse \/ Deliver \/ Restart

Spec == Init /\ [][Next]_vars

\* The network answers in the end, and the main queue runs what is queued.
Fairness ==
  /\ WF_vars(Sync) /\ WF_vars(Accept \/ Refuse) /\ WF_vars(Deliver)
  /\ \A k \in Uploads : /\ WF_vars(UploadDone(k) \/ UploadFails(k))
                        /\ WF_vars(UrlArrives(k, "url") \/ UrlArrives(k, "empty"))

FairSpec == Spec /\ Fairness

-----------------------------------------------------------------------------

\* Safety.  A report ends up with the account that pressed send, and the
\* history shows and opens reports of the account that opened it only,
\* whoever has signed in since the uploads began or the history was opened.
OwnReports ==
  /\ \A u \in Accounts : \A r \in View(server, pend, u) : r.author = u
  /\ \A r \in reports \cup ({viewed} \ {NoReport}) : r.author = owner

\* Safety.  When its events have run, the history shows exactly what the
\* device knows of the node, refused writes included, provided every report
\* in it has its image.
HistoryCurrent ==
  LET v == View(server, pend, owner)
  IN  InHistory /\ owner \in loaded /\ events = <<>> /\ Decodes(v) => reports = v

\* Safety.  One report without an image on the server hides everything sent
\* after it: fetchPlaces decodes the whole node or nothing, so the list never
\* holds a report written later than one that does not decode.  With reports of
\* this device only: another one could file an older number later.
NothingAfterBad ==
  InHistory /\ owner # NoAccount =>
    \A r \in reports, b \in server[owner] : b.image # "url" => r.id < b.id

L == INSTANCE ReportLog WITH log <- server

\* Refinement.  Uploads that end out of order, under whatever account, refused
\* and lost writes notwithstanding, the server behaves as one log: each report
\* is filed once, under its author, after all that were written before it.
ImplementsLog == L!Spec

\* Liveness.  A history that stays open and is not cancelled, of an account
\* whose reports all have their image, ends up showing exactly the reports on
\* the server, also under another user or none.
HistoryConverges ==
  \A u \in Accounts :
    <>[](watched /\ owner = u /\ Decodes(View(server, pend, u)))
      => <>[](reports = server[u])

=============================================================================
