------------------------------ MODULE Contacts ------------------------------
(***************************************************************************)
(* A contact's way from the phone (AddContactSheet, pending_contacts,      *)
(* contact-sync) through POST /v1/contacts into its memory file and its    *)
(* row, while the relationship agent appends notes to the same file; and   *)
(* the dossier sheet, whose summary comes back over the socket.            *)
(***************************************************************************)
EXTENDS Naturals, FiniteSets

CONSTANTS People,       \* what the agent types in: one payload each
          WithEmail,    \* those whose id is their e-mail; the others get a new id per post
          Nobody,
          Drains,       \* runs of drainPendingContacts that may overlap
          MaxRefused    \* bound on failed or lost requests

ASSUME PeopleAssumption == WithEmail \subseteq People /\ Nobody \notin People

Posts == {"sheet"} \cup Drains

VARIABLES connected,    \* the socket's status on the phone
          pending,      \* table pending_contacts of the phone
          todo,         \* [Drains -> what the drain has loaded and not yet posted]
          post,         \* [Posts -> the request in flight]
          contactFile,  \* [People -> what contacts/<id>.md holds]
          rows,         \* [People -> rows of table contacts]
          noted,        \* [People -> a note was appended outside of every open check]
          refused
contactVars == <<connected, pending, todo, post, contactFile, rows, noted, refused>>
VARIABLES dossier,      \* the dossier sheet of the phone
          asked         \* contacts whose summary is being written or on its way
dossierVars == <<dossier, asked>>

NoPost == [who |-> Nobody, step |-> "idle"]

ContactInit ==
  /\ connected = FALSE /\ pending = {} /\ refused = 0
  /\ todo = [d \in Drains |-> {}] /\ post = [h \in Posts |-> NoPost]
  /\ contactFile = [p \in People |-> {}] /\ rows = [p \in People |-> 0]
  /\ noted = [p \in People |-> FALSE]

Refuse == refused < MaxRefused /\ refused' = refused + 1
AtStep(h, s) == post[h].step = s
StepTo(h, s) == post' = [post EXCEPT ![h].step = s]
KeepPending == UNCHANGED <<connected, pending, todo>>
KeepServer == UNCHANGED <<contactFile, rows, noted>>

---------------------------------------------------------------------------
\* The phone.  "Save" is disabled while saving; what the hook says of the
\* network need not agree with the socket.
SavePendingContact(p) == pending' = pending \cup {p} /\ UNCHANGED post
HandleSave(p) ==
  /\ AtStep("sheet", "idle") /\ rows[p] = 0 /\ p \notin pending
  /\ \/ post' = [post EXCEPT !["sheet"] = [who |-> p, step |-> "asked"]] /\ UNCHANGED pending
     \/ SavePendingContact(p)
  /\ UNCHANGED <<connected, todo, refused>> /\ KeepServer

\* A failure leaves the form as it is.
SaveAnswered ==
  /\ AtStep("sheet", "created") \/ AtStep("sheet", "failed")
  /\ post' = [post EXCEPT !["sheet"] = NoPost]
  /\ UNCHANGED <<connected, pending, todo, refused>> /\ KeepServer

\* CONNECTED drains; a drain that still waits for an answer goes on beside it.
DrainPendingContacts(d) ==
  /\ ~connected /\ todo[d] = {} /\ AtStep(d, "idle")
  /\ connected' = TRUE /\ todo' = [todo EXCEPT ![d] = pending]
  /\ UNCHANGED <<pending, post, refused>> /\ KeepServer

Disconnected ==
  /\ connected /\ connected' = FALSE
  /\ UNCHANGED <<pending, todo, post, refused>> /\ KeepServer

DrainNext(d) ==
  /\ AtStep(d, "idle")
  /\ \E p \in todo[d] : /\ post' = [post EXCEPT ![d] = [who |-> p, step |-> "asked"]]
                        /\ todo' = [todo EXCEPT ![d] = @ \ {p}]
  /\ UNCHANGED <<connected, pending, refused>> /\ KeepServer

RemoveIfFailed(d) == pending \ {post[d].who}   \* mutant: the answer is not looked at
RemoveIfOk(d) == IF AtStep(d, "created") THEN pending \ {post[d].who} ELSE pending
DrainAnswered(d) ==
  /\ AtStep(d, "created") \/ AtStep(d, "failed")
  /\ pending' = RemoveIfOk(d)
  /\ post' = [post EXCEPT ![d] = NoPost]
  /\ UNCHANGED <<connected, todo, refused>> /\ KeepServer

---------------------------------------------------------------------------
\* POST /v1/contacts: a memory manager of its own, whose lock nobody else sees.
\* What the write returns is not looked at.
CreateFileUnchecked(h) == StepTo(h, "write")   \* mutant: no look whether the file exists
CreateFile(h) == IF contactFile[post[h].who] = {} THEN StepTo(h, "write") ELSE StepTo(h, "row")
CheckFile(h) == AtStep(h, "asked") /\ CreateFile(h) /\ UNCHANGED refused /\ KeepServer /\ KeepPending

WriteFile(h) ==
  /\ AtStep(h, "write") /\ StepTo(h, "row")
  /\ contactFile' = [contactFile EXCEPT ![post[h].who] = {"profile"}]
  /\ UNCHANGED <<rows, noted, refused>> /\ KeepPending

\* The upsert: one row for an e-mail, a new one for every post without.
UpsertContact(h) ==
  /\ AtStep(h, "row") /\ StepTo(h, "created")
  /\ LET p == post[h].who IN
       rows' = [rows EXCEPT ![p] = IF p \in WithEmail THEN 1 ELSE @ + 1]
  /\ UNCHANGED <<contactFile, noted, refused>> /\ KeepPending

\* The request, the statement or the answer fails.
PostFails(h) ==
  /\ post[h].step \in {"asked", "row", "created"} /\ Refuse /\ StepTo(h, "failed")
  /\ KeepPending /\ KeepServer

\* The relationship agent: update_contact and the interactions of its events.
\* An append creates the file when there is none.
UpdateContactInteraction(p) ==
  /\ "note" \notin contactFile[p] /\ ~noted[p]
  /\ contactFile' = [contactFile EXCEPT ![p] = @ \cup {"note"}]
  /\ noted' = [noted EXCEPT ![p] = \A h \in Posts : ~(post[h].who = p /\ AtStep(h, "write"))]
  /\ UNCHANGED <<rows, post, refused>> /\ KeepPending

\* A sign-in at an open house creates the file unless it is there; the append
\* meant for that case hangs on a rejection that a failed write does not give.
ProcessOpenHouseSignup(p) ==
  /\ p \in WithEmail /\ contactFile[p] = {}
  /\ contactFile' = [contactFile EXCEPT ![p] = {"profile"}]
  /\ UNCHANGED <<rows, noted, post, refused>> /\ KeepPending

---------------------------------------------------------------------------
DrainStep(d) == DrainNext(d) \/ DrainAnswered(d)
ServerStep(h) == CheckFile(h) \/ WriteFile(h) \/ UpsertContact(h)

ContactNext ==
  \/ \E p \in People : HandleSave(p) \/ UpdateContactInteraction(p) \/ ProcessOpenHouseSignup(p)
  \/ \E d \in Drains : DrainPendingContacts(d) \/ DrainStep(d)
  \/ \E h \in Posts : ServerStep(h) \/ PostFails(h)
  \/ SaveAnswered \/ Disconnected

\* Adding a contact again never wipes what the agents noted of it: a note is
\* lost only when a post had looked before and writes after it.
NotesLostInTheWindowOnly == \A p \in People : noted[p] => "note" \in contactFile[p]

\* A contact saved offline leaves the phone's table only once it has its row, and
\* as long as the phone reconnects it does not wait for ever (contact-sync.ts:11).
PendingContactIsStored ==
  /\ [][\A p \in pending \ pending' : rows'[p] > 0]_contactVars
  /\ <>[](\A p \in pending : rows[p] > 0)

---------------------------------------------------------------------------
\* The dossier.  A summary carries the id of its request, here whom it is of.
NoDossier == [open |-> Nobody, pending |-> Nobody, shown |-> Nobody]
DossierInit == dossier = NoDossier /\ asked = {}

OpenDossier(p) ==
  /\ dossier.open = Nobody /\ p \notin asked
  /\ dossier' = [open |-> p, pending |-> p, shown |-> Nobody]
  /\ asked' = asked \cup {p}

CloseDossier == dossier.open # Nobody /\ dossier' = NoDossier /\ UNCHANGED asked

\* The request fails: whatever is open now says so.
DossierFails(p) ==
  /\ p \in asked /\ asked' = asked \ {p}
  /\ dossier' = [dossier EXCEPT !.shown = Nobody]

SetDossierResultAnyway(p) == dossier' = [dossier EXCEPT !.pending = Nobody, !.shown = p]   \* mutant
SetDossierResult(p) ==
  dossier' = IF dossier.pending = p THEN [dossier EXCEPT !.pending = Nobody, !.shown = p]
             ELSE dossier

DossierReady(p) == p \in asked /\ asked' = asked \ {p} /\ SetDossierResult(p)

DossierNext == CloseDossier \/ \E p \in People : OpenDossier(p) \/ DossierFails(p) \/ DossierReady(p)

\* The summary on the screen is of the contact whose sheet is open.
DossierShowsItsContact == dossier.shown \in {Nobody, dossier.open}
=============================================================================
