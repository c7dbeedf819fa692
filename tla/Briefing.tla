------------------------------ MODULE Briefing ------------------------------
(***************************************************************************)
(* The daily briefing: the rows the job and POST /v1/briefing/regenerate   *)
(* write, the cards the phone shows of them, swiping a card away, and      *)
(* POST /v1/briefing/:id/approve, which turns a row into an approval       *)
(* request across three awaits.                                            *)
(***************************************************************************)
EXTENDS Naturals, Sequences, FiniteSets

CONSTANTS Items,         \* rows of briefing_items
          MaxTaps,       \* bound on taps of Approve on one card
          MaxMishaps     \* bound on statements that fail and calls that are lost

ASSUME BriefingAssumption == MaxTaps \in Nat /\ MaxMishaps \in Nat

VARIABLES row,           \* [Items -> "none", "open" or "dismissed"]
          wanted,        \* a generation is under way
          aged,          \* rows older than 24 hours
          listed,         \* items of the briefing store
          listing,       \* an answer of GET on its way to the phone: {} or {items}
          deleting,      \* DELETE calls on their way
          approving,     \* calls whose card is up and waits for them
          call,          \* [Calls -> the step of the call]
          openCard,      \* the item whose sheet is open: {} or {item}
          toReview,      \* pendingApprovalIds of the briefing store
          reviewed,      \* calls whose approval screen was opened
          requests,      \* the approval requests, by the call that made each
          swiped,        \* history: items the user swiped away
          again,         \* history: items shown after or during an approval of theirs
          killed,        \* history: the app was killed
          mishaps
briefingVars == <<row, wanted, aged, listed, listing, deleting, approving, call,
                  openCard, toReview, reviewed, requests, swiped, again, killed, mishaps>>

Calls == Items \X (1..MaxTaps)
UnderWay == {c \in Calls : call[c] \in {"asked", "found", "created", "stored", "failed"}}

BriefingInit ==
  /\ row = [i \in Items |-> "none"] /\ aged = {} /\ listed = {} /\ listing = {} /\ deleting = {}
  /\ wanted = FALSE /\ openCard = {} /\ toReview = <<>> /\ reviewed = {} /\ killed = FALSE
  /\ approving = {} /\ call = [c \in Calls |-> "none"] /\ requests = {}
  /\ swiped = {} /\ again = {} /\ mishaps = 0

CallStep(c, a, b) == call[c] = a /\ call' = [call EXCEPT ![c] = b]
Mishap == mishaps < MaxMishaps /\ mishaps' = mishaps + 1
KeepServer == UNCHANGED <<row, wanted, aged, requests>>
KeepQueue == UNCHANGED <<toReview, reviewed, killed>>
KeepCards == UNCHANGED <<listed, listing, deleting, approving, openCard, swiped, again>> /\ KeepQueue

---------------------------------------------------------------------------
\* The nightly job takes the tenants who are through the set-up and pay, the user
\* asks for herself and is told it is on the way.
AskForBriefing ==
  /\ ~wanted /\ wanted' = TRUE
  /\ UNCHANGED <<row, aged, requests, call, mishaps>> /\ KeepCards

\* The rows: the model's answer may hold nothing; nothing is ever merged.
GenerateBriefing ==
  /\ wanted /\ wanted' = FALSE
  /\ \E new \in SUBSET {i \in Items : row[i] = "none"} :
       row' = [i \in Items |-> IF i \in new THEN "open" ELSE row[i]]
  /\ UNCHANGED <<aged, requests, call, mishaps>> /\ KeepCards

Age(i) ==
  /\ row[i] # "none" /\ i \notin aged /\ aged' = aged \cup {i}
  /\ UNCHANGED <<row, wanted, requests, call, mishaps>> /\ KeepCards

\* GET /v1/briefing reads, and later the phone shows what was read.
ListBriefing ==
  /\ listing = {} /\ listing' = {{i \in Items \ aged : row[i] = "open"}}
  /\ UNCHANGED <<listed, deleting, approving, call, openCard, swiped, again, mishaps>>
  /\ KeepServer /\ KeepQueue

\* When the list has become empty and approvals wait, the first is opened.
LaunchIfEmpty(left, waiting) ==
  /\ listed' = left
  /\ IF left = {} /\ listed # {} /\ waiting # <<>>
       THEN toReview' = Tail(waiting) /\ reviewed' = reviewed \cup {Head(waiting)}
       ELSE toReview' = waiting /\ UNCHANGED reviewed
  /\ openCard' = openCard \cap left /\ UNCHANGED killed

\* setItems; a list read before a dismissal brings the card back, a new one
\* that knows nothing of a call the old one made.
SetItems ==
  /\ listing # {} /\ listing' = {}
  /\ \E l \in listing :
       /\ LaunchIfEmpty(l, toReview) /\ approving' = {c \in approving : c[1] \in l}
       /\ again' = again \cup {i \in l : \/ row[i] = "dismissed"
                                       \/ \E c \in UnderWay \ approving : c[1] = i}
  /\ UNCHANGED <<deleting, call, swiped, mishaps>> /\ KeepServer

\* launchCarousel: the button with the number of approvals that wait.
LaunchCarousel ==
  /\ toReview # <<>> /\ toReview' = Tail(toReview)
  /\ reviewed' = reviewed \cup {Head(toReview)} /\ openCard = {}
  /\ UNCHANGED <<listed, listing, deleting, approving, call, openCard, swiped, again, killed, mishaps>>
  /\ KeepServer

\* The app dies, with its list, its calls' answers and its queue of approvals.
KillApp ==
  /\ ~killed /\ killed' = TRUE
  /\ listed' = {} /\ listing' = {} /\ approving' = {} /\ openCard' = {} /\ toReview' = <<>>
  /\ UNCHANGED <<deleting, call, reviewed, swiped, again, mishaps>> /\ KeepServer

RemoveCard(i) == approving' = {c \in approving : c[1] # i}

\* The sheet with the draft, over the list.
OpenSheet(i) ==
  /\ i \in listed /\ openCard = {} /\ openCard' = {i}
  /\ UNCHANGED <<listed, listing, deleting, approving, call, swiped, again, mishaps>>
  /\ KeepServer /\ KeepQueue
CloseSheet ==
  /\ openCard # {} /\ openCard' = {}
  /\ UNCHANGED <<listed, listing, deleting, approving, call, swiped, again, mishaps>>
  /\ KeepServer /\ KeepQueue

\* A card swiped to the left, or dismissed on its sheet: gone at once, the DELETE is
\* sent and not looked after.
DoDismiss(i) ==
  /\ i \in listed /\ openCard \subseteq {i}
  /\ LaunchIfEmpty(listed \ {i}, toReview) /\ RemoveCard(i)
  /\ deleting' = deleting \cup {i} /\ swiped' = swiped \cup {i}
  /\ UNCHANGED <<listing, call, again, mishaps>> /\ KeepServer

DeleteItem(i) ==
  /\ i \in deleting /\ deleting' = deleting \ {i}
  /\ \/ row' = [row EXCEPT ![i] = "dismissed"] /\ UNCHANGED mishaps
     \/ Mishap /\ UNCHANGED row
  /\ UNCHANGED <<wanted, aged, requests, listed, listing, approving, call, openCard, swiped, again>>
  /\ KeepQueue

---------------------------------------------------------------------------
\* Approve, on the openCard of a card that has no such call under way; calls are
\* numbered by tap.
HandleApprove(i) ==
  /\ i \in openCard /\ \A c \in approving : c[1] # i
  /\ \E n \in 1..MaxTaps : /\ CallStep(<<i, n>>, "none", "asked")
                           /\ \A m \in 1..(n - 1) : call[<<i, m>>] # "none"
                           /\ approving' = approving \cup {<<i, n>>}
  /\ UNCHANGED <<listed, listing, deleting, openCard, swiped, again, mishaps>>
  /\ KeepServer /\ KeepQueue

\* A call the gateway never gets, or a SELECT that fails.
FindItem(c) ==
  /\ \/ CallStep(c, "asked", "found") /\ UNCHANGED mishaps
     \/ Mishap /\ CallStep(c, "asked", "failed")
  /\ KeepServer /\ KeepCards

\* createApprovalRequest, then the row.
CreateBriefingApproval(c) ==
  /\ \/ /\ CallStep(c, "found", "created") /\ requests' = requests \cup {c}
        /\ UNCHANGED mishaps
     \/ Mishap /\ CallStep(c, "found", "failed") /\ UNCHANGED requests
  /\ UNCHANGED <<row, wanted, aged>> /\ KeepCards

LeaveOpen(c) ==   \* mutant: the row stays open and is listed again
  /\ CallStep(c, "created", "stored") /\ UNCHANGED <<row, wanted, mishaps, aged, requests>> /\ KeepCards
MarkDismissed(c) ==
  /\ \/ /\ CallStep(c, "created", "stored") /\ row' = [row EXCEPT ![c[1]] = "dismissed"]
        /\ UNCHANGED mishaps
     \/ Mishap /\ CallStep(c, "created", "failed") /\ UNCHANGED row
  /\ UNCHANGED <<wanted, aged, requests>> /\ KeepCards

\* The card is taken off the list, also one that came back, and the approval is
\* queued for review; an error or an answer that is lost leaves the card.  A phone
\* that was restarted hears nothing.
ApproveAnswered(c) ==
  LET i == c[1]
      lost == again' = again \cup {i} /\ approving' = approving \ {c}
              /\ UNCHANGED <<listed, openCard>> /\ KeepQueue
  IN
  /\ \/ /\ CallStep(c, "stored", "over") /\ ~killed
        /\ LaunchIfEmpty(listed \ {i}, Append(toReview, c)) /\ RemoveCard(i)
        /\ UNCHANGED <<again, mishaps>>
     \/ /\ CallStep(c, "stored", "over")
        /\ IF killed THEN UNCHANGED mishaps ELSE Mishap
        /\ lost
     \/ /\ CallStep(c, "failed", "over") /\ UNCHANGED mishaps
        /\ IF c \in requests THEN lost
           ELSE /\ approving' = approving \ {c} /\ UNCHANGED <<again, listed, openCard>> /\ KeepQueue
  /\ UNCHANGED <<listing, deleting, swiped>> /\ KeepServer

BriefingNext ==
  \/ AskForBriefing \/ GenerateBriefing \/ ListBriefing \/ SetItems
  \/ LaunchCarousel \/ KillApp \/ CloseSheet
  \/ \E i \in Items : Age(i) \/ OpenSheet(i) \/ DoDismiss(i) \/ DeleteItem(i) \/ HandleApprove(i)
  \/ \E c \in Calls : \/ FindItem(c) \/ CreateBriefingApproval(c)
                      \/ MarkDismissed(c) \/ ApproveAnswered(c)

---------------------------------------------------------------------------
\* An item leaves the briefing only because the user swiped it away or because a
\* request to approve it was made, it gets a second request only when the first was
\* made by a call that failed or was lost, or when a list read too early brought its
\* card back, and a request the phone has heard of waits to be reviewed or was,
\* unless the app was killed (index.ts:1561, briefing.tsx:23, 64).
ItemIsHandledOnce ==
  /\ \A i \in Items :
       LET made == {c \in requests : c[1] = i} IN
         /\ row[i] = "dismissed" /\ i \notin swiped => made # {}
         /\ Cardinality(made) > 1 => i \in again
  /\ killed \/ \A c \in requests :
       call[c] = "over" => \/ c[1] \in again \/ c \in reviewed
                           \/ \E n \in DOMAIN toReview : toReview[n] = c
=============================================================================
