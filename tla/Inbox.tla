-------------------------------- MODULE Inbox --------------------------------
(***************************************************************************)
(* Texts that come in, as one phone sees them: the rows of sms_messages    *)
(* with their status, the pushes over the WebSocket, the list of           *)
(* conversations with its badges and the threads.  Each of them is read    *)
(* and set on its own.  Sms has the texts that go out, and consent.        *)
(***************************************************************************)
EXTENDS Naturals, FiniteSets

CONSTANTS Persons,     \* the contacts who text this tenant
          Arrivals,    \* what they text, numbered by created_at
          Lists,       \* GET /v1/sms of the Comms and Messages screens
          Opens,       \* thread screens that are opened, and load
          NoPerson,
          PageSize     \* LIMIT of a thread

ASSUME InboxAssumption ==
  /\ NoPerson \notin Persons /\ PageSize \in Nat
  /\ Arrivals \subseteq Nat /\ IsFiniteSet(Arrivals)

VARIABLES
  stored,      \* each contact's inbound rows
  unread,      \* those whose status is 'received'
  pushing,     \* stored, SMS_RECEIVED not sent or on its way
  badge,       \* conversations[].unreadCount on the phone, 0 without a row
  listing,     \* each list: where it stands, its answer, what has overtaken it
  opening,     \* each thread: where it stands, whose it is, its rows
  seen,        \* history: what a thread on the phone has contained
  slipped,     \* history: what a GET passed over, or whose answer was lost
  muted        \* history: whose badge a lost push or a late answer left behind

inboxVars == <<stored, unread, pushing, badge, listing, opening, seen, slipped, muted>>

NoList == [pc |-> "idle", badges |-> [p \in Persons |-> 0], overtaken |-> {}]
NoThread == [pc |-> "idle", of |-> NoPerson, rows |-> {}]

InboxInit ==
  /\ stored = [p \in Persons |-> {}] /\ unread = {} /\ pushing = {}
  /\ badge = [p \in Persons |-> 0]
  /\ listing = [l \in Lists |-> NoList] /\ opening = [o \in Opens |-> NoThread]
  /\ seen = {} /\ slipped = {} /\ muted = {}

UnreadOf(p) == unread \cap stored[p]
Overtake(P) == [l \in Lists |-> IF listing[l].pc = "answered"
                                THEN [listing[l] EXCEPT !.overtaken = @ \cup P] ELSE listing[l]]
Thread(o, at, p, got) == opening' = [opening EXCEPT ![o] = [pc |-> at, of |-> p, rows |-> got]]

-----------------------------------------------------------------------------
(* POST /webhooks/twilio/sms: the row, then the push to whoever is         *)
(* connected.                                                              *)

InsertInbound(p, t) ==
  /\ \A u \in Arrivals : (u < t) <=> (\E q \in Persons : u \in stored[q])
  /\ stored' = [stored EXCEPT ![p] = @ \cup {t}]
  /\ unread' = unread \cup {t} /\ pushing' = pushing \cup {t}
  /\ slipped' = IF \E o \in Opens : opening[o].pc = "selected" /\ opening[o].of = p
                THEN slipped \cup {t} ELSE slipped
  /\ UNCHANGED <<badge, listing, opening, seen, muted>>

\* upsertConversation puts one unread text whatever was there; appendMessage.
UpsertConversation(p) == [badge EXCEPT ![p] = 1]
SmsReceived(p, t) ==
  /\ t \in pushing \cap stored[p] /\ pushing' = pushing \ {t}
  /\ badge' = UpsertConversation(p) /\ seen' = seen \cup {t}
  /\ listing' = Overtake({p}) /\ muted' = muted \ {p}
  /\ UNCHANGED <<stored, unread, opening, slipped>>

\* No socket, or one that is closing: nothing is kept for later.
PushLost(p, t) ==
  /\ t \in pushing \cap stored[p] /\ pushing' = pushing \ {t}
  /\ muted' = muted \cup {p} /\ listing' = Overtake({p})
  /\ UNCHANGED <<stored, unread, badge, opening, seen, slipped>>

-----------------------------------------------------------------------------
(* The list of conversations.                                              *)

\* The window counts the join of the rows with themselves: each unread text once
\* for every text of the conversation.
UnreadCount(p) == Cardinality(stored[p]) * Cardinality(UnreadOf(p))

ReadList(l) ==
  /\ listing[l].pc = "idle"
  /\ listing' = [listing EXCEPT ![l] =
       [pc |-> "answered", overtaken |-> {},
        badges |-> [p \in Persons |-> UnreadCount(p)]]]
  /\ UNCHANGED <<stored, unread, pushing, badge, opening, seen, slipped, muted>>

\* setConversations: the answer in place of what is there.
SetConversations(l) ==
  /\ listing[l].pc = "answered"
  /\ badge' = listing[l].badges /\ muted' = listing[l].overtaken
  /\ listing' = [listing EXCEPT ![l] = NoList]
  /\ UNCHANGED <<stored, unread, pushing, opening, seen, slipped>>

ListFails(l) ==
  /\ listing[l].pc = "answered" /\ listing' = [listing EXCEPT ![l] = NoList]
  /\ UNCHANGED <<stored, unread, pushing, badge, opening, seen, slipped, muted>>

-----------------------------------------------------------------------------
(* A thread: markRead on the phone, the GET and its two statements.        *)

MarkReadOnPhone(p) == [badge EXCEPT ![p] = 0]
OpenThread(o, p) ==
  /\ opening[o].pc = "idle" /\ Thread(o, "asked", p, {})
  /\ badge' = MarkReadOnPhone(p)
  /\ UNCHANGED <<stored, unread, pushing, listing, seen, slipped, muted>>

\* SELECT ... ORDER BY created_at DESC LIMIT $3
Newest(S) == {t \in S : Cardinality({u \in S : u > t}) < PageSize}
SelectThread(o) ==
  LET p == opening[o].of IN
  /\ opening[o].pc = "asked" /\ Thread(o, "selected", p, Newest(stored[p]))
  /\ slipped' = slipped \cup (UnreadOf(p) \ Newest(stored[p]))
  /\ UNCHANGED <<stored, unread, pushing, badge, listing, seen, muted>>

\* UPDATE ... SET status = 'read' WHERE contact_id = $2 AND status = 'received'
ReadByAnyone(p) == unread              \* mutant: whoever they are from
ReadBy(p) == UnreadOf(p)
UpdateRead(o) ==
  /\ opening[o].pc = "selected" /\ Thread(o, "marked", opening[o].of, opening[o].rows)
  /\ unread' = unread \ ReadBy(opening[o].of) /\ muted' = muted \ {opening[o].of}
  /\ UNCHANGED <<stored, pushing, badge, listing, seen, slipped>>

SetThreadRows(o) ==
  /\ opening[o].pc = "marked" /\ seen' = seen \cup opening[o].rows
  /\ opening' = [opening EXCEPT ![o] = NoThread]
  /\ UNCHANGED <<stored, unread, pushing, badge, listing, slipped, muted>>

\* A statement fails, or the request or its answer is lost: the badge stays at 0.
OpenFails(o) ==
  /\ opening[o].pc # "idle" /\ opening' = [opening EXCEPT ![o] = NoThread]
  /\ slipped' = slipped \cup opening[o].rows
  /\ muted' = muted \cup {opening[o].of} /\ listing' = Overtake({opening[o].of})
  /\ UNCHANGED <<stored, unread, pushing, badge, seen>>

InboxNext ==
  \/ \E p \in Persons : \/ \E t \in Arrivals : InsertInbound(p, t) \/ SmsReceived(p, t) \/ PushLost(p, t)
                        \/ \E o \in Opens : OpenThread(o, p)
  \/ \E l \in Lists : ReadList(l) \/ SetConversations(l) \/ ListFails(l)
  \/ \E o \in Opens : SelectThread(o) \/ UpdateRead(o) \/ SetThreadRows(o) \/ OpenFails(o)

-----------------------------------------------------------------------------
\* A text is marked as read only when a thread on the phone has contained it or is
\* about to, unless the GET passed it over: beyond the page, stored between its two
\* statements, or its answer lost (index.ts:2520).
ReadWasShown ==
  \A p \in Persons : \A t \in stored[p] :
    \/ t \in unread \cup seen \cup slipped
    \/ \E o \in Opens : opening[o].pc = "marked" /\ t \in opening[o].rows

\* The Messages screen: its count, its rows and their filter go by the badges.
Announced(p) == badge[p] > 0

\* A text that is unread, and no longer on its way, has a badge, unless its push was
\* lost, a list read before it was set after it, or an opened thread failed.
UnreadIsAnnounced ==
  \A p \in Persons :
    UnreadOf(p) \ pushing # {} =>
      \/ Announced(p)
      \/ p \in muted
      \/ \E o \in Opens : opening[o].of = p /\ opening[o].pc \in {"asked", "selected"}

\* Together: a text that nobody has looked at is announced, however the pushes, the
\* lists and the threads of several contacts overlap (index.ts:2520, ws.ts:223).
NoTextPassesUnnoticed == ReadWasShown /\ UnreadIsAnnounced

ISpec == InboxInit /\ [][InboxNext]_inboxVars
==============================================================================
