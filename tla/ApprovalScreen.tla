---------------------------- MODULE ApprovalScreen -----------------------------
(***************************************************************************)
(* The approval screens of the phone: the deck of cards of one approval,   *)
(* swiped one by one, and the one post with the decisions.  An answer to   *)
(* Studio's paperwork form and a timer of the briefing push the screen of  *)
(* an approval over whatever is open by then, and all screens share one    *)
(* store.  Approving waits for the biometric prompt, and what it then      *)
(* records goes to the deck the store holds by then.                       *)
(***************************************************************************)
EXTENDS Naturals, FiniteSets, Sequences, SequencesExt

CONSTANTS
  Decks,      \* the approvals the gateway may come to hold
  Cards,          \* [Decks -> the number of its items]
  NoApproval,
  MaxPushes,      \* bound: screens opened in all
  MaxPosts        \* bound: posts on their way when the user goes on swiping

ASSUME CardsAssumption == Cards \in [Decks -> Nat \ {0}] /\ NoApproval \notin Decks

VARIABLES
  stack,      \* the approval screens: [nr, id, loading, done, edit]
  deck,       \* useApprovalStore: [id, decisions, index]
  waiting,    \* swipes that wait for the prompt: <<approval, item>>
  skip,       \* the "Skip remaining?" alert: {} or {<<screen, the deck as it was drawn>>}
  asked,      \* requests under way that make an approval: <<approval, "document" or "item">>
  queue,      \* pendingApprovalIds of the briefing store
  due,        \* approvals taken off the queue whose 400 ms timer runs
  posting,    \* posts on their way: [by, id, decisions]
  leaving,    \* timers of "All done!"
  made, open, \* approvals the gateway was asked for, and those it still holds
  executed,   \* items executed, each with the card whose swipe approved it
  pushes
originVars == <<asked, due, made>>
screenVars == <<stack, deck, waiting, skip, queue, posting, leaving, open, executed, pushes, originVars>>

NotSent == <<>>
NoDecisions == [x \in {} |-> NotSent]
Empty == [id |-> NoApproval, decisions |-> NoDecisions, index |-> 1]
Size(id) == IF id = NoApproval THEN 0 ELSE Cards[id]
NewScreen(id) == [nr |-> pushes + 1, id |-> id, loading |-> TRUE, done |-> FALSE, edit |-> 0]

ScreenInit ==
  /\ stack = <<>> /\ deck = Empty /\ waiting = {} /\ skip = {}
  /\ asked = {} /\ queue = <<>> /\ due = {} /\ made = {} /\ open = {}
  /\ posting = {} /\ leaving = 0 /\ executed = {} /\ pushes = 0

Top == Last(stack)
InDeck == stack # <<>> /\ ~Top.loading /\ ~Top.done /\ Top.edit = 0 /\ skip = {}
          /\ deck.index <= Size(deck.id) /\ Cardinality(posting) < MaxPosts

---------------------------------------------------------------------------
\* The store.  A decision replaces an earlier one on the same item: the card
\* whose swipe approved it, or NotSent for "cancel" and "edit", which execute nothing.
SetCarousel(id) == [id |-> id, decisions |-> NoDecisions, index |-> 1]
Over(new, old) == [k \in DOMAIN new \cup DOMAIN old |-> IF k \in DOMAIN new THEN new[k] ELSE old[k]]
RecordDecision(d, item, decision) == [d EXCEPT !.decisions = Over([k \in {item} |-> decision], @)]
Advance(d) == [d EXCEPT !.index = IF @ > Size(d.id) THEN @ ELSE @ + 1]
IsComplete(d) == d.index > Size(d.id)

\* The completion effect of every mounted screen runs when the store changes:
\* each posts the decisions of the deck in the store.
Submit(nr, d) == IF d.id = NoApproval THEN {} ELSE {[by |-> nr, id |-> d.id, decisions |-> d.decisions]}
Mounted == {stack[i].nr : i \in {j \in DOMAIN stack : ~stack[j].loading}}
Completed(d) == IF Size(d.id) > 0 /\ IsComplete(d) THEN UNION {Submit(nr, d) : nr \in Mounted} ELSE {}
Commit(d) == deck' = d /\ posting' = posting \cup Completed(d)

---------------------------------------------------------------------------
\* Opening.  With no screen open the user sends documents in Studio (one form at a
\* time) or approves an item of the briefing; the gateway makes the approval.
Ask(id, what) ==
  /\ stack = <<>> /\ id \notin made
  /\ what = "document" => \A a \in asked : a[2] # "document"
  /\ asked' = asked \cup {<<id, what>>} /\ made' = made \cup {id} /\ open' = open \cup {id}
  /\ UNCHANGED <<stack, deck, waiting, skip, queue, posting, leaving, executed, due, pushes>>

\* No answer comes: an alert, and the phone never learns of the approval.
AskFails(a) ==
  /\ asked' = asked \ {a}
  /\ UNCHANGED <<stack, deck, waiting, skip, queue, posting, leaving, open, executed, due, made, pushes>>

Push(id) ==
  /\ pushes < MaxPushes /\ pushes' = pushes + 1
  /\ stack' = Append(stack, NewScreen(id))

\* The paperwork's answer opens its approval, whatever is open meanwhile.
PushScreen(id) ==
  /\ <<id, "document">> \in asked /\ asked' = asked \ {<<id, "document">>}
  /\ Push(id)
  /\ UNCHANGED <<deck, waiting, skip, queue, posting, leaving, open, executed, due, made>>

\* When the briefing's list gets empty, the first approval queued by then is taken.
LaunchCarousel(q) == q # <<>> /\ queue' = Tail(q) /\ due' = due \cup {Head(q)}

ItemApproved(id) ==
  /\ <<id, "item">> \in asked /\ asked' = asked \ {<<id, "item">>}
  /\ \/ queue' = Append(queue, id) /\ UNCHANGED due
     \/ LaunchCarousel(Append(queue, id))
  /\ UNCHANGED <<stack, deck, waiting, skip, posting, leaving, open, executed, made, pushes>>

\* The last item is dismissed, or a load finds none.
LastItemGoes ==
  /\ LaunchCarousel(queue)
  /\ UNCHANGED <<stack, deck, waiting, skip, posting, leaving, open, executed, asked, made, pushes>>

\* 400 ms later: over whatever is open.
CarouselTimer(id) ==
  /\ id \in due /\ due' = due \ {id}
  /\ Push(id)
  /\ UNCHANGED <<deck, waiting, skip, queue, posting, leaving, open, executed, asked, made>>

\* The button of the briefing, which no screen covers.
PressReview ==
  /\ stack = <<>> /\ queue # <<>> /\ queue' = Tail(queue)
  /\ Push(Head(queue))
  /\ UNCHANGED <<deck, waiting, skip, posting, leaving, open, executed, originVars>>

\* The cleanup of a screen that goes empties the store.
GoBack ==
  /\ stack' = Front(stack) /\ deck' = Empty
  /\ UNCHANGED queue

Close ==
  /\ stack # <<>> /\ ~Top.done /\ skip = {} /\ GoBack
  /\ UNCHANGED <<waiting, skip, posting, leaving, open, executed, pushes, originVars>>

\* GET of a screen's approval; one that is gone closes the screen on top.
CanFetch(id) == id \in open
Fetched(i) ==
  /\ i \in DOMAIN stack /\ stack[i].loading
  /\ \/ /\ CanFetch(stack[i].id)
        /\ stack' = [stack EXCEPT ![i].loading = FALSE]
        /\ deck' = SetCarousel(stack[i].id) /\ UNCHANGED queue
     \/ /\ ~CanFetch(stack[i].id)
        /\ stack' = Front([stack EXCEPT ![i].loading = FALSE]) /\ deck' = Empty /\ UNCHANGED queue
  /\ UNCHANGED <<waiting, skip, posting, leaving, open, executed, pushes, originVars>>

---------------------------------------------------------------------------
\* The top card.  A right swipe is handled after the prompt, by the callback of
\* the card as it was drawn.  (A post_social card opens the share sheet and
\* records "shared", which like "cancel" executes nothing.)
SwipeRight ==
  /\ InDeck /\ waiting = {}
  /\ waiting' = {<<deck.id, deck.index>>}
  /\ UNCHANGED <<stack, deck, skip, queue, posting, leaving, open, executed, pushes, originVars>>

PromptRefused ==
  /\ waiting # {} /\ waiting' = {}
  /\ UNCHANGED <<stack, deck, skip, queue, posting, leaving, open, executed, pushes, originVars>>

ItemByNow(w) == deck.index   \* mutant: of the deck as it is after the prompt
ItemOf(w) == w[2]
HandleApprove ==
  /\ waiting' = {}
  /\ \E w \in waiting :
       Commit(Advance(RecordDecision(deck, ItemOf(w), w)))
  /\ UNCHANGED <<stack, skip, queue, leaving, open, executed, pushes, originVars>>

\* A left swipe, also on a card whose right swipe still waits.
HandleReject ==
  /\ InDeck /\ Commit(Advance(RecordDecision(deck, deck.index, NotSent)))
  /\ UNCHANGED <<stack, waiting, skip, queue, leaving, open, executed, pushes, originVars>>

HandleEdit ==
  /\ InDeck /\ stack' = [stack EXCEPT ![Len(stack)].edit = deck.index]
  /\ UNCHANGED <<deck, waiting, skip, queue, posting, leaving, open, executed, pushes, originVars>>

HandleEditSave ==
  /\ stack # <<>> /\ Top.edit # 0
  /\ stack' = [stack EXCEPT ![Len(stack)].edit = 0]
  /\ Commit(Advance(RecordDecision(deck, Top.edit, NotSent)))
  /\ UNCHANGED <<waiting, skip, queue, leaving, open, executed, pushes, originVars>>

\* The sheet is closed without saving; an empty text is not saved either.
CancelEdit ==
  /\ stack # <<>> /\ Top.edit # 0
  /\ stack' = [stack EXCEPT ![Len(stack)].edit = 0]
  /\ UNCHANGED <<deck, waiting, skip, queue, posting, leaving, open, executed, pushes, originVars>>

\* The alert, and what its button then posts: the deck as it was drawn, and
\* "cancel" for all that was left of it.
HandleSkipAll ==
  /\ InDeck /\ skip' = {<<Top.nr, deck>>}
  /\ UNCHANGED <<stack, deck, waiting, queue, posting, leaving, open, executed, pushes, originVars>>

CancelFrom(d, index, id) ==
  [d EXCEPT !.decisions = Over([k \in index..Size(id) |-> NotSent], @)]
CancelRemaining ==
  /\ skip' = {}
  /\ \E k \in skip :
       LET drawn == k[2]
           kept  == CancelFrom(deck, drawn.index, drawn.id) IN
       /\ deck' = kept
       /\ posting' = posting \cup Completed(kept)
                       \cup Submit(k[1], CancelFrom(drawn, drawn.index, drawn.id))
  /\ UNCHANGED <<stack, waiting, queue, leaving, open, executed, pushes, originVars>>

KeepRemaining ==
  /\ skip # {} /\ skip' = {}
  /\ UNCHANGED <<stack, deck, waiting, queue, posting, leaving, open, executed, pushes, originVars>>

---------------------------------------------------------------------------
\* The post.  The gateway ignores one for an approval it does not hold.
ToExecute(post) ==
  {[item |-> <<post.id, k>>, card |-> post.decisions[k]] :
     k \in {i \in DOMAIN post.decisions : post.decisions[i] # NotSent}}
PostApproval(post) ==
  /\ open' = open \ {post.id}
  /\ executed' = IF post.id \in open THEN executed \cup ToExecute(post) ELSE executed

\* Answered, whatever the status: "All done!", and a timer that nothing stops.
Submitted(post) ==
  /\ posting' = posting \ {post} /\ PostApproval(post) /\ leaving' = leaving + 1
  /\ stack' = [i \in DOMAIN stack |-> [stack[i] EXCEPT !.done = @ \/ stack[i].nr = post.by]]
  /\ UNCHANGED <<deck, waiting, skip, queue, pushes, originVars>>

\* It replaces the screen on top by the next of the queue, or closes it.
ShowNext ==
  /\ leaving > 0 /\ leaving' = leaving - 1
  /\ LET below == IF stack = <<>> THEN <<>> ELSE Front(stack) IN
     IF queue # <<>> THEN /\ stack' = Append(below, NewScreen(Head(queue))) /\ queue' = Tail(queue)
                          /\ pushes' = pushes + 1
     ELSE stack' = below /\ UNCHANGED <<queue, pushes>>
  /\ deck' = Empty
  /\ UNCHANGED <<waiting, skip, posting, open, executed, originVars>>

\* An alert.  The deck is finished: it is not posted again.
SubmitFails(post) ==
  /\ posting' = posting \ {post}
  /\ UNCHANGED <<stack, deck, waiting, skip, queue, leaving, open, executed, pushes, originVars>>

ScreenNext ==
  \/ \E id \in Decks : Ask(id, "document") \/ Ask(id, "item")
  \/ \E a \in asked : AskFails(a)
  \/ \E id \in Decks : PushScreen(id) \/ ItemApproved(id) \/ CarouselTimer(id)
  \/ LastItemGoes \/ PressReview \/ Close \/ ShowNext
  \/ \E i \in DOMAIN stack : Fetched(i)
  \/ SwipeRight \/ PromptRefused \/ HandleApprove \/ HandleReject
  \/ HandleEdit \/ HandleEditSave \/ CancelEdit
  \/ HandleSkipAll \/ CancelRemaining \/ KeepRemaining
  \/ \E post \in posting : Submitted(post) \/ SubmitFails(post)

---------------------------------------------------------------------------
\* The gateway executes an item only if the user swiped its own card to the
\* right, or the card of another approval whose prompt was up when this deck
\* replaced its own: never by a swipe on another card of its approval, however
\* swipes, prompts, screens and posts overlap.
ExecutedWasSwiped == \A e \in executed : e.card = e.item \/ e.card[1] # e.item[1]

\* agents/comms/SOUL.md:17: "Never send without explicit approval".
NothingSentUnseen == \A e \in executed : e.card = e.item
================================================================================
