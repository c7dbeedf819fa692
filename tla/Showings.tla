------------------------------ MODULE Showings ------------------------------
(***************************************************************************)
(* Showing days of one buyer: the showings agent (src/agents/showings),    *)
(* its access plans, the endpoints under /v1/tours and the phone's swipe   *)
(* stack.  The tables are variables; each await of a handler is a step, so *)
(* swipes, negotiations and route computations of the same day interleave. *)
(* What the driver returns has the type the code declares for it.          *)
(***************************************************************************)
EXTENDS Naturals, Sequences, SequencesExt, FiniteSets, FiniteSetsExt

CONSTANTS Props,         \* listings the MLS search finds
          Listing,       \* [Props -> what the MLS says of its showing]
          Slots,         \* handlers of the gateway that may run at once
          Options,       \* days one proposal offers (3 in the code)
          PatchTo,       \* statuses the app patches days to
          MaxDays, MaxStops, MaxNegotiations,   \* bounds
          MaxFailures    \* bound on failed statements and lost requests

ASSUME StatusAssumption ==
  PatchTo \subseteq {"proposed_to_client", "confirmed", "in_progress", "completed", "cancelled"}
ASSUME ListingAssumption ==
  Listing \in [Props -> [type : {"go_direct", "contact_agent", "platform_booking", "unknown"},
                         contact : BOOLEAN]]   \* a phone, or a booking link, is known

VARIABLES propertyResults,   \* table property_results, written by one search
          days,      \* table showing_days: status, in creation order
          stops,     \* table showing_day_properties, in creation order
          routes,    \* table showing_routes, with what the count had seen
          events,    \* [day -> showing.access_confirmed events not handled yet]
          job,       \* [Slots -> the handler running there]
          curation,  \* phone: the banner, the queue being swiped
          negotiations, failures,
          hurt       \* history: days of which a negotiation or route statement failed

showVars == <<propertyResults, days, stops, routes, events, job, curation,
              negotiations, failures, hurt>>
tables == <<propertyResults, days, stops, routes>>
bounds == <<negotiations, failures, hurt>>

Resolved == {"confirmed", "not_needed", "failed"}
RoutableConfirmed == {"confirmed"}
Routable == {"confirmed", "not_needed"}
OpenDay == {"draft", "confirmed"}

StopsOf(d) == {i \in DOMAIN stops : stops[i].day = d}
Unresolved(d) == {i \in StopsOf(d) : stops[i].access \notin Resolved}

\* The bounds count what handlers under way may still insert.
Swipes == {s \in Slots : job[s].kind \in {"swipe", "order", "insert"}}
RoomForStop == Len(stops) + Cardinality(Swipes) < MaxStops
RoomForDays(n) ==
  Len(days) + n + Cardinality({s \in Slots : job[s].kind = "propose"}) * Options <= MaxDays

Idle == [kind |-> "idle"]
Free(s) == job[s] = Idle
Start(s, j) == Free(s) /\ job' = [job EXCEPT ![s] = j]
Continue(s, j) == job' = [job EXCEPT ![s] = j]
End(s) == job' = [job EXCEPT ![s] = Idle]
At(s, pc) == job[s].kind = pc

ShowInit ==
  /\ propertyResults = {} /\ days = <<>> /\ stops = <<>> /\ routes = {}
  /\ events = [d \in 1..MaxDays |-> 0]
  /\ job = [s \in Slots |-> Idle]
  /\ curation = [banner |-> FALSE, queue |-> <<>>]
  /\ negotiations = 0 /\ failures = 0 /\ hurt = {}

---------------------------------------------------------------------------
\* contact.created, or the user asks: search, score, insert the search and its
\* results; an insert of a result may fail alone, the banner counts them all.
PropertyMatch ==
  /\ propertyResults = {} /\ ~curation.banner
  /\ \E found \in SUBSET Props :
       /\ found # {}
       /\ found # Props => failures < MaxFailures
       /\ propertyResults' = found
       /\ failures' = IF found = Props THEN failures ELSE failures + 1
  /\ curation' = [curation EXCEPT !.banner = TRUE]
  /\ UNCHANGED <<days, stops, routes, events, job, negotiations, hurt>>

\* GET .../results: every result of the search, in the order of the scores.
SearchResults == SetToSeqs(propertyResults)

\* handleCurateTap: the results become the queue; the banner goes.
CurateTap ==
  /\ curation.banner /\ curation.queue = <<>>
  /\ \E q \in SearchResults : curation' = [banner |-> FALSE, queue |-> q]
  /\ UNCHANGED <<tables, events, job, bounds>>

\* swipeProperty of the store: on to the next card.
SwipeProperty ==
  /\ curation.queue # <<>>
  /\ curation' = [curation EXCEPT !.queue = Tail(@)]

\* handleSkip: the card goes; the gateway does nothing with a "no".
Skip ==
  /\ SwipeProperty
  /\ UNCHANGED <<tables, events, job, bounds>>

\* handleAdd: the card goes before the request is sent; a lost one is forgotten.
Add ==
  /\ SwipeProperty
  /\ \/ \E s \in Slots : /\ RoomForStop
             /\ Start(s, [kind |-> "swipe", prop |-> Head(curation.queue)])
        /\ UNCHANGED failures
     \/ failures < MaxFailures /\ failures' = failures + 1 /\ UNCHANGED job
  /\ UNCHANGED <<tables, events, negotiations, hurt>>

\* POST /v1/tours/swipe: the newest open day of the buyer, then the largest
\* order in it, then the insert; without an open day the "yes" is dropped, and
\* a failure is answered ok like everything else.
SwipeDay(s) ==
  /\ At(s, "swipe")
  /\ LET open == {d \in DOMAIN days : days[d] \in OpenDay}
     IN  IF open = {} THEN End(s)
         ELSE Continue(s, [kind |-> "order", prop |-> job[s].prop, day |-> Max(open)])
  /\ UNCHANGED <<tables, events, curation, bounds>>

SwipeOrder(s) ==
  /\ At(s, "order")
  /\ LET orders == {stops[i].order : i \in StopsOf(job[s].day)}
     IN  Continue(s, [kind |-> "insert", prop |-> job[s].prop, day |-> job[s].day,
                      order |-> IF orders = {} THEN 0 ELSE Max(orders) + 1])
  /\ UNCHANGED <<tables, events, curation, bounds>>

SwipeInsert(s) ==
  /\ At(s, "insert")
  /\ End(s)
  /\ \/ /\ stops' = Append(stops, [prop |-> job[s].prop, day |-> job[s].day,
                                   order |-> job[s].order, access |-> "pending"])
        /\ UNCHANGED failures
     \/ failures < MaxFailures /\ failures' = failures + 1 /\ UNCHANGED stops
  /\ UNCHANGED <<propertyResults, days, routes, events, curation, negotiations, hurt>>

---------------------------------------------------------------------------
\* POST /v1/tours/days.
CreateDay ==
  /\ RoomForDays(1)
  /\ days' = Append(days, "draft")
  /\ UNCHANGED <<propertyResults, stops, routes, events, job, curation, bounds>>

\* showing_day_propose: the drafts are inserted one after the other; a failure
\* leaves the earlier ones.
ProposeDays(s) ==
  /\ propertyResults # {} /\ RoomForDays(Options)
  /\ Start(s, [kind |-> "propose", left |-> Options])
  /\ UNCHANGED <<tables, events, curation, bounds>>

ProposeInsert(s) ==
  /\ At(s, "propose")
  /\ \/ /\ days' = Append(days, "draft")
        /\ IF job[s].left = 1 THEN End(s) ELSE Continue(s, [job[s] EXCEPT !.left = @ - 1])
        /\ UNCHANGED failures
     \/ failures < MaxFailures /\ failures' = failures + 1 /\ End(s) /\ UNCHANGED days
  /\ UNCHANGED <<propertyResults, stops, routes, events, curation, negotiations, hurt>>

\* PATCH /v1/tours/days/:id sets any status, whatever the day's status was.
\* (Bound: a day is patched at most away from draft.)
PatchDay(d, status) ==
  /\ days[d] = "draft"
  /\ days' = [days EXCEPT ![d] = status]
  /\ UNCHANGED <<propertyResults, stops, routes, events, job, curation, bounds>>

---------------------------------------------------------------------------
\* What has no phone number or no booking link is left to the user.
BuildAccessPlan(p) ==
  CASE Listing[p].type = "go_direct"        -> "auto_confirm"
    [] ~Listing[p].contact                  -> "manual_required"
    [] Listing[p].type = "contact_agent"    -> "sms_draft"
    [] Listing[p].type = "platform_booking" -> "browser_navigate"
    [] OTHER                                -> "manual_required"

\* The status the plan gives the stop.
AccessOf(i) ==
  LET plan == BuildAccessPlan(stops[i].prop) IN
  IF plan = "auto_confirm" THEN "not_needed"
  ELSE IF plan = "manual_required" THEN "pending" ELSE "negotiating"

\* showing_access_negotiate: the stops are read once, then handled in parallel.
Negotiate(s, d) ==
  /\ negotiations < MaxNegotiations /\ StopsOf(d) # {}
  /\ Start(s, [kind |-> "negotiate", day |-> d, todo |-> StopsOf(d)])
  /\ negotiations' = negotiations + 1
  /\ UNCHANGED <<tables, events, curation, failures, hurt>>

\* One stop of it: the update, and for an automatic one the event after it.
NegotiateStop(s) ==
  /\ At(s, "negotiate")
  /\ \E i \in job[s].todo :
       LET d == job[s].day  left == job[s].todo \ {i}
       IN  /\ IF left = {} THEN End(s) ELSE Continue(s, [job[s] EXCEPT !.todo = left])
           /\ \/ /\ stops' = [stops EXCEPT ![i].access = AccessOf(i)]
                 /\ events' = [events EXCEPT ![d] = IF AccessOf(i) = "not_needed"
                                                    THEN @ + 1 ELSE @]
                 /\ UNCHANGED <<failures, hurt>>
              \/ /\ failures < MaxFailures /\ failures' = failures + 1
                 /\ hurt' = hurt \cup {d}
                 /\ UNCHANGED <<stops, events>>
  /\ UNCHANGED <<propertyResults, days, routes, curation, negotiations>>

\* showing.access_confirmed: with nothing unresolved a route task starts.
AccessConfirmed(s, d) ==
  /\ events[d] > 0 /\ Free(s)
  /\ events' = [events EXCEPT ![d] = @ - 1]
  /\ IF Unresolved(d) = {} THEN Start(s, [kind |-> "check", day |-> d]) ELSE UNCHANGED job
  /\ UNCHANGED <<tables, curation, bounds>>

RouteCheckUncounted(s) ==
  /\ At(s, "check")
  /\ Continue(s, [kind |-> "load", day |-> job[s].day, seen |-> StopsOf(job[s].day)])
  /\ UNCHANGED <<tables, events, curation, bounds>>
\* route_optimize: count what is unresolved, then load what is routable, then
\* ask the maps service, then insert the route, then renumber the stops.
RouteCheck(s) ==
  /\ At(s, "check")
  /\ IF Unresolved(job[s].day) # {} THEN End(s)
     ELSE Continue(s, [kind |-> "load", day |-> job[s].day, seen |-> StopsOf(job[s].day)])
  /\ UNCHANGED <<tables, events, curation, bounds>>

RouteLoad(s) ==
  /\ At(s, "load")
  /\ LET load == {i \in StopsOf(job[s].day) : stops[i].access \in Routable}
     IN  IF load = {} THEN End(s)
         ELSE \E order \in SetToSeqs(load) :
                Continue(s, [kind |-> "route", day |-> job[s].day,
                             seen |-> job[s].seen, order |-> order])
  /\ UNCHANGED <<tables, events, curation, bounds>>

RouteInsert(s) ==
  /\ At(s, "route")
  /\ \/ /\ routes' = routes \cup {[day |-> job[s].day, seen |-> job[s].seen,
                                   stops |-> Range(job[s].order)]}
        /\ Continue(s, [kind |-> "renumber", order |-> job[s].order,
                        todo |-> DOMAIN job[s].order])
        /\ UNCHANGED <<failures, hurt>>
     \/ /\ failures < MaxFailures /\ failures' = failures + 1
        /\ hurt' = hurt \cup {job[s].day} /\ End(s) /\ UNCHANGED routes
  /\ UNCHANGED <<propertyResults, days, stops, events, curation, negotiations>>

RouteRenumber(s) ==
  /\ At(s, "renumber")
  /\ \E n \in job[s].todo :
       /\ stops' = [stops EXCEPT ![job[s].order[n]].order = n - 1]
       /\ IF job[s].todo = {n} THEN End(s) ELSE Continue(s, [job[s] EXCEPT !.todo = @ \ {n}])
  /\ UNCHANGED <<propertyResults, days, routes, events, curation, bounds>>

Handler(s) == \/ SwipeDay(s) \/ SwipeOrder(s) \/ SwipeInsert(s) \/ ProposeInsert(s)
              \/ NegotiateStop(s) \/ RouteCheck(s) \/ RouteLoad(s) \/ RouteInsert(s)
              \/ RouteRenumber(s)
EventHandler == \E s \in Slots, d \in DOMAIN days : AccessConfirmed(s, d)

ShowNext == \/ PropertyMatch \/ CurateTap \/ Skip \/ Add \/ CreateDay
            \/ \E s \in Slots : ProposeDays(s) \/ Handler(s)
            \/ \E d \in DOMAIN days, status \in PatchTo : PatchDay(d, status)
            \/ \E s \in Slots, d \in DOMAIN days : Negotiate(s, d)
            \/ EventHandler

---------------------------------------------------------------------------
\* Every stop that a route task saw when it found nothing unresolved is in the
\* route it records: the two reads of the task may differ by what swipes add
\* and negotiations change meanwhile, but the route loses no stop of the first.
RouteCoversCheckedStops == \A r \in routes : r.seen \subseteq r.stops

\* Once the agent leaves it alone, a day all of whose stops are resolved has a
\* route over all of them, whichever of the confirmations came last, unless a
\* statement failed: nothing else would start one.
ResolvedDayIsRouted ==
  <>[](\A d \in DOMAIN days :
         StopsOf(d) # {} /\ Unresolved(d) = {} /\ d \notin hurt
           => \E r \in routes : r.day = d /\ StopsOf(d) \subseteq r.stops)
=============================================================================
