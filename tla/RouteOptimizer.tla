--------------------------- MODULE RouteOptimizer ---------------------------
(***************************************************************************)
(* optimizeRoute of src/features/routing: the order and the times of the   *)
(* stops of a tour.  Stops with a booked time are anchors, visited in the  *)
(* order of their times; the flexible ones fill the gaps, nearest first;   *)
(* what cannot be geocoded comes last.  Times are in units of which        *)
(* Tolerance make five minutes.  One step computes the route of an input.  *)
(***************************************************************************)
EXTENDS Integers, Sequences, FiniteSetsExt, Functions, Ranks

CONSTANTS NStops, Drives, Bookings, Duration, Tolerance

ASSUME RouteAssumption ==
  {NStops, Duration, Tolerance} \cup Drives \subseteq Nat /\ Bookings \subseteq Int

Stops == 1..NStops
Inputs == [drive : [0..NStops -> [Stops -> Drives]],  \* row 0 is the origin
           fixed : [Stops -> Bookings \cup {0}],      \* 0: no booked time
           geocoded : SUBSET Stops,
           origin : BOOLEAN]                          \* origin and matrix were obtained

VARIABLES input, route
routeVars == <<input, route>>

Fixed(in) == {i \in in.geocoded : in.fixed[i] # 0}
Flexible(in) == in.geocoded \ Fixed(in)
\* The first of the nearest, as the strict comparison of the loops takes it.
Nearest(in, row, S) ==
  Min({i \in S : \A j \in S : in.drive[row][i] <= in.drive[row][j]})

\* A partial route: the order so far, the time on leaving its last stop (the
\* start of the tour is time 0) and that stop, the row of the matrix.
Partial == [order |-> <<>>, now |-> 0, row |-> 0]
Visit(in, p, i, earliest) ==
  [order |-> Append(p.order, i),
   now |-> Max({p.now + in.drive[p.row][i], earliest}) + Duration,
   row |-> i]
Left(S, p) == S \ Range(p.order)

FitsAlone(in, p, anchor) ==
  {i \in Left(Flexible(in), p) :
     p.now + in.drive[p.row][i] + Duration <= in.fixed[anchor] + Tolerance}
\* The flexible stops after which the anchor is still reached in time.
Fits(in, p, anchor) ==
  {i \in Left(Flexible(in), p) :
     p.now + in.drive[p.row][i] + Duration + in.drive[i][anchor]
       <= in.fixed[anchor] + Tolerance}

\* The loops, each pass an element of a function.
Inserted(in, p, anchor) ==
  LET fits == Fits(in, p, anchor)
  IN  IF fits = {} THEN p ELSE Visit(in, p, Nearest(in, p.row, fits), 0)
FillGap(in, p, anchor) ==
  LET gap[n \in 0..NStops] == IF n = 0 THEN p ELSE Inserted(in, gap[n - 1], anchor)
  IN  gap[NStops]

\* Anchors by booked time; equal times keep the order of the input.
Booked(in) == {p \in Stops \X Stops : \/ in.fixed[p[1]] < in.fixed[p[2]]
                                      \/ in.fixed[p[1]] = in.fixed[p[2]] /\ p[1] < p[2]}
ByTime(in) == Ranked(Fixed(in), Booked(in))

Reached(in, p, anchor) == Visit(in, FillGap(in, p, anchor), anchor, in.fixed[anchor])
Anchored(in) ==
  LET anchors == ByTime(in)
      after[n \in 0..Cardinality(Fixed(in))] ==
        IF n = 0 THEN Partial ELSE Reached(in, after[n - 1], anchors[n])
  IN  after[Cardinality(Fixed(in))]

Proceeded(in, p) ==
  LET left == Left(Flexible(in), p)
  IN  IF left = {} THEN p ELSE Visit(in, p, Nearest(in, p.row, left), 0)
Rest(in, p) ==
  LET rest[n \in 0..NStops] == IF n = 0 THEN p ELSE Proceeded(in, rest[n - 1])
  IN  rest[NStops]

BuildOrderedIndices(in) == Rest(in, Anchored(in)).order

\* Scheduled times along an order, recomputed from the start of the tour: that of
\* its n-th stop from that of the one before.
Scheduled(in, order, n, before) ==
  LET from   == IF n = 1 THEN 0 ELSE order[n - 1]
      depart == IF n = 1 THEN 0 ELSE before + Duration
  IN  Max({depart + in.drive[from][order[n]], in.fixed[order[n]]})
BuildOrderedStops(in, order) ==
  LET t[n \in 0..Len(order)] == IF n = 0 THEN 0 ELSE Scheduled(in, order, n, t[n - 1])
  IN  [n \in 1..Len(order) |-> [stop |-> order[n], at |-> t[n]]]

\* Without coordinates or drive times: the order given, no driving time at all.
FallbackSequential(in) ==
  LET t[n \in 0..NStops] ==
        IF n = 0 THEN 0
        ELSE Max({IF n = 1 THEN 0 ELSE t[n - 1] + Duration, in.fixed[n]})
  IN  [n \in Stops |-> [stop |-> n, at |-> t[n]]]

\* What could not be geocoded follows the last stop, at its leaving time.
Appended(in, ordered) ==
  LET tail == Ranked(Stops \ in.geocoded, Earlier(NStops))
      leave == ordered[Len(ordered)].at + Duration
  IN  ordered \o [n \in 1..Cardinality(Stops \ in.geocoded) |->
                    [stop |-> tail[n], at |-> leave + (n - 1) * Duration]]

OptimizeRoute(in) ==
  IF in.geocoded = {} \/ ~in.origin THEN FallbackSequential(in)
  ELSE Appended(in, BuildOrderedStops(in, BuildOrderedIndices(in)))

\* (Of the matrix, what is never read is left at its least.)
Read(in, r, i) == in.origin /\ i \in in.geocoded /\ r # i /\ r \in in.geocoded \cup {0}
OptimizerInit == /\ input \in {in \in Inputs : \A r \in 0..NStops, i \in Stops :
                                 Read(in, r, i) \/ in.drive[r][i] = Min(Drives)}
                 /\ route = <<>>
OptimizerNext == route = <<>> /\ route' = OptimizeRoute(input) /\ UNCHANGED input

---------------------------------------------------------------------------

\* The two passes agree: in the times of the second pass, a flexible stop that
\* the first put before an anchor never makes it more than five minutes late.
FlexibleNeverDelayAnchors ==
  \A n \in DOMAIN route :
    (/\ n > 1 /\ input.origin
     /\ route[n].stop \in Fixed(input) /\ route[n - 1].stop \in Flexible(input))
      => route[n].at <= input.fixed[route[n].stop] + Tolerance
=============================================================================
