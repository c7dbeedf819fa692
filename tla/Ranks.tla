-------------------------------- MODULE Ranks ---------------------------------
(***************************************************************************)
(* Array.prototype.sort and filter, as coordinator.ts, router.ts and the   *)
(* route optimizer use them: what a set holds from the least on, and what  *)
(* a sequence holds at some of its positions.  Each is written from ranks, *)
(* not with an operator as a parameter, so that it can be reasoned about.  *)
(***************************************************************************)
EXTENDS Naturals, Sequences, FiniteSets

Below(S, R, a) == {b \in S : <<b, a>> \in R}

\* The members of a finite set in the order of the strict relation R.
Ranked(S, R) ==
  [k \in 1..Cardinality(S) |-> CHOOSE a \in S : Cardinality(Below(S, R, a)) = k - 1]

Earlier(n) == {p \in (1..n) \X (1..n) : p[1] < p[2]}

\* The elements of s at the positions of I, in their order.
Selected(s, I) ==
  LET at == Ranked(I, Earlier(Len(s))) IN [k \in 1..Cardinality(I) |-> s[at[k]]]
=============================================================================
