------------------------------ MODULE ApprovalGate ------------------------------
(***************************************************************************)
(* What the approval manager promises the rest of the system, without its  *)
(* Map, timers, handlers and table.  A request is opened once; while the   *)
(* process lives, one answer or its expiry spends it for good, and only an *)
(* answer sends anything.  A restart may reopen what was spent.            *)
(***************************************************************************)
EXTENDS Naturals

CONSTANT Approvals

VARIABLES
  up,        \* the process serves requests
  gate,      \* "new", "open" or "spent" for each request
  sends,     \* how often its approved items went out
  restarts

vars == <<up, gate, sends, restarts>>

Init ==
  /\ up = FALSE
  /\ gate = [a \in Approvals |-> "new"]
  /\ sends = [a \in Approvals |-> 0]
  /\ restarts = 0

Open(a) ==
  /\ up /\ gate[a] = "new"
  /\ gate' = [gate EXCEPT ![a] = "open"]
  /\ UNCHANGED <<up, sends, restarts>>

\* An answer, an expiry, or a rejection of everything: the request is spent.
Spend(a) ==
  /\ up /\ gate[a] = "open"
  /\ gate' = [gate EXCEPT ![a] = "spent"]
  /\ UNCHANGED <<up, sends, restarts>>

Send(a) ==
  /\ up /\ gate[a] = "open"
  /\ gate' = [gate EXCEPT ![a] = "spent"]
  /\ sends' = [sends EXCEPT ![a] = @ + 1]
  /\ UNCHANGED <<up, restarts>>

Die ==
  /\ up /\ up' = FALSE
  /\ gate' = [a \in Approvals |-> IF gate[a] = "open" THEN "spent" ELSE gate[a]]
  /\ restarts' = restarts + 1
  /\ UNCHANGED sends

Start ==
  /\ ~up /\ up' = TRUE
  /\ \E back \in SUBSET {a \in Approvals : gate[a] = "spent"} :
       gate' = [a \in Approvals |-> IF a \in back THEN "open" ELSE gate[a]]
  /\ UNCHANGED <<sends, restarts>>

Next ==
  \/ \E a \in Approvals : Open(a) \/ Spend(a) \/ Send(a)
  \/ Die
  \/ Start

Spec == Init /\ [][Next]_vars
================================================================================
