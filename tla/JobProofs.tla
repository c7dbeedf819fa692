------------------------------ MODULE JobProofs -------------------------------
(***************************************************************************)
(* Theorems about the jobs of the background. GmailIngest: the pointer     *)
(* only passes mails that were stored, whose processing threw or that were *)
(* on a page no one asked for, for any number of mails, jobs, processes,   *)
(* failures and crashes and any size of page; and no more mails miss their *)
(* hand-over than calls failed and dying processes had jobs. Heartbeat: no *)
(* tick fires more often than its patterns, its processes and their deaths *)
(* account for.                                                            *)
(***************************************************************************)
EXTENDS TLAPS, FiniteSetTheorems, GmailIngest, Heartbeat

Listed == {"check", "insert", "dispatch", "advance"}   \* steps after List

\* A job's target was pushed before, and it is at a mail of its history list.
Shape ==
  /\ TypeOK
  /\ pushes \subseteq 1..inbox /\ baseline <= inbox
  /\ \A j \in Jobs :
       /\ pc[j] # "none" => target[j] \in 1..inbox
       /\ pc[j] \in Listed \cup {"list"} => at[j] >= 1
       /\ pc[j] \in {"check", "insert", "dispatch"} => at[j] <= upto[j]
       /\ pc[j] = "advance" => upto[j] < at[j]
       /\ upto[j] <= inbox

\* Only what runs on a process can die with it, and a process runs only so much.
Manned ==
  /\ \A j \in Jobs : on[j] # Nobody => pc[j] \in Working
  /\ \A w \in Workers : Cardinality(RunBy(w)) <= Concurrency

Covered(m) == m <= baseline \/ rows[m] # "none" \/ m \in failed \/ m \in beyond

\* What a job has behind it is covered; so is what the pointer has passed.
Behind ==
  /\ \A m \in Mails : m <= pointer => Covered(m)
  /\ \A j \in Jobs :
       /\ pc[j] \in Listed \cup {"list"} =>
            \A m \in Mails : m < at[j] => Covered(m)
       /\ pc[j] = "dispatch" => Covered(at[j])
       /\ pc[j] \in Listed =>
            \A m \in Mails : upto[j] < m /\ m <= target[j] => Covered(m)

LEMMA ShapeInit == Init => Shape /\ Manned
<1> SUFFICES ASSUME Init PROVE Shape /\ Manned
  OBVIOUS
<1>1. Shape
  BY GmailAssumption DEF Init, Shape, TypeOK, Jobs, Mails, Unset, Working, Listed, Workers, Nobody
<1>2. \A w \in Workers : RunBy(w) = {}
  BY GmailAssumption DEF Init, RunBy, Nobody, Workers
<1>3. Manned
  BY <1>2, FS_EmptySet, GmailAssumption DEF Init, Manned
<1> QED BY <1>1, <1>3

\* Moving on to the next mail keeps the shape of the job.
LEMMA NextMailShape ==
  ASSUME Shape, NEW j \in Jobs, pc[j] \in {"check", "insert", "dispatch"},
         NextMail(j), UNCHANGED <<target, runs, upto, inbox, pushes>>
  PROVE  /\ pc' \in [Jobs -> Working \cup {"none", "waiting", "done", "failed"}]
         /\ at' \in [Jobs -> 0..MaxMail + 1]
         /\ \A i \in Jobs :
              /\ pc'[i] # "none" => target'[i] \in 1..inbox'
              /\ pc'[i] \in Listed \cup {"list"} => at'[i] >= 1
              /\ pc'[i] \in {"check", "insert", "dispatch"} => at'[i] <= upto'[i]
              /\ pc'[i] = "advance" => upto'[i] < at'[i]
              /\ upto'[i] <= inbox'
<1>1. /\ at[j] \in 1..MaxMail /\ at[j] <= upto[j] /\ upto[j] \in 0..MaxMail
      /\ pc[j] # "none"
  BY GmailAssumption DEF Shape, TypeOK, Listed
<1>2. at' = [at EXCEPT ![j] = @ + 1] /\ at' \in [Jobs -> 0..MaxMail + 1]
  BY <1>1, GmailAssumption DEF NextMail, Shape, TypeOK
<1>3. /\ pc' \in [Jobs -> Working \cup {"none", "waiting", "done", "failed"}]
      /\ pc' = [pc EXCEPT ![j] = IF at[j] = upto[j] THEN "advance" ELSE "check"]
  BY DEF NextMail, Goto, Shape, TypeOK, Working
<1>4. ASSUME NEW i \in Jobs
      PROVE  /\ pc'[i] # "none" => target'[i] \in 1..inbox'
             /\ pc'[i] \in Listed \cup {"list"} => at'[i] >= 1
             /\ pc'[i] \in {"check", "insert", "dispatch"} => at'[i] <= upto'[i]
             /\ pc'[i] = "advance" => upto'[i] < at'[i]
             /\ upto'[i] <= inbox'
  <2>1. CASE i = j
    BY <2>1, <1>1, <1>2, <1>3 DEF Shape, TypeOK, Listed
  <2>2. CASE i # j
    BY <2>2, <1>2, <1>3 DEF Shape, TypeOK
  <2>3. QED
    BY <2>1, <2>2
<1>5. QED
  BY <1>2, <1>3, <1>4

\* Leaving keeps the shape of the job, too.
LEMMA LeaveShape ==
  ASSUME Shape, NEW j \in Jobs, pc[j] # "none", NEW to \in {"waiting", "done", "failed"},
         Leave(j, to), UNCHANGED <<target, inbox, pushes>>
  PROVE  /\ on' \in [Jobs -> Workers \cup {Nobody}]
         /\ pc' \in [Jobs -> Working \cup {"none", "waiting", "done", "failed"}]
         /\ at' \in [Jobs -> 0..MaxMail + 1] /\ upto' \in [Jobs -> 0..MaxMail]
         /\ \A i \in Jobs :
              /\ pc'[i] # "none" => target'[i] \in 1..inbox'
              /\ pc'[i] \in Listed \cup {"list"} => at'[i] >= 1
              /\ pc'[i] \in {"check", "insert", "dispatch"} => at'[i] <= upto'[i]
              /\ pc'[i] = "advance" => upto'[i] < at'[i]
              /\ upto'[i] <= inbox'
BY GmailAssumption DEF Leave, Goto, Shape, TypeOK, Listed, Working

LEMMA ShapeStep == Shape /\ Manned /\ [Next]_vars => Shape'
<1>. SUFFICES ASSUME Shape, Manned, [Next]_vars PROVE Shape'
  OBVIOUS
<1>. USE GmailAssumption
<1>1. CASE NewMail
  <2>1. /\ inbox' = inbox + 1 /\ inbox' \in 0..MaxMail /\ inbox \in 0..MaxMail
        /\ pushes' = pushes \cup {inbox'} /\ UNCHANGED <<jobVars, dbVars, outVars, bounds>>
    BY <1>1 DEF NewMail, Shape, TypeOK
  <2>2. inbox' \in Mails /\ pushes' \subseteq 1..inbox'
    BY <2>1 DEF Shape, TypeOK, Mails
  <2>3. TypeOK'
    BY <2>1, <2>2 DEF Shape, TypeOK, jobVars, dbVars, outVars, bounds
  <2>4. QED
    BY <2>1, <2>2, <2>3 DEF Shape, TypeOK, jobVars, dbVars
<1>2. CASE Connect
  BY <1>2 DEF Connect, Shape, TypeOK, Unset, jobVars, gmailVars, outVars, bounds, Listed
<1>3. ASSUME NEW h \in Mails, NEW j \in Free, h \in 1..inbox,
             pc' = [pc EXCEPT ![j] = "waiting"], target' = [target EXCEPT ![j] = h],
             UNCHANGED <<on, runs, at, upto, stalled, inbox, dbVars, outVars, bounds>>, pushes' \subseteq pushes
      PROVE  Shape'
  <2>1. j \in Jobs /\ pc[j] = "none"
    BY DEF Free
  <2>a. h \in 0..MaxMail
    BY DEF Mails
  <2>b. /\ pc' \in [Jobs -> Working \cup {"none", "waiting", "done", "failed"}]
        /\ target' \in [Jobs -> 0..MaxMail]
    BY <1>3, <2>1, <2>a DEF Shape, TypeOK
  <2>2. TypeOK'
    BY <1>3, <2>b DEF Shape, TypeOK, dbVars, outVars, bounds
  <2>3. QED
    BY <1>3, <2>1, <2>2 DEF Shape, TypeOK, Listed, dbVars
<1>4. ASSUME NEW h \in Mails, Webhook(h) \/ WebhookAgain(h) PROVE Shape'
  <2>1. h \in 1..inbox /\ pushes' \subseteq pushes /\ inbox' = inbox
    BY <1>4 DEF Webhook, WebhookAgain, gmailVars, Shape
  <2>2. PICK j \in Free : /\ pc' = [pc EXCEPT ![j] = "waiting"]
                          /\ target' = [target EXCEPT ![j] = h]
                          /\ UNCHANGED <<on, runs, at, upto, stalled, dbVars, outVars, bounds>>
    BY <1>4 DEF Webhook, WebhookAgain, Enqueue
  <2>3. QED
    BY <1>3, <2>1, <2>2
<1>5. ASSUME NEW h \in Mails, WebhookFails(h) PROVE Shape'
  BY <1>5 DEF WebhookFails, Mishap, Shape, TypeOK, jobVars, dbVars, outVars, Listed
<1>6. ASSUME NEW j \in Jobs, Start(j) PROVE Shape'
  <2>1. on' \in [Jobs -> Workers \cup {Nobody}]
    BY <1>6 DEF Start, Shape, TypeOK
  <2> QED BY <1>6, <2>1 DEF Start, Goto, Shape, TypeOK, gmailVars, dbVars, outVars, bounds, Listed, Working
<1>7. ASSUME NEW j \in Jobs, GivesUp(j) PROVE Shape'
  <2>1. pc[j] # "none" /\ Leave(j, "done")
    BY <1>7 DEF GivesUp
  <2>2. UNCHANGED <<target, runs, stalled, gmailVars, dbVars, outVars, crashes>> /\ faults' \in 0..MaxMishaps
    BY <1>7 DEF GivesUp, Mishap, Shape, TypeOK
  <2>3. QED
    BY <2>1, <2>2, LeaveShape DEF Shape, TypeOK, gmailVars, dbVars, outVars
<1>8. ASSUME NEW j \in Jobs, Select(j) PROVE Shape'
  BY <1>8 DEF Select, Goto, Shape, TypeOK, gmailVars, dbVars, outVars, bounds, Listed, Working, Unset
<1>9. ASSUME NEW j \in Jobs, Baseline(j) PROVE Shape'
  <2>1. pc[j] # "none" /\ Leave(j, "done")
    BY <1>9 DEF Baseline
  <2>2. /\ UNCHANGED <<target, runs, stalled, rows, gmailVars, outVars, bounds>>
        /\ pointer' \in 0..MaxMail /\ baseline' \in 0..MaxMail /\ baseline' <= inbox
    BY <1>9 DEF Baseline, Shape, TypeOK
  <2>3. QED
    BY <2>1, <2>2, LeaveShape DEF Shape, TypeOK, gmailVars, outVars, bounds
<1>10. ASSUME NEW j \in Jobs, List(j) PROVE Shape'
  <2>1. /\ pc[j] = "list" /\ at[j] >= 1 /\ at[j] \in 0..MaxMail + 1
        /\ upto' = [upto EXCEPT ![j] = IF at[j] - 1 + PageSize < inbox
                                       THEN at[j] - 1 + PageSize ELSE inbox]
        /\ upto' \in [Jobs -> 0..MaxMail] /\ \A i \in Jobs : upto'[i] <= inbox
    BY <1>10 DEF List, Shape, TypeOK, Listed
  <2>2. /\ pc' = [pc EXCEPT ![j] = IF upto'[j] < at[j] THEN "advance" ELSE "check"]
        /\ pc' \in [Jobs -> Working \cup {"none", "waiting", "done", "failed"}]
        /\ UNCHANGED <<target, on, runs, at, stalled, failed, dispatched, gmailVars, dbVars, bounds>>
        /\ beyond' \subseteq Mails
    BY <1>10 DEF List, Goto, Shape, TypeOK, Working
  <2>3. TypeOK'
    BY <2>1, <2>2 DEF Shape, TypeOK, gmailVars, dbVars, outVars, bounds
  <2>4. ASSUME NEW i \in Jobs
        PROVE  /\ pc'[i] # "none" => target'[i] \in 1..inbox'
               /\ pc'[i] \in Listed \cup {"list"} => at'[i] >= 1
               /\ pc'[i] \in {"check", "insert", "dispatch"} => at'[i] <= upto'[i]
               /\ pc'[i] = "advance" => upto'[i] < at'[i]
               /\ upto'[i] <= inbox'
    <3>1. CASE i = j
      BY <3>1, <2>1, <2>2 DEF Shape, TypeOK, gmailVars, Listed
    <3>2. CASE i # j
      BY <3>2, <2>1, <2>2 DEF Shape, TypeOK, gmailVars
    <3>3. QED
      BY <3>1, <3>2
  <2>5. QED
    BY <2>2, <2>3, <2>4 DEF Shape, gmailVars, dbVars
<1>11. ASSUME NEW j \in Jobs, Check(j) PROVE Shape'
  <2>1. CASE rows[at[j]] # "none"
    <3>1. pc[j] = "check" /\ NextMail(j)
      BY <1>11, <2>1 DEF Check
    <3>2. UNCHANGED <<target, on, runs, upto, stalled, gmailVars, dbVars, outVars, bounds>>
      BY <1>11 DEF Check
    <3>3. QED
      BY <3>1, <3>2, NextMailShape DEF Shape, TypeOK, gmailVars, dbVars, outVars, bounds
  <2>2. CASE rows[at[j]] = "none"
    BY <1>11, <2>2 DEF Check, Goto, Shape, TypeOK, gmailVars, dbVars, outVars, bounds, Listed, Working
  <2>3. QED
    BY <2>1, <2>2
<1>12. ASSUME NEW j \in Jobs, Insert(j) PROVE Shape'
  <2>1. /\ pc[j] = "insert" /\ rows' \in [Mails -> {"none", "ingest", "ignored"}]
        /\ UNCHANGED <<target, on, runs, upto, stalled, pointer, baseline, gmailVars, outVars, bounds>>
    BY <1>12 DEF Insert, Shape, TypeOK
  <2>2. CASE at[j] \notin Relevant
    <3>1. NextMail(j)
      BY <1>12, <2>2 DEF Insert
    <3>2. QED
      BY <2>1, <3>1, NextMailShape DEF Shape, TypeOK, gmailVars, outVars, bounds
  <2>3. CASE at[j] \in Relevant
    <3>1. pc' = [pc EXCEPT ![j] = "dispatch"] /\ at' = at
      BY <1>12, <2>3 DEF Insert, Goto
    <3>2. QED
      BY <2>1, <3>1 DEF Shape, TypeOK, gmailVars, outVars, bounds, Listed, Working
  <2>4. QED
    BY <2>2, <2>3
<1>13. ASSUME NEW j \in Jobs, MailFails(j) PROVE Shape'
  <2>1. pc[j] \in {"check", "insert", "dispatch"} /\ NextMail(j)
    BY <1>13 DEF MailFails
  <2>2. at[j] \in Mails
    BY <2>1 DEF Shape, TypeOK, Listed, Mails
  <2>3. UNCHANGED <<target, on, runs, upto, stalled, gmailVars, dbVars, beyond, dispatched, crashes>>
    BY <1>13 DEF MailFails
  <2>4. failed' \subseteq Mails
    BY <1>13, <2>2 DEF MailFails, Mishap, Shape, TypeOK
  <2>5. faults' \in 0..MaxMishaps
    BY <1>13 DEF MailFails, Mishap, Shape, TypeOK
  <2>6. QED
    BY <2>1, <2>3, <2>4, <2>5, NextMailShape DEF Shape, TypeOK, gmailVars, dbVars
<1>14. ASSUME NEW j \in Jobs, Dispatch(j) PROVE Shape'
  <2>1. pc[j] = "dispatch" /\ NextMail(j)
    BY <1>14 DEF Dispatch
  <2>2. UNCHANGED <<target, on, runs, upto, stalled, failed, beyond, gmailVars, dbVars, bounds>>
    BY <1>14 DEF Dispatch
  <2>3. dispatched' \in [Mails -> Nat]
    <3>1. at[j] \in Mails
      BY <2>1 DEF Shape, TypeOK, Listed, Mails
    <3>2. dispatched[at[j]] + 1 \in Nat /\ dispatched \in [Mails -> Nat]
      BY <3>1 DEF Shape, TypeOK
    <3>3. dispatched' = [dispatched EXCEPT ![at[j]] = dispatched[at[j]] + 1]
      BY <1>14 DEF Dispatch
    <3>4. QED
      BY <3>2, <3>3
  <2>4. QED
    BY <2>1, <2>2, <2>3, NextMailShape DEF Shape, TypeOK, gmailVars, dbVars, bounds
<1>15. ASSUME NEW j \in Jobs, Advance(j) PROVE Shape'
  <2>1. pc[j] # "none" /\ Leave(j, "done")
    BY <1>15 DEF Advance
  <2>2. /\ UNCHANGED <<target, runs, stalled, rows, baseline, gmailVars, outVars, bounds>>
        /\ pointer' \in 0..MaxMail
    BY <1>15 DEF Advance, Shape, TypeOK
  <2>3. QED
    BY <2>1, <2>2, LeaveShape DEF Shape, TypeOK, gmailVars, outVars, bounds
<1>16. ASSUME NEW j \in Jobs, JobThrows(j) PROVE Shape'
  <2>1. /\ pc[j] # "none"
        /\ \E to \in {"waiting", "done", "failed"} : Leave(j, to)
    BY <1>16 DEF JobThrows
  <2>2. /\ UNCHANGED <<target, stalled, gmailVars, dbVars, outVars, crashes>>
        /\ faults' \in 0..MaxMishaps /\ runs' \in [Jobs -> Nat]
    BY <1>16 DEF JobThrows, Mishap, Shape, TypeOK
  <2>3. QED
    BY <2>1, <2>2, LeaveShape DEF Shape, TypeOK, gmailVars, dbVars, outVars
<1>17. ASSUME NEW w \in Workers, Crash(w) PROVE Shape'
  <2>1. /\ UNCHANGED <<target, runs, gmailVars, dbVars, outVars, faults>>
        /\ crashes' \in 0..MaxMishaps
        /\ stalled' \subseteq Jobs
    BY <1>17 DEF Crash, Mishap, Shape, TypeOK, RunBy
  <2>2. /\ pc' \in [Jobs -> Working \cup {"none", "waiting", "done", "failed"}]
        /\ on' \in [Jobs -> Workers \cup {Nobody}]
        /\ at' \in [Jobs -> 0..MaxMail + 1] /\ upto' \in [Jobs -> 0..MaxMail]
    BY <1>17 DEF Crash, Shape, TypeOK
  <2>3. TypeOK'
    BY <2>1, <2>2 DEF Shape, TypeOK, gmailVars, dbVars, outVars
  <2>4. ASSUME NEW i \in Jobs, i \notin RunBy(w)
        PROVE  pc'[i] = pc[i] /\ at'[i] = at[i] /\ upto'[i] = upto[i]
    BY <1>17, <2>4 DEF Crash
  <2>5. ASSUME NEW i \in Jobs, i \in RunBy(w)
        PROVE  pc[i] # "none" /\ pc'[i] \in {"waiting", "failed"} /\ upto'[i] = 0
    <3>1. pc[i] \in Working
      BY <2>5 DEF Manned, RunBy, Workers, Nobody
    <3> QED BY <1>17, <2>5, <3>1 DEF Crash, Working
  <2>6. QED
    BY <2>1, <2>3, <2>4, <2>5 DEF Shape, TypeOK, gmailVars, dbVars, Listed
<1>18. CASE UNCHANGED vars
  BY <1>18 DEF vars, gmailVars, jobVars, dbVars, outVars, bounds, Shape, TypeOK, Listed
<1>19. QED
  BY <1>1, <1>2, <1>4, <1>5, <1>6, <1>7, <1>8, <1>9, <1>10, <1>11, <1>12, <1>13,
     <1>14, <1>15, <1>16, <1>17, <1>18 DEF Next, Work

\* A step that starts no job leaves every process with the jobs it had, or fewer.
LEMMA FewerRun ==
  ASSUME Shape, Manned, \A w \in Workers : RunBy(w)' \subseteq RunBy(w)
  PROVE  \A w \in Workers : Cardinality(RunBy(w)') <= Concurrency
<1> SUFFICES ASSUME NEW w \in Workers PROVE Cardinality(RunBy(w)') <= Concurrency
  OBVIOUS
<1>1. PICK A, B : A = RunBy(w) /\ B = RunBy(w)'
  OBVIOUS
<1>2. IsFiniteSet(A)
  <2>1. IsFiniteSet(Jobs)
    BY GmailAssumption, FS_Interval DEF Jobs
  <2> QED BY <1>1, <2>1, FS_Subset DEF RunBy
<1>3. /\ Cardinality(B) <= Cardinality(A) /\ Cardinality(A) \in Nat /\ Cardinality(B) \in Nat
      /\ Cardinality(A) <= Concurrency
  BY <1>1, <1>2, FS_Subset, FS_CardinalityType DEF Manned
<1> QED BY <1>1, <1>3, GmailAssumption

LEMMA MannedStep == Shape /\ Manned /\ [Next]_vars => Manned'
<1> SUFFICES ASSUME Shape, Manned, [Next]_vars PROVE Manned'
  OBVIOUS
<1>0. /\ pc \in [Jobs -> Working \cup {"none", "waiting", "done", "failed"}]
      /\ on \in [Jobs -> Workers \cup {Nobody}]
      /\ \A j \in Jobs : on[j] # Nobody => pc[j] \in Working
      /\ \A w \in Workers : w # Nobody
  BY DEF Shape, TypeOK, Manned, Workers, Nobody
<1>1. ASSUME UNCHANGED <<pc, on>> PROVE Manned'
  BY <1>1, <1>0 DEF Manned, RunBy
<1>2. ASSUME NEW j \in Jobs, NEW to, Leave(j, to) PROVE Manned'
  <2>1. pc' = [pc EXCEPT ![j] = to] /\ on' = [on EXCEPT ![j] = Nobody]
    BY <1>2 DEF Leave, Goto
  <2>2. \A w \in Workers : RunBy(w)' \subseteq RunBy(w)
    BY <1>0, <2>1 DEF RunBy
  <2>3. \A i \in Jobs : on'[i] # Nobody => pc'[i] \in Working
    BY <1>0, <2>1
  <2> QED BY <2>2, <2>3, FewerRun DEF Manned
<1>3. ASSUME NEW j \in Jobs, NEW to \in Working, pc' = [pc EXCEPT ![j] = to], UNCHANGED on
      PROVE  Manned'
  BY <1>0, <1>3 DEF Manned, RunBy
<1>4. ASSUME NEW h, Enqueue(h) PROVE Manned'
  <2>1. PICK j \in Free : pc' = [pc EXCEPT ![j] = "waiting"] /\ UNCHANGED on
    BY <1>4 DEF Enqueue
  <2>2. on[j] = Nobody /\ j \in Jobs
    BY <1>0 DEF Free, Working
  <2>3. \A i \in Jobs : on'[i] # Nobody => pc'[i] \in Working
    BY <1>0, <2>1, <2>2
  <2> QED BY <2>1, <2>3, FewerRun DEF Manned, RunBy
<1>5. ASSUME NEW j \in Jobs, Start(j) PROVE Manned'
  <2>1. PICK w \in Workers : Cardinality(RunBy(w)) < Concurrency /\ on' = [on EXCEPT ![j] = w]
    BY <1>5 DEF Start
  <2>2. pc[j] = "waiting" /\ pc' = [pc EXCEPT ![j] = "select"]
    BY <1>5 DEF Start, Goto
  <2>3. on[j] = Nobody
    BY <1>0, <2>2 DEF Working
  <2>4. \A i \in Jobs : on'[i] # Nobody => pc'[i] \in Working
    BY <1>0, <2>1, <2>2 DEF Working
  <2>5. ASSUME NEW u \in Workers PROVE Cardinality(RunBy(u)') <= Concurrency
    <3>1. CASE u # w
      <4>1. RunBy(u)' = RunBy(u)
        BY <1>0, <2>1, <2>3, <3>1 DEF RunBy
      <4> QED BY <4>1 DEF Manned
    <3>2. CASE u = w
      <4>1. PICK A : A = RunBy(w)
        OBVIOUS
      <4>2. RunBy(w)' = A \cup {j}
        BY <1>0, <2>1, <4>1 DEF RunBy
      <4>3. IsFiniteSet(A)
        <5>1. IsFiniteSet(Jobs)
          BY GmailAssumption, FS_Interval DEF Jobs
        <5> QED BY <4>1, <5>1, FS_Subset DEF RunBy
      <4>4. /\ Cardinality(A) \in Nat
            /\ Cardinality(A \cup {j}) = IF j \in A THEN Cardinality(A) ELSE Cardinality(A) + 1
        BY <4>3, FS_CardinalityType, FS_AddElement
      <4> QED BY <2>1, <3>2, <4>1, <4>2, <4>4, GmailAssumption
    <3> QED BY <3>1, <3>2
  <2> QED BY <2>4, <2>5 DEF Manned
<1>6. ASSUME NEW w \in Workers, Crash(w) PROVE Manned'
  <2>1. /\ on' = [j \in Jobs |-> IF j \in RunBy(w) THEN Nobody ELSE on[j]]
        /\ \A j \in Jobs : j \notin RunBy(w) => pc'[j] = pc[j]
    BY <1>6 DEF Crash
  <2>2. \A u \in Workers : RunBy(u)' \subseteq RunBy(u)
    BY <1>0, <2>1 DEF RunBy
  <2>3. \A i \in Jobs : on'[i] # Nobody => pc'[i] \in Working
    BY <1>0, <2>1
  <2> QED BY <2>2, <2>3, FewerRun DEF Manned
<1>7. CASE NewMail \/ Connect \/ UNCHANGED vars \/ \E h \in Mails : WebhookFails(h)
  BY <1>1, <1>7 DEF NewMail, Connect, WebhookFails, vars, jobVars
<1>8. ASSUME NEW h \in Mails, Webhook(h) \/ WebhookAgain(h) PROVE Manned'
  BY <1>4, <1>8 DEF Webhook, WebhookAgain
<1>9. ASSUME NEW j \in Jobs, GivesUp(j) \/ Baseline(j) \/ Advance(j) \/ JobThrows(j)
      PROVE  Manned'
  BY <1>2, <1>9 DEF GivesUp, Baseline, Advance, JobThrows
<1>10. ASSUME NEW j \in Jobs, Select(j) \/ List(j) \/ Check(j) \/ Insert(j) \/ Dispatch(j) \/ MailFails(j)
       PROVE  Manned'
  <2>1. UNCHANGED on
    BY <1>10 DEF Select, List, Check, Insert, Dispatch, MailFails
  <2>2. \E to \in Working : pc' = [pc EXCEPT ![j] = to]
    BY <1>10 DEF Select, List, Check, Insert, Dispatch, MailFails, NextMail, Goto, Working
  <2> QED BY <1>3, <2>1, <2>2
<1> QED BY <1>5, <1>6, <1>7, <1>8, <1>9, <1>10 DEF Next, Work

\* All variables have their types, whatever the inbox, the queue and the faults.
THEOREM TypeCorrect == Spec => []TypeOK
<1>1. Shape => TypeOK
  BY DEF Shape
<1>2. QED
  BY <1>1, ShapeInit, ShapeStep, MannedStep, PTL DEF Spec

--------------------------------------------------------------------------------
\* What is covered stays covered.
LEMMA CoveredStays ==
  ASSUME Shape, [Next]_vars, NEW m \in Mails, Covered(m)
  PROVE  Covered(m)'
<1>. USE GmailAssumption
<1>1. CASE Connect
  BY <1>1 DEF Connect, Covered, outVars, Shape, TypeOK
<1>2. ASSUME NEW j \in Jobs, Baseline(j) PROVE Covered(m)'
  BY <1>2 DEF Baseline, Covered, outVars, Shape, TypeOK
<1>3. ASSUME NEW j \in Jobs, Insert(j) PROVE Covered(m)'
  <2>1. /\ baseline' = baseline /\ failed' = failed /\ beyond' = beyond
        /\ rows' = [rows EXCEPT ![at[j]] =
             IF @ # "none" THEN @ ELSE IF at[j] \in Relevant THEN "ingest" ELSE "ignored"]
    BY <1>3 DEF Insert, outVars
  <2>2. rows[m] # "none" => rows'[m] # "none"
    BY <2>1 DEF Shape, TypeOK
  <2>3. QED
    BY <2>1, <2>2 DEF Covered
<1>4. ASSUME NEW j \in Jobs, MailFails(j) PROVE Covered(m)'
  BY <1>4 DEF MailFails, Covered, dbVars
<1>5. ASSUME UNCHANGED <<rows, baseline, failed>>, beyond \subseteq beyond' PROVE Covered(m)'
  BY <1>5 DEF Covered
<1>6. CASE UNCHANGED vars
  BY <1>5, <1>6 DEF vars, dbVars, outVars
<1>7. CASE NewMail
  BY <1>5, <1>7 DEF NewMail, dbVars, outVars
<1>8. ASSUME NEW h \in Mails, Webhook(h) \/ WebhookAgain(h) \/ WebhookFails(h)
      PROVE  Covered(m)'
  BY <1>5, <1>8 DEF Webhook, WebhookAgain, WebhookFails, dbVars, outVars
<1>9. ASSUME NEW j \in Jobs, Start(j) \/ Select(j) \/ List(j) \/ Check(j) \/ GivesUp(j)
      PROVE  Covered(m)'
  BY <1>5, <1>9 DEF Start, Select, List, Check, GivesUp, dbVars, outVars
<1>10. ASSUME NEW j \in Jobs, Dispatch(j) \/ Advance(j) \/ JobThrows(j)
       PROVE  Covered(m)'
  BY <1>5, <1>10 DEF Dispatch, Advance, JobThrows, dbVars, outVars
<1>11. ASSUME NEW w \in Workers, Crash(w) PROVE Covered(m)'
  BY <1>5, <1>11 DEF Crash, dbVars, outVars
<1>12. QED
  BY <1>1, <1>2, <1>3, <1>4, <1>6, <1>7, <1>8, <1>9, <1>10, <1>11 DEF Next, Work

\* What one job must have behind it.
JobBehind(j) ==
  /\ pc[j] \in Listed \cup {"list"} => \A m \in Mails : m < at[j] => Covered(m)
  /\ pc[j] = "dispatch" => Covered(at[j])
  /\ pc[j] \in Listed =>
       \A m \in Mails : upto[j] < m /\ m <= target[j] => Covered(m)

\* A job that does not move keeps what it has behind it.
LEMMA IdleBehind ==
  ASSUME Shape, [Next]_vars, NEW j \in Jobs, JobBehind(j),
         pc'[j] = pc[j], at'[j] = at[j], upto'[j] = upto[j],
         pc[j] # "none" => target'[j] = target[j]
  PROVE  JobBehind(j)'
<1>1. pc[j] = "dispatch" => at[j] \in Mails
  BY GmailAssumption DEF Shape, TypeOK, Listed, Mails
<1>2. \A m \in Mails : Covered(m) => Covered(m)'
  BY CoveredStays
<1>3. pc[j] = "dispatch" => Covered(at[j])'
  BY <1>1, <1>2 DEF JobBehind, Covered
<1>4. QED
  BY <1>2, <1>3 DEF JobBehind, Listed

\* Moving on is right when the mail it leaves is covered.
LEMMA NextMailBehind ==
  ASSUME Shape, [Next]_vars, NEW j \in Jobs, JobBehind(j), NextMail(j),
         pc[j] \in {"check", "insert", "dispatch"},
         \A m \in Mails : m = at[j] => Covered(m)',
         UNCHANGED <<target, upto>>
  PROVE  JobBehind(j)'
<1>. USE GmailAssumption
<1>1. at[j] \in 1..MaxMail /\ at'[j] = at[j] + 1 /\ target'[j] = target[j] /\ upto'[j] = upto[j]
  BY DEF NextMail, Shape, TypeOK, Listed
<1>2. pc'[j] \in {"check", "advance"}
  BY DEF NextMail, Goto, Shape, TypeOK
<1>3. \A m \in Mails : m < at[j] => Covered(m)'
  BY CoveredStays DEF JobBehind, Listed
<1>4. \A m \in Mails : m < at'[j] => Covered(m)'
  <2>1. SUFFICES ASSUME NEW m \in Mails, m < at'[j] PROVE Covered(m)'
    OBVIOUS
  <2>2. m < at[j] \/ m = at[j]
    BY <2>1, <1>1 DEF Mails
  <2>3. QED
    BY <2>2, <1>3
<1>5. \A m \in Mails : upto'[j] < m /\ m <= target'[j] => Covered(m)'
  BY <1>1, CoveredStays DEF JobBehind, Listed
<1>6. QED
  BY <1>2, <1>4, <1>5 DEF JobBehind

LEMMA BehindStep ==
  ASSUME Shape, Behind, [Next]_vars
  PROVE  Behind'
<1>. USE GmailAssumption
<1>0. /\ \A j \in Jobs : JobBehind(j)
      /\ \A m \in Mails : m <= pointer => Covered(m)
      /\ \A m \in Mails : Covered(m) => Covered(m)'
  BY CoveredStays DEF Behind, JobBehind
<1>1. SUFFICES /\ \A m \in Mails : m <= pointer' => Covered(m)'
               /\ \A j \in Jobs : JobBehind(j)'
  BY DEF Behind, JobBehind
\* The pointer moves in three actions only.
<1>2. \A m \in Mails : m <= pointer' => Covered(m)'
  <2>1. CASE Connect
    BY <2>1 DEF Connect, Covered, Mails
  <2>2. ASSUME NEW j \in Jobs, Baseline(j) PROVE \A m \in Mails : m <= pointer' => Covered(m)'
    BY <2>2 DEF Baseline, Covered, Mails, Shape, TypeOK
  <2>3. ASSUME NEW j \in Jobs, Advance(j), NEW m \in Mails, m <= pointer' PROVE Covered(m)'
    <3>1. pc[j] = "advance" /\ pointer' = target[j]
      BY <2>3 DEF Advance
    <3>2. /\ upto[j] < at[j] /\ upto[j] \in Int /\ at[j] \in Int
          /\ \A k \in Mails : k < at[j] => Covered(k)
          /\ \A k \in Mails : upto[j] < k /\ k <= target[j] => Covered(k)
      BY <3>1, <1>0 DEF JobBehind, Shape, TypeOK, Listed
    <3>3. Covered(m)
      BY <2>3, <3>1, <3>2 DEF Mails
    <3>4. QED
      BY <3>3, <1>0
  <2>4. CASE pointer' = pointer
    BY <2>4, <1>0
  <2>5. pointer' = pointer \/ Connect \/ \E j \in Jobs : Baseline(j) \/ Advance(j)
    BY DEF Next, Work, NewMail, Webhook, WebhookAgain, WebhookFails, Start, Select, List,
           Check, Insert, Dispatch, GivesUp, MailFails, JobThrows, Crash, vars, dbVars
  <2>6. QED
    BY <2>1, <2>2, <2>3, <2>4, <2>5
<1>3. ASSUME NEW i \in Jobs PROVE JobBehind(i)'
  <2>1. ASSUME UNCHANGED jobVars PROVE JobBehind(i)'
    BY <2>1, <1>0, IdleBehind DEF jobVars
  <2>2. ASSUME NEW h \in Mails, Enqueue(h) PROVE JobBehind(i)'
    <3>1. PICK j \in Free : /\ pc' = [pc EXCEPT ![j] = "waiting"]
                            /\ target' = [target EXCEPT ![j] = h]
                            /\ UNCHANGED <<at, upto>>
      BY <2>2 DEF Enqueue
    <3>2. CASE i = j
      BY <3>1, <3>2 DEF JobBehind, Listed, Shape, TypeOK, Free
    <3>3. CASE i # j
      BY <3>1, <3>3, <1>0, IdleBehind DEF Shape, TypeOK
    <3>4. QED
      BY <3>2, <3>3
  \* A job outside the steps that look at its list has nothing to keep.
  <2>4. ASSUME pc'[i] \notin Listed \cup {"list"} PROVE JobBehind(i)'
    BY <2>4 DEF JobBehind, Listed
  <2>5. ASSUME NEW j \in Jobs, NEW to \in {"waiting", "done", "failed"}, Leave(j, to),
               target' = target
        PROVE  JobBehind(i)'
    <3>1. /\ pc' = [pc EXCEPT ![j] = to]
          /\ at' = [at EXCEPT ![j] = 0] /\ upto' = [upto EXCEPT ![j] = 0]
      BY <2>5 DEF Leave, Goto
    <3>2. CASE i = j
      <4>1. pc'[i] = to
        BY <3>1, <3>2 DEF Shape, TypeOK
      <4>2. QED
        BY <4>1, <2>4 DEF Listed
    <3>3. CASE i # j
      BY <3>1, <3>3, <2>5, <1>0, IdleBehind
    <3>4. QED
      BY <3>2, <3>3
  <2>6. ASSUME NEW j \in Jobs, NextMail(j), pc[j] \in {"check", "insert", "dispatch"},
               \A m \in Mails : m = at[j] => Covered(m)', UNCHANGED <<target, upto>>
        PROVE  JobBehind(i)'
    <3>1. CASE i = j
      BY <3>1, <2>6, <1>0, NextMailBehind
    <3>2. CASE i # j
      BY <3>2, <2>6, <1>0, IdleBehind DEF NextMail, Goto
    <3>3. QED
      BY <3>1, <3>2
  <2>7. CASE NewMail \/ Connect \/ UNCHANGED vars
    BY <2>1, <2>7 DEF NewMail, Connect, vars
  <2>8. ASSUME NEW h \in Mails, Webhook(h) \/ WebhookAgain(h) \/ WebhookFails(h)
        PROVE  JobBehind(i)'
    BY <2>1, <2>2, <2>8 DEF Webhook, WebhookAgain, WebhookFails
  <2>9. ASSUME NEW j \in Jobs, GivesUp(j) \/ Baseline(j) \/ Advance(j) \/ JobThrows(j)
        PROVE  JobBehind(i)'
    BY <2>5, <2>9 DEF GivesUp, Baseline, Advance, JobThrows
  <2>10. ASSUME NEW j \in Jobs, Start(j) PROVE JobBehind(i)'
    <3>1. CASE i = j
      BY <2>10, <3>1, <2>4 DEF Start, Goto, Shape, TypeOK, Listed
    <3>2. CASE i # j
      BY <2>10, <3>2, <1>0, IdleBehind DEF Start, Goto
    <3>3. QED
      BY <3>1, <3>2
  <2>11. ASSUME NEW j \in Jobs, Select(j) PROVE JobBehind(i)'
    <3>1. CASE i # j
      <4>1. pc'[i] = pc[i] /\ at'[i] = at[i]
        BY <2>11, <3>1 DEF Select, Goto, NextMail, Shape, TypeOK
      <4>2. UNCHANGED <<target, upto>>
        BY <2>11, <3>1 DEF Select
      <4>3. QED
        BY <4>1, <4>2, <1>0, IdleBehind
    <3>2. CASE i = j /\ pointer = Unset
      BY <2>11, <3>2, <2>4 DEF Select, Goto, Shape, TypeOK, Listed
    <3>3. CASE i = j /\ pointer # Unset
      <4>1. pc'[i] = "list" /\ at'[i] = pointer + 1 /\ pointer \in 0..MaxMail
        BY <2>11, <3>3 DEF Select, Goto, Shape, TypeOK
      <4>2. \A m \in Mails : m < at'[i] => Covered(m)'
        BY <4>1, <1>0 DEF Mails
      <4>3. QED
        BY <4>1, <4>2 DEF JobBehind, Listed
    <3>4. QED
      BY <3>1, <3>2, <3>3
  <2>12. ASSUME NEW j \in Jobs, List(j) PROVE JobBehind(i)'
    <3>1. CASE i # j
      BY <2>12, <3>1, <1>0, IdleBehind DEF List, Goto
    <3>2. CASE i = j
      <4>1. /\ pc[i] = "list" /\ at'[i] = at[i] /\ target'[i] = target[i]
            /\ at[i] \in 1..MaxMail + 1 /\ target[i] <= inbox /\ inbox <= MaxMail
        BY <2>12, <3>2 DEF List, Shape, TypeOK, Listed
      <4>2. \A m \in Mails : upto'[i] < m /\ m <= target'[i] => m \in beyond'
        BY <2>12, <3>2, <4>1 DEF List
      <4>4. \A m \in Mails : upto'[i] < m /\ m <= target'[i] => Covered(m)'
        BY <4>2 DEF Covered
      <4>5. pc'[i] \in {"check", "advance"}
        BY <2>12, <3>2 DEF List, Goto, Shape, TypeOK
      <4>6. \A m \in Mails : m < at'[i] => Covered(m)'
        BY <4>1, <1>0 DEF JobBehind
      <4>7. QED
        BY <4>4, <4>5, <4>6 DEF JobBehind
    <3>3. QED
      BY <3>1, <3>2
  <2>13. ASSUME NEW j \in Jobs, Check(j) PROVE JobBehind(i)'
    <3>1. CASE rows[at[j]] # "none"
      <4>1. /\ NextMail(j) /\ pc[j] = "check" /\ UNCHANGED <<target, upto>>
            /\ rows' = rows
        BY <2>13, <3>1 DEF Check, dbVars
      <4>2. QED
        BY <4>1, <3>1, <2>6 DEF Covered
    <3>2. CASE rows[at[j]] = "none" /\ i # j
      <4>1. pc'[i] = pc[i] /\ at'[i] = at[i]
        BY <2>13, <3>2 DEF Check, Goto, NextMail, Shape, TypeOK
      <4>2. UNCHANGED <<target, upto>>
        BY <2>13, <3>2 DEF Check
      <4>3. QED
        BY <4>1, <4>2, <1>0, IdleBehind
    <3>3. CASE rows[at[j]] = "none" /\ i = j
      <4>1. /\ pc[i] = "check" /\ pc'[i] = "insert"
            /\ UNCHANGED <<at, target, upto>>
        BY <2>13, <3>3 DEF Check, Goto, Shape, TypeOK
      <4>2. QED
        BY <4>1, <1>0 DEF JobBehind, Listed
    <3>4. QED
      BY <3>1, <3>2, <3>3
  <2>14. ASSUME NEW j \in Jobs, Insert(j) PROVE JobBehind(i)'
    <3>1. pc[j] = "insert" /\ at[j] \in Mails
      BY <2>14 DEF Insert, Shape, TypeOK, Listed, Mails
    <3>2. rows'[at[j]] # "none" /\ UNCHANGED <<target, upto>>
      BY <2>14, <3>1 DEF Insert, Shape, TypeOK
    <3>3. \A m \in Mails : m = at[j] => Covered(m)'
      BY <3>2 DEF Covered
    <3>4. CASE at[j] \notin Relevant
      BY <2>6, <2>14, <3>1, <3>2, <3>3, <3>4 DEF Insert
    <3>5. CASE at[j] \in Relevant /\ i # j
      <4>1. pc'[i] = pc[i] /\ at'[i] = at[i]
        BY <2>14, <3>5 DEF Insert, Goto, NextMail, Shape, TypeOK
      <4>2. UNCHANGED <<target, upto>>
        BY <2>14, <3>5 DEF Insert
      <4>3. QED
        BY <4>1, <4>2, <1>0, IdleBehind
    <3>6. CASE at[j] \in Relevant /\ i = j
      <4>1. pc'[i] = "dispatch" /\ at'[i] = at[i]
        BY <2>14, <3>6 DEF Insert, Goto, Shape, TypeOK
      <4>2. Covered(at[i])'
        BY <3>1, <3>3, <3>6, <4>1 DEF Covered
      <4>3. QED
        BY <3>1, <3>2, <3>6, <4>1, <4>2, <1>0 DEF JobBehind, Listed
    <3>7. QED
      BY <3>4, <3>5, <3>6
  <2>15. ASSUME NEW j \in Jobs, MailFails(j) PROVE JobBehind(i)'
    <3>1. /\ NextMail(j) /\ pc[j] \in {"check", "insert", "dispatch"} /\ UNCHANGED <<target, upto>>
          /\ at[j] \in failed'
      BY <2>15 DEF MailFails
    <3>2. QED
      BY <3>1, <2>6 DEF Covered
  <2>16. ASSUME NEW j \in Jobs, Dispatch(j) PROVE JobBehind(i)'
    <3>1. /\ NextMail(j) /\ pc[j] = "dispatch" /\ UNCHANGED <<target, upto>>
      BY <2>16 DEF Dispatch
    <3>2. \A m \in Mails : m = at[j] => Covered(m)'
      BY <3>1, <1>0 DEF JobBehind
    <3>3. QED
      BY <3>1, <3>2, <2>6
  <2>17. ASSUME NEW w \in Workers, Crash(w) PROVE JobBehind(i)'
    <3>1. target' = target
      BY <2>17 DEF Crash
    <3>2. CASE i \in RunBy(w)
      <4>1. pc'[i] \in {"waiting", "failed"}
        BY <2>17, <3>2 DEF Crash
      <4> QED BY <4>1, <2>4 DEF Listed
    <3>3. CASE i \notin RunBy(w)
      <4>1. pc'[i] = pc[i] /\ at'[i] = at[i] /\ upto'[i] = upto[i]
        BY <2>17, <3>3 DEF Crash
      <4> QED BY <3>1, <4>1, <1>0, IdleBehind
    <3> QED BY <3>2, <3>3
  <2>18. QED
    BY <2>7, <2>8, <2>9, <2>10, <2>11, <2>12, <2>13, <2>14, <2>15, <2>16, <2>17 DEF Next, Work
<1>4. QED
  BY <1>2, <1>3

\* No mail is passed by the pointer unstored, unless its processing threw, it was there
\* before a connect, or a list ended before it: for pages of any size.
THEOREM NothingPassed == Spec => []PointerCovers
<1>1. Init => Behind
  BY GmailAssumption DEF Init, Behind, Covered, Mails, Unset, Listed
<1>2. Shape /\ Behind => PointerCovers
  <2>1. SUFFICES ASSUME Shape, Behind, NEW m \in Mails, baseline < m, m <= pointer
                 PROVE  rows[m] # "none" \/ m \in failed \/ m \in beyond
    BY DEF PointerCovers
  <2>2. QED
    BY <2>1 DEF Behind, Covered, Shape, TypeOK, Mails
<1>3. Shape /\ Behind /\ [Next]_vars => Behind'
  BY BehindStep
<1>4. QED
  BY <1>1, <1>2, <1>3, ShapeInit, ShapeStep, MannedStep, PTL DEF Spec

(***************************************************************************)
(* Hand-overs.  A mail stored for ingestion that was never handed over is  *)
(* adrift unless some job is about to hand it over; each failing call sets *)
(* at most one adrift, each dying process at most one for each of its jobs.*)
(***************************************************************************)
Undelivered == {m \in Mails : rows[m] = "ingest" /\ dispatched[m] = 0}
InHand == {at[j] : j \in {i \in Jobs : pc[i] = "dispatch"}}
Adrift == Undelivered \ InHand
AdriftByMishap == Cardinality(Adrift) <= faults + Concurrency * crashes

LEMMA AdriftIsFinite == IsFiniteSet(Adrift) /\ Cardinality(Adrift) \in Nat
<1>1. IsFiniteSet(Mails)
  BY GmailAssumption, FS_Interval DEF Mails
<1>2. Adrift \in SUBSET Mails
  BY DEF Adrift, Undelivered
<1> QED BY <1>1, <1>2, FS_Subset, FS_CardinalityType

LEMMA NoneSetAdrift ==
  ASSUME TypeOK, AdriftByMishap, Adrift' \subseteq Adrift,
         faults' \in {faults, faults + 1}, crashes' = crashes
  PROVE  AdriftByMishap'
<1>1. Adrift' \in SUBSET Adrift
  OBVIOUS
<1>2. Cardinality(Adrift') <= Cardinality(Adrift) /\ Cardinality(Adrift') \in Nat
  BY <1>1, AdriftIsFinite, FS_Subset, FS_CardinalityType
<1>3. PICK lost \in Nat : lost = Concurrency * crashes
  BY GmailAssumption DEF TypeOK
<1>4. Concurrency * crashes' = lost
  BY <1>3
<1> QED BY <1>2, <1>3, <1>4, AdriftIsFinite DEF AdriftByMishap, TypeOK

\* A mishap that sets adrift what some n jobs were about to hand over.
LEMMA SomeSetAdrift ==
  ASSUME TypeOK, AdriftByMishap, NEW S, IsFiniteSet(S), NEW n \in Nat, Cardinality(S) <= n,
         Adrift' \subseteq Adrift \cup S,
         \/ n = 1 /\ faults' = faults + 1 /\ UNCHANGED crashes
         \/ n = Concurrency /\ crashes' = crashes + 1 /\ UNCHANGED faults
  PROVE  AdriftByMishap'
<1>1. PICK A, B : A = Adrift /\ B = Adrift'
  OBVIOUS
<1>2. IsFiniteSet(A) /\ Cardinality(A) \in Nat /\ Cardinality(S) \in Nat
  BY <1>1, AdriftIsFinite, FS_CardinalityType
<1>3. /\ IsFiniteSet(A \cup S)
      /\ Cardinality(A \cup S) = Cardinality(A) + Cardinality(S) - Cardinality(A \cap S)
  BY <1>2, FS_Union
<1>4. Cardinality(A \cap S) \in Nat
  BY <1>2, FS_Intersection, FS_CardinalityType
<1>5. Cardinality(B) \in Nat /\ Cardinality(B) <= Cardinality(A \cup S)
  BY <1>1, <1>3, FS_Subset, FS_CardinalityType
<1>6. Cardinality(B) <= Cardinality(A) + n
  BY <1>2, <1>3, <1>4, <1>5
<1>7. PICK lost \in Nat : lost = Concurrency * crashes
  BY GmailAssumption DEF TypeOK
<1>8. Cardinality(A) <= faults + lost /\ faults \in Nat /\ crashes \in Nat
  BY <1>1, <1>7, GmailAssumption DEF AdriftByMishap, TypeOK
<1>9. Cardinality(B) <= faults' + Concurrency * crashes'
  <2>1. CASE n = 1 /\ faults' = faults + 1 /\ UNCHANGED crashes
    <3>1. Concurrency * crashes' = lost
      BY <2>1, <1>7
    <3> QED BY <2>1, <3>1, <1>2, <1>5, <1>6, <1>8
  <2>2. CASE n = Concurrency /\ crashes' = crashes + 1 /\ UNCHANGED faults
    <3>1. Concurrency * (crashes + 1) = lost + Concurrency
      BY <1>7, <1>8, GmailAssumption
    <3>2. Concurrency * crashes' = lost + n
      BY <2>2, <3>1
    <3>3. faults' = faults
      BY <2>2
    <3> QED BY <3>2, <3>3, <1>2, <1>5, <1>6, <1>8
  <2> QED BY <2>1, <2>2
<1> QED BY <1>1, <1>9 DEF AdriftByMishap

LEMMA OneSetAdrift ==
  ASSUME TypeOK, AdriftByMishap, NEW m, Adrift' \subseteq Adrift \cup {m},
         faults' = faults + 1, UNCHANGED crashes
  PROVE  AdriftByMishap'
<1>1. PICK S : S = {m}
  OBVIOUS
<1>2. IsFiniteSet(S) /\ Cardinality(S) = 1
  BY <1>1, FS_Singleton
<1> QED BY <1>1, <1>2, SomeSetAdrift

\* The job j stops handing over the mail it is at, or was not about to.
LEMMA LetsGo ==
  ASSUME TypeOK, NEW j \in Jobs, NEW to, to # "dispatch", pc' = [pc EXCEPT ![j] = to],
         NEW n, at' = [at EXCEPT ![j] = n], UNCHANGED <<rows, dispatched>>
  PROVE  /\ Adrift' \subseteq Adrift \cup {at[j]}
         /\ pc[j] # "dispatch" => Adrift' \subseteq Adrift
<1>1. \A i \in Jobs : i # j => pc'[i] = pc[i] /\ at'[i] = at[i]
  BY DEF TypeOK
<1>2. InHand \subseteq InHand' \cup {at[j]} /\ (pc[j] # "dispatch" => InHand \subseteq InHand')
  BY <1>1 DEF InHand
<1> QED BY <1>2 DEF Adrift, Undelivered

LEMMA AdriftStep == TypeOK /\ Manned /\ AdriftByMishap /\ [Next]_vars => AdriftByMishap'
<1> SUFFICES ASSUME TypeOK, Manned, AdriftByMishap, [Next]_vars PROVE AdriftByMishap'
  OBVIOUS
<1> USE DEF jobVars, gmailVars, dbVars, outVars, bounds
<1>0. pc \in [Jobs -> Working \cup {"none", "waiting", "done", "failed"}]
      /\ at \in [Jobs -> 0..MaxMail + 1]
  BY DEF TypeOK
\* A step of a job that hands nothing over and stores nothing.
<1>1. ASSUME NEW j \in Jobs, pc[j] # "dispatch",
             NEW to, to # "dispatch", pc' = [pc EXCEPT ![j] = to],
             UNCHANGED at \/ (\E n : at' = [at EXCEPT ![j] = n]),
             UNCHANGED <<rows, dispatched>>,
             faults' \in {faults, faults + 1}, crashes' = crashes
      PROVE  AdriftByMishap'
  <2>1. \E n : at' = [at EXCEPT ![j] = n]
    <3>1. CASE UNCHANGED at
      <4>1. at' = [at EXCEPT ![j] = at[j]]
        BY <1>0, <3>1
      <4> QED BY <4>1
    <3> QED BY <1>1, <3>1
  <2>2. PICK n : at' = [at EXCEPT ![j] = n]
    BY <2>1
  <2>3. Adrift' \subseteq Adrift
    BY <1>1, <2>2, LetsGo
  <2> QED BY <1>1, <2>3, NoneSetAdrift
<1>2. ASSUME NEW j \in Jobs, NEW to, to # "dispatch", pc' = [pc EXCEPT ![j] = to],
             NEW n, at' = [at EXCEPT ![j] = n], UNCHANGED <<rows, dispatched>>,
             faults' = faults + 1, UNCHANGED crashes
      PROVE  AdriftByMishap'
  <2>1. Adrift' \subseteq Adrift \cup {at[j]}
    BY <1>2, LetsGo
  <2> QED BY <1>2, <2>1, OneSetAdrift
<1>3. CASE \/ NewMail \/ Connect \/ UNCHANGED vars
           \/ \E h \in Mails : WebhookFails(h)
  <2>1. UNCHANGED <<rows, dispatched, pc, at, crashes>> /\ faults' \in {faults, faults + 1}
    BY <1>3 DEF NewMail, Connect, WebhookFails, vars
  <2>2. Adrift' = Adrift
    BY <2>1 DEF Adrift, Undelivered, InHand
  <2> QED BY <2>1, <2>2, NoneSetAdrift
<1>4. ASSUME NEW h \in Mails, Webhook(h) \/ WebhookAgain(h) PROVE AdriftByMishap'
  <2>1. PICK j \in Free : /\ pc' = [pc EXCEPT ![j] = "waiting"]
                          /\ UNCHANGED <<at, rows, dispatched, faults, crashes>>
    BY <1>4 DEF Webhook, WebhookAgain, Enqueue
  <2>2. j \in Jobs /\ pc[j] = "none"
    BY DEF Free
  <2> QED BY <1>1, <2>1, <2>2
<1>5. ASSUME NEW j \in Jobs, Start(j) \/ Select(j) \/ Baseline(j) \/ List(j) \/ Check(j)
      PROVE  AdriftByMishap'
  <2>1. pc[j] # "dispatch" /\ UNCHANGED <<rows, dispatched, faults, crashes>>
    BY <1>5 DEF Start, Select, Baseline, List, Check
  <2>2. UNCHANGED at \/ (\E n : at' = [at EXCEPT ![j] = n])
    BY <1>5 DEF Start, Select, Baseline, List, Check, Leave, NextMail
  <2>3. \E to \in {"select", "baseline", "list", "done", "advance", "check", "insert"} :
          pc' = [pc EXCEPT ![j] = to]
    BY <1>5 DEF Start, Select, Baseline, List, Check, Leave, NextMail, Goto
  <2> QED BY <1>1, <2>1, <2>2, <2>3
<1>6. ASSUME NEW j \in Jobs, Insert(j) PROVE AdriftByMishap'
  <2>1. UNCHANGED <<dispatched, faults, crashes>> /\ pc[j] = "insert"
    BY <1>6 DEF Insert
  <2>2. rows' = [rows EXCEPT ![at[j]] =
                   IF rows[at[j]] # "none" THEN rows[at[j]]
                   ELSE IF at[j] \in Relevant THEN "ingest" ELSE "ignored"]
    BY <1>6 DEF Insert
  <2>3. \A m \in Mails : rows'[m] = "ingest" =>
          rows[m] = "ingest" \/ (m = at[j] /\ at[j] \in Relevant)
    BY <2>2 DEF TypeOK
  <2>4. CASE at[j] \in Relevant
    <3>1. pc' = [pc EXCEPT ![j] = "dispatch"] /\ UNCHANGED at
      BY <1>6, <2>4 DEF Insert, Goto
    <3>2. at[j] \in InHand' /\ InHand \subseteq InHand'
      BY <1>0, <2>1, <3>1 DEF InHand
    <3>3. Adrift' \subseteq Adrift
      BY <2>1, <2>3, <3>2 DEF Adrift, Undelivered
    <3> QED BY <2>1, <3>3, NoneSetAdrift
  <2>5. CASE at[j] \notin Relevant
    <3>1. NextMail(j)
      BY <1>6, <2>5 DEF Insert
    <3>2. \A i \in Jobs : pc[i] = "dispatch" => pc'[i] = "dispatch" /\ at'[i] = at[i]
      BY <1>0, <2>1, <3>1 DEF NextMail, Goto
    <3>3. InHand \subseteq InHand'
      BY <3>2 DEF InHand
    <3>4. Adrift' \subseteq Adrift
      BY <2>1, <2>3, <2>5, <3>3 DEF Adrift, Undelivered
    <3> QED BY <2>1, <3>4, NoneSetAdrift
  <2> QED BY <2>4, <2>5
<1>7. ASSUME NEW j \in Jobs, Dispatch(j) PROVE AdriftByMishap'
  <2>1. /\ pc[j] = "dispatch" /\ UNCHANGED <<rows, faults, crashes>> /\ NextMail(j)
        /\ dispatched' = [dispatched EXCEPT ![at[j]] = @ + 1]
    BY <1>7 DEF Dispatch
  <2>2. \A i \in Jobs : i # j => pc'[i] = pc[i] /\ at'[i] = at[i]
    BY <1>0, <2>1 DEF NextMail, Goto
  <2>3. InHand \subseteq InHand' \cup {at[j]}
    BY <2>2 DEF InHand
  <2>4. \A m \in Mails : dispatched'[m] = 0 => dispatched[m] = 0 /\ m # at[j]
    BY <2>1 DEF TypeOK
  <2>5. Adrift' \subseteq Adrift
    BY <2>1, <2>3, <2>4 DEF Adrift, Undelivered
  <2> QED BY <2>1, <2>5, NoneSetAdrift
<1>8. ASSUME NEW j \in Jobs, Advance(j) \/ GivesUp(j) \/ JobThrows(j) PROVE AdriftByMishap'
  <2>1. /\ pc[j] # "dispatch" /\ UNCHANGED <<rows, dispatched, crashes>>
        /\ faults' \in {faults, faults + 1}
    BY <1>8 DEF Advance, GivesUp, JobThrows
  <2>2. at' = [at EXCEPT ![j] = 0]
    BY <1>8 DEF Advance, GivesUp, JobThrows, Leave
  <2>3. \E to \in {"done", "waiting", "failed"} : pc' = [pc EXCEPT ![j] = to]
    BY <1>8 DEF Advance, GivesUp, JobThrows, Leave, Goto
  <2> QED BY <1>1, <2>1, <2>2, <2>3
<1>9. ASSUME NEW j \in Jobs, MailFails(j) PROVE AdriftByMishap'
  <2>1. faults' = faults + 1 /\ UNCHANGED <<rows, dispatched, crashes>>
        /\ at' = [at EXCEPT ![j] = at[j] + 1]
    BY <1>9 DEF MailFails, NextMail
  <2>2. \E to \in {"advance", "check"} : pc' = [pc EXCEPT ![j] = to]
    BY <1>9 DEF MailFails, NextMail, Goto
  <2> QED BY <1>2, <2>1, <2>2
\* What a dying process was about to hand over, one mail for each of its jobs.
<1>10. ASSUME NEW w \in Workers, Crash(w) PROVE AdriftByMishap'
  <2>1. /\ crashes' = crashes + 1 /\ UNCHANGED <<faults, rows, dispatched>>
        /\ \A i \in Jobs : i \notin RunBy(w) => pc'[i] = pc[i] /\ at'[i] = at[i]
    BY <1>10 DEF Crash
  <2>2. PICK R, S : R = RunBy(w) /\ S = {at[i] : i \in R}
    OBVIOUS
  <2>3. IsFiniteSet(R) /\ Cardinality(R) <= Concurrency
    <3>1. IsFiniteSet(Jobs)
      BY GmailAssumption, FS_Interval DEF Jobs
    <3> QED BY <2>2, <3>1, FS_Subset DEF RunBy, Manned
  <2>4. IsFiniteSet(S) /\ Cardinality(S) <= Cardinality(R)
    <3>1. PICK f : f = [i \in R |-> at[i]]
      OBVIOUS
    <3>2. f \in Surjection(R, S)
      BY <2>2, <3>1 DEF Surjection
    <3> QED BY <2>3, <3>2, FS_Surjection
  <2>5. Cardinality(S) <= Concurrency
    BY <2>3, <2>4, FS_CardinalityType, GmailAssumption
  <2>6. InHand \subseteq InHand' \cup S
    BY <2>1, <2>2 DEF InHand
  <2>7. Adrift' \subseteq Adrift \cup S
    BY <2>1, <2>6 DEF Adrift, Undelivered
  <2> QED BY <2>1, <2>4, <2>5, <2>7, SomeSetAdrift, GmailAssumption
<1> QED BY <1>3, <1>4, <1>5, <1>6, <1>7, <1>8, <1>9, <1>10 DEF Next, Work

\* A failing call keeps at most one mail that is stored for ingestion from being handed
\* over, a dying process at most one for each job it may run, and nothing else does.
THEOREM MishapsLoseOneEach == Spec => []LostByMishapOnly
<1>1. Init => AdriftByMishap
  <2> SUFFICES ASSUME Init PROVE AdriftByMishap
    OBVIOUS
  <2>1. Adrift = {}
    BY DEF Init, Adrift, Undelivered
  <2> QED BY <2>1, FS_EmptySet, GmailAssumption DEF Init, AdriftByMishap
<1>2. TypeOK /\ AdriftByMishap => LostByMishapOnly
  <2> SUFFICES ASSUME AdriftByMishap, \A j \in Jobs : pc[j] \in {"none", "done", "failed"}
               PROVE  Cardinality(Undelivered) <= faults + Concurrency * crashes
    BY DEF LostByMishapOnly, Undelivered
  <2>1. Adrift = Undelivered
    BY DEF Adrift, InHand
  <2> QED BY <2>1 DEF AdriftByMishap
<1>3. Shape => TypeOK
  BY DEF Shape
<1> QED BY <1>1, <1>2, <1>3, AdriftStep, ShapeInit, ShapeStep, MannedStep, PTL DEF Spec

(***************************************************************************)
(* Heartbeats. What has fired for a tick, what may still fire for it and   *)
(* the jobs that stalled never add up to more than the patterns and the    *)
(* deaths so far, or, on timers, than the processes.                       *)
(***************************************************************************)
HeartbeatSpec == HeartbeatInit /\ [][HeartbeatNext]_heartbeatVars

\* The patterns under which a schedule is registered, and those whose repeatable has
\* gone past a tick: only these can have handed it over for that tick.
PatternsOf(s) == {k.pattern : k \in {r \in DOMAIN nextDue : r.schedule = s}}
PassedPatterns(s, t) ==
  {k.pattern : k \in {r \in DOMAIN nextDue : r.schedule = s /\ nextDue[r] > t}}
\* A job whose process died is handed over once more, later.
Retry(s, t) == [schedule |-> s, due |-> t, again |-> TRUE]
Retries(s, t) == IF Retry(s, t) \in stalledJobs THEN 1 ELSE 0
YetToFire(s) == {b \in Builds : s \in timers[b]}

JobsOf(marks) == [schedule : Schedules, due : 1..MaxTicks, again : marks]
HeartbeatType ==
  /\ tick \in Nat /\ tick <= MaxTicks /\ stops \in Nat
  /\ fired \in [Schedules -> [1..MaxTicks -> Nat]]
  /\ timers \in [Builds -> SUBSET Schedules]
  /\ runningJob \in [Builds -> SUBSET JobsOf(BOOLEAN)]
  /\ stalledJobs \subseteq JobsOf({TRUE})
RegisteredKeys ==
  \A k \in DOMAIN nextDue :
    /\ k = [schedule |-> k.schedule, pattern |-> k.pattern, id |-> k.schedule]
    /\ k.schedule \in Schedules /\ nextDue[k] \in 1..(MaxTicks + 1)
FinitePatterns == \A s \in Schedules : IsFiniteSet(PatternsOf(s))
IdleTimers == scheduler # "cron" \/ tick = 0 => \A b \in Builds : timers[b] = {}
HandedOver ==
  scheduler # "cron" =>
    \A s \in Schedules, t \in 1..MaxTicks :
      fired[s][t] + Retries(s, t) <= Cardinality(PassedPatterns(s, t)) + stops
TimersFire ==
  scheduler = "cron" =>
    \A s \in Schedules, t \in 1..MaxTicks :
      /\ t > tick => fired[s][t] = 0
      /\ t = tick => fired[s][t] + Cardinality(YetToFire(s)) <= Cardinality(Builds)
      /\ t < tick => fired[s][t] <= Cardinality(Builds)
HeartbeatInv ==
  /\ HeartbeatType /\ RegisteredKeys /\ FinitePatterns /\ IdleTimers
  /\ HandedOver /\ TimersFire

\* Processes are finitely many, and those with a timer still to fire are some of them.
LEMMA BuildsCounted ==
  ASSUME HeartbeatType, NEW s \in Schedules
  PROVE  /\ IsFiniteSet(Builds) /\ Cardinality(Builds) \in Nat
         /\ IsFiniteSet(YetToFire(s)) /\ Cardinality(YetToFire(s)) \in Nat
         /\ Cardinality(YetToFire(s)) <= Cardinality(Builds)
<1>1. IsFiniteSet(Builds) /\ YetToFire(s) \in SUBSET Builds
  BY HeartbeatAssumption DEF YetToFire
<1>2. QED
  BY <1>1, FS_Subset, FS_CardinalityType

\* The patterns whose repeatable has passed a tick are some of those that are registered.
LEMMA PatternsCounted ==
  ASSUME FinitePatterns, NEW s \in Schedules, NEW t \in 1..MaxTicks
  PROVE  /\ IsFiniteSet(PassedPatterns(s, t)) /\ Cardinality(PassedPatterns(s, t)) \in Nat
         /\ Cardinality(PassedPatterns(s, t)) <= Cardinality(PatternsOf(s))
         /\ Cardinality(PatternsOf(s)) \in Nat
<1>1. IsFiniteSet(PatternsOf(s)) /\ PassedPatterns(s, t) \in SUBSET PatternsOf(s)
  BY DEF FinitePatterns, PatternsOf, PassedPatterns
<1>2. QED
  BY <1>1, FS_Subset, FS_CardinalityType

\* One more, for one schedule and tick.
LEMMA CountedOnce ==
  ASSUME NEW f \in [Schedules -> [1..MaxTicks -> Nat]], NEW s \in Schedules, NEW d \in 1..MaxTicks
  PROVE  /\ [f EXCEPT ![s][d] = @ + 1] \in [Schedules -> [1..MaxTicks -> Nat]]
         /\ \A u \in Schedules, t \in 1..MaxTicks :
              [f EXCEPT ![s][d] = @ + 1][u][t] = IF u = s /\ t = d THEN f[u][t] + 1 ELSE f[u][t]
<1>1. f[s] \in [1..MaxTicks -> Nat] /\ f[s][d] \in Nat
  OBVIOUS
<1>2. [f[s] EXCEPT ![d] = @ + 1] \in [1..MaxTicks -> Nat]
  BY <1>1
<1>3. [f EXCEPT ![s][d] = @ + 1] = [f EXCEPT ![s] = [f[s] EXCEPT ![d] = @ + 1]]
  BY <1>1
<1>4. QED
  BY <1>1, <1>2, <1>3

\* Timers that are only taken away leave no tick with more than one firing of each build.
LEMMA TimersShrink ==
  ASSUME HeartbeatInv, UNCHANGED <<scheduler, tick, fired>>,
         \A b \in Builds : timers'[b] \subseteq timers[b]
  PROVE  TimersFire'
<1>1. ASSUME NEW s \in Schedules
      PROVE  /\ Cardinality(YetToFire(s)') <= Cardinality(YetToFire(s))
             /\ Cardinality(YetToFire(s)') \in Nat
  <2>1. YetToFire(s)' \in SUBSET YetToFire(s)
    BY DEF YetToFire
  <2>2. IsFiniteSet(YetToFire(s))
    BY BuildsCounted DEF HeartbeatInv
  <2>3. QED
    BY <2>1, <2>2, FS_Subset, FS_CardinalityType
<1> SUFFICES ASSUME scheduler = "cron", NEW s \in Schedules, NEW t \in 1..MaxTicks
      PROVE  /\ t > tick => fired[s][t] = 0
             /\ t = tick => fired[s][t] + Cardinality(YetToFire(s)') <= Cardinality(Builds)
             /\ t < tick => fired[s][t] <= Cardinality(Builds)
  BY DEF TimersFire
<1>2. fired[s][t] \in Nat
  BY DEF HeartbeatInv, HeartbeatType
<1>3. Cardinality(Builds) \in Nat /\ Cardinality(YetToFire(s)) \in Nat
  BY BuildsCounted DEF HeartbeatInv
<1>4. QED
  BY <1>1, <1>2, <1>3 DEF HeartbeatInv, TimersFire

\* The invariant holds of a step that leaves the queue and the counts alone.
LEMMA QuietStep ==
  ASSUME HeartbeatInv, UNCHANGED <<scheduler, tick, nextDue, stalledJobs, fired, stops>>,
         timers' \in [Builds -> SUBSET Schedules], \A b \in Builds : timers'[b] \subseteq timers[b],
         runningJob' \in [Builds -> SUBSET JobsOf(BOOLEAN)]
  PROVE  HeartbeatInv'
<1>1. HeartbeatType' /\ RegisteredKeys' /\ IdleTimers'
  BY DEF HeartbeatInv, HeartbeatType, RegisteredKeys, IdleTimers, JobsOf
<1>2. \A s \in Schedules : PatternsOf(s)' = PatternsOf(s)
  BY DEF PatternsOf
<1>3. FinitePatterns'
  BY <1>2 DEF HeartbeatInv, FinitePatterns
<1>4. \A s \in Schedules, t \in 1..MaxTicks :
        PassedPatterns(s, t)' = PassedPatterns(s, t) /\ Retries(s, t)' = Retries(s, t)
  BY DEF PassedPatterns, Retries, Retry
<1>5. HandedOver'
  BY <1>4 DEF HeartbeatInv, HandedOver
<1>6. QED
  BY <1>1, <1>3, <1>5, TimersShrink DEF HeartbeatInv

\* A repeatable is added, or is there already.
LEMMA AddStep ==
  ASSUME HeartbeatInv, NEW b \in Builds, NEW s \in Schedules, QueueAdd(b, s)
  PROVE  HeartbeatInv'
<1> DEFINE key == JobKey(b, s)
<1>1. /\ DOMAIN nextDue' = DOMAIN nextDue \cup {key}
      /\ \A k \in DOMAIN nextDue : nextDue'[k] = nextDue[k]
      /\ key \notin DOMAIN nextDue => nextDue'[key] = tick + 1
  BY DEF QueueAdd
<1>2. /\ key = [schedule |-> s, pattern |-> key.pattern, id |-> s]
      /\ key.schedule = s
  BY DEF JobKey, JobId, StableId
<1> HIDE DEF key
<1>3. UNCHANGED <<scheduler, tick, timers, runningJob, stalledJobs, fired, stops>>
  BY DEF QueueAdd
<1>4. HeartbeatType' /\ IdleTimers'
  BY <1>3 DEF HeartbeatInv, HeartbeatType, IdleTimers, JobsOf
<1>5. tick + 1 \in 1..(MaxTicks + 1)
  BY HeartbeatAssumption DEF HeartbeatInv, HeartbeatType
<1>6. RegisteredKeys'
  BY <1>1, <1>2, <1>5 DEF HeartbeatInv, RegisteredKeys
<1>7. FinitePatterns'
  <2> SUFFICES ASSUME NEW u \in Schedules PROVE IsFiniteSet(PatternsOf(u)')
    BY DEF FinitePatterns
  <2>1. PatternsOf(u)' \in SUBSET (PatternsOf(u) \cup {key.pattern})
    BY <1>1 DEF PatternsOf
  <2>2. IsFiniteSet(PatternsOf(u) \cup {key.pattern})
    BY FS_AddElement DEF HeartbeatInv, FinitePatterns
  <2>3. QED
    BY <2>1, <2>2, FS_Subset
<1>8. HandedOver'
  <2> SUFFICES ASSUME scheduler # "cron", NEW u \in Schedules, NEW t \in 1..MaxTicks
      PROVE  fired[u][t] + Retries(u, t) <= Cardinality(PassedPatterns(u, t)') + stops
    BY <1>3 DEF HandedOver, Retries, Retry
  <2>1. PassedPatterns(u, t) \in SUBSET PassedPatterns(u, t)'
    BY <1>1 DEF PassedPatterns
  <2>2. IsFiniteSet(PassedPatterns(u, t)') /\ Cardinality(PassedPatterns(u, t)') \in Nat
    <3>1. PassedPatterns(u, t)' \in SUBSET (PatternsOf(u)')
      BY DEF PassedPatterns, PatternsOf
    <3>2. IsFiniteSet(PatternsOf(u)')
      BY <1>7 DEF FinitePatterns
    <3>3. QED
      BY <3>1, <3>2, FS_Subset, FS_CardinalityType
  <2>3. Cardinality(PassedPatterns(u, t)) <= Cardinality(PassedPatterns(u, t)')
    BY <2>1, <2>2, FS_Subset
  <2>4. /\ fired[u][t] \in Nat /\ Retries(u, t) \in Nat /\ stops \in Nat
        /\ Cardinality(PassedPatterns(u, t)) \in Nat
    BY PatternsCounted DEF HeartbeatInv, HeartbeatType, Retries
  <2>5. fired[u][t] + Retries(u, t) <= Cardinality(PassedPatterns(u, t)) + stops
    BY DEF HeartbeatInv, HandedOver
  <2>6. QED
    BY <2>2, <2>3, <2>4, <2>5
<1>9. TimersFire'
  BY <1>3 DEF HeartbeatInv, TimersFire, YetToFire
<1>10. QED
  BY <1>4, <1>6, <1>7, <1>8, <1>9 DEF HeartbeatInv

\* A due job is handed over, once for its pattern.
LEMMA TakeStep ==
  ASSUME HeartbeatInv, NEW b \in Builds, NEW k \in DOMAIN nextDue, Take(b, k)
  PROVE  HeartbeatInv'
<1> DEFINE s == k.schedule
           due == nextDue[k]
<1>1. /\ scheduler # "cron" /\ due <= tick
      /\ nextDue' = [nextDue EXCEPT ![k] = tick + 1]
      /\ runningJob' = [runningJob EXCEPT ![b] = {[schedule |-> s, due |-> due, again |-> FALSE]}]
      /\ fired' = [fired EXCEPT ![s][due] = @ + 1]
      /\ UNCHANGED <<scheduler, tick, timers, stalledJobs, stops>>
  BY DEF Take, WorkerUp, HandOver
<1>2. s \in Schedules /\ due \in 1..(MaxTicks + 1) /\ tick \in Nat /\ tick <= MaxTicks
  BY DEF HeartbeatInv, HeartbeatType, RegisteredKeys
<1>3. due \in 1..MaxTicks /\ tick + 1 \in 1..(MaxTicks + 1)
  BY <1>1, <1>2, HeartbeatAssumption
<1>4. /\ DOMAIN nextDue' = DOMAIN nextDue /\ nextDue'[k] = tick + 1
      /\ \A r \in DOMAIN nextDue : r # k => nextDue'[r] = nextDue[r]
  BY <1>1
<1>5. [schedule |-> s, due |-> due, again |-> FALSE] \in JobsOf(BOOLEAN)
  BY <1>2, <1>3 DEF JobsOf
<1>6. /\ fired' \in [Schedules -> [1..MaxTicks -> Nat]]
      /\ \A u \in Schedules, t \in 1..MaxTicks :
           fired'[u][t] = IF u = s /\ t = due THEN fired[u][t] + 1 ELSE fired[u][t]
  <2>1. fired \in [Schedules -> [1..MaxTicks -> Nat]]
    BY DEF HeartbeatInv, HeartbeatType
  <2> HIDE DEF s, due
  <2>2. QED
    BY <1>1, <1>2, <1>3, <2>1, CountedOnce
<1> HIDE DEF s, due
<1>7. HeartbeatType'
  BY <1>1, <1>5, <1>6 DEF HeartbeatInv, HeartbeatType, JobsOf
<1>8. RegisteredKeys'
  BY <1>3, <1>4 DEF HeartbeatInv, RegisteredKeys
<1>9. \A u \in Schedules : PatternsOf(u)' = PatternsOf(u)
  BY <1>4 DEF PatternsOf
<1>10. FinitePatterns' /\ IdleTimers' /\ TimersFire'
  BY <1>1, <1>9 DEF HeartbeatInv, FinitePatterns, IdleTimers, TimersFire
<1>11. HandedOver'
  <2> SUFFICES ASSUME NEW u \in Schedules, NEW t \in 1..MaxTicks
      PROVE  fired'[u][t] + Retries(u, t) <= Cardinality(PassedPatterns(u, t)') + stops
    BY <1>1 DEF HandedOver, Retries, Retry
  <2>1. /\ fired[u][t] \in Nat /\ Retries(u, t) \in Nat /\ stops \in Nat
        /\ Cardinality(PassedPatterns(u, t)) \in Nat /\ IsFiniteSet(PassedPatterns(u, t))
        /\ fired[u][t] + Retries(u, t) <= Cardinality(PassedPatterns(u, t)) + stops
    BY <1>1, PatternsCounted DEF HeartbeatInv, HeartbeatType, Retries, HandedOver
  <2>2. CASE u = s /\ t = due
    <3>1. \A r \in DOMAIN nextDue : r.schedule = s /\ r.pattern = k.pattern => r = k
      BY DEF HeartbeatInv, RegisteredKeys, s
    <3>2. ~ (nextDue[k] > t)
      BY <2>2, <1>2 DEF due
    <3>3. k.pattern \notin PassedPatterns(u, t)
      BY <2>2, <3>1, <3>2 DEF PassedPatterns
    <3>4. tick + 1 > t
      BY <1>1, <1>2, <2>2
    <3>5. PassedPatterns(u, t)' = PassedPatterns(u, t) \cup {k.pattern}
      <4>1. ASSUME NEW p PROVE p \in PassedPatterns(u, t)' <=>
                                 p \in PassedPatterns(u, t) \/ p = k.pattern
        BY <1>4, <2>2, <3>4 DEF PassedPatterns, s
      <4>2. QED
        BY <4>1
    <3>6. Cardinality(PassedPatterns(u, t)') = Cardinality(PassedPatterns(u, t)) + 1
      BY <2>1, <3>3, <3>5, FS_AddElement
    <3>7. fired'[u][t] = fired[u][t] + 1
      BY <1>6, <2>2
    <3>8. QED
      BY <2>1, <3>6, <3>7
  <2>3. CASE ~ (u = s /\ t = due)
    <3>1. PassedPatterns(u, t) \in SUBSET (PassedPatterns(u, t)')
      <4>1. nextDue[k] > t => tick + 1 > t
        BY <1>1, <1>2 DEF due
      <4>2. QED
        BY <1>4, <4>1 DEF PassedPatterns
    <3>2. PassedPatterns(u, t)' \in SUBSET PatternsOf(u)
      BY <1>4 DEF PassedPatterns, PatternsOf
    <3>3. IsFiniteSet(PassedPatterns(u, t)') /\ Cardinality(PassedPatterns(u, t)') \in Nat
      BY <3>2, FS_Subset, FS_CardinalityType DEF HeartbeatInv, FinitePatterns
    <3>4. Cardinality(PassedPatterns(u, t)) <= Cardinality(PassedPatterns(u, t)')
      BY <3>1, <3>3, FS_Subset
    <3>5. fired'[u][t] = fired[u][t]
      BY <1>6, <2>3
    <3>6. QED
      BY <2>1, <3>3, <3>4, <3>5
  <2>4. QED
    BY <2>2, <2>3
<1>12. QED
  BY <1>7, <1>8, <1>10, <1>11 DEF HeartbeatInv

\* A process dies, and its job will be handed over again.
LEMMA DeathStep ==
  ASSUME HeartbeatInv, NEW b \in Builds, ProcessDies(b)
  PROVE  HeartbeatInv'
<1> DEFINE left == {[j EXCEPT !.again = TRUE] : j \in {i \in runningJob[b] : ~i.again}}
<1>1. /\ UNCHANGED <<scheduler, tick, nextDue, fired>> /\ stops' = stops + 1
      /\ stalledJobs' = stalledJobs \cup left
      /\ timers' = [timers EXCEPT ![b] = {}] /\ runningJob' = [runningJob EXCEPT ![b] = {}]
  BY DEF ProcessDies
<1>2. left \subseteq JobsOf({TRUE})
  <2>1. runningJob[b] \subseteq JobsOf(BOOLEAN)
    BY DEF HeartbeatInv, HeartbeatType
  <2>2. ASSUME NEW j \in JobsOf(BOOLEAN) PROVE [j EXCEPT !.again = TRUE] \in JobsOf({TRUE})
    BY DEF JobsOf
  <2>3. QED
    BY <2>1, <2>2
<1> HIDE DEF left
<1>3. HeartbeatType' /\ IdleTimers'
  <2>1. stops' \in Nat /\ stalledJobs' \subseteq JobsOf({TRUE})
    BY <1>1, <1>2 DEF HeartbeatInv, HeartbeatType
  <2>2. /\ timers' \in [Builds -> SUBSET Schedules]
        /\ runningJob' \in [Builds -> SUBSET JobsOf(BOOLEAN)]
    BY <1>1 DEF HeartbeatInv, HeartbeatType
  <2>3. IdleTimers'
    BY <1>1 DEF HeartbeatInv, HeartbeatType, IdleTimers
  <2>4. QED
    BY <1>1, <2>1, <2>2, <2>3 DEF HeartbeatInv, HeartbeatType, JobsOf
<1>4. RegisteredKeys' /\ FinitePatterns'
  BY <1>1 DEF HeartbeatInv, RegisteredKeys, FinitePatterns, PatternsOf
<1>5. TimersFire'
  <2>1. \A c \in Builds : timers'[c] \subseteq timers[c]
    BY <1>1 DEF HeartbeatInv, HeartbeatType
  <2>2. QED
    BY <1>1, <2>1, TimersShrink
<1>6. HandedOver'
  <2> SUFFICES ASSUME scheduler # "cron", NEW u \in Schedules, NEW t \in 1..MaxTicks
      PROVE  fired[u][t] + Retries(u, t)' <= Cardinality(PassedPatterns(u, t)) + stops + 1
    <3>1. \A u \in Schedules, t \in 1..MaxTicks : PassedPatterns(u, t)' = PassedPatterns(u, t)
      BY <1>1 DEF PassedPatterns
    <3>2. stops \in Nat
      BY DEF HeartbeatInv, HeartbeatType
    <3>3. \A u \in Schedules, t \in 1..MaxTicks : Cardinality(PassedPatterns(u, t)) \in Nat
      BY PatternsCounted DEF HeartbeatInv
    <3>4. QED
      BY <1>1, <3>1, <3>2, <3>3 DEF HandedOver
  <2>1. /\ fired[u][t] \in Nat /\ Retries(u, t) \in {0, 1} /\ stops \in Nat
        /\ Retries(u, t)' \in {0, 1}
        /\ Cardinality(PassedPatterns(u, t)) \in Nat
    BY PatternsCounted DEF HeartbeatInv, HeartbeatType, Retries
  <2>2. fired[u][t] + Retries(u, t) <= Cardinality(PassedPatterns(u, t)) + stops
    BY DEF HeartbeatInv, HandedOver
  <2>3. QED
    BY <2>1, <2>2
<1>7. QED
  BY <1>3, <1>4, <1>5, <1>6 DEF HeartbeatInv

\* Another worker takes a job that was left.
LEMMA RetryStep ==
  ASSUME HeartbeatInv, NEW b \in Builds, NEW j \in stalledJobs, TakeStalled(b, j)
  PROVE  HeartbeatInv'
<1>1. /\ scheduler # "cron" /\ UNCHANGED <<scheduler, tick, timers, nextDue, stops>>
      /\ stalledJobs' = stalledJobs \ {j}
      /\ runningJob' = [runningJob EXCEPT ![b] = {j}]
      /\ fired' = [fired EXCEPT ![j.schedule][j.due] = @ + 1]
  BY DEF TakeStalled, WorkerUp, HandOver
<1>2. /\ j.schedule \in Schedules /\ j.due \in 1..MaxTicks
      /\ j = Retry(j.schedule, j.due) /\ j \in JobsOf(BOOLEAN)
  BY DEF HeartbeatInv, HeartbeatType, JobsOf, Retry
<1>3. /\ fired' \in [Schedules -> [1..MaxTicks -> Nat]]
      /\ \A u \in Schedules, t \in 1..MaxTicks :
           fired'[u][t] = IF u = j.schedule /\ t = j.due THEN fired[u][t] + 1 ELSE fired[u][t]
  <2>1. fired \in [Schedules -> [1..MaxTicks -> Nat]]
    BY DEF HeartbeatInv, HeartbeatType
  <2>2. QED
    BY <1>1, <1>2, <2>1, CountedOnce
<1>4. HeartbeatType' /\ IdleTimers' /\ TimersFire'
  <2>1. runningJob' \in [Builds -> SUBSET JobsOf(BOOLEAN)]
    BY <1>1, <1>2 DEF HeartbeatInv, HeartbeatType
  <2>2. QED
    BY <1>1, <1>3, <2>1 DEF HeartbeatInv, HeartbeatType, JobsOf, IdleTimers, TimersFire
<1>5. RegisteredKeys' /\ FinitePatterns'
  BY <1>1 DEF HeartbeatInv, RegisteredKeys, FinitePatterns, PatternsOf
<1>6. HandedOver'
  <2> SUFFICES ASSUME NEW u \in Schedules, NEW t \in 1..MaxTicks
      PROVE  fired'[u][t] + Retries(u, t)' <= Cardinality(PassedPatterns(u, t)) + stops
    BY <1>1 DEF HandedOver, PassedPatterns
  <2>1. /\ fired[u][t] \in Nat /\ Retries(u, t) \in {0, 1} /\ stops \in Nat
        /\ Retries(u, t)' \in {0, 1}
        /\ Cardinality(PassedPatterns(u, t)) \in Nat
        /\ fired[u][t] + Retries(u, t) <= Cardinality(PassedPatterns(u, t)) + stops
    BY <1>1, PatternsCounted DEF HeartbeatInv, HeartbeatType, Retries, HandedOver
  <2>2. CASE u = j.schedule /\ t = j.due
    <3>1. Retry(u, t) = j
      BY <1>2, <2>2
    <3>2. Retries(u, t) = 1 /\ Retries(u, t)' = 0
      BY <1>1, <3>1 DEF Retries, Retry
    <3>3. QED
      BY <1>3, <2>1, <2>2, <3>2
  <2>3. CASE ~ (u = j.schedule /\ t = j.due)
    <3>1. Retries(u, t)' = 1 => Retries(u, t) = 1
      BY <1>1 DEF Retries, Retry
    <3>2. QED
      BY <1>3, <2>1, <2>3, <3>1
  <2>4. QED
    BY <2>2, <2>3
<1>7. QED
  BY <1>4, <1>5, <1>6 DEF HeartbeatInv

\* A timer of one process fires.
LEMMA CronStep ==
  ASSUME HeartbeatInv, NEW b \in Builds, NEW s \in Schedules, CronFires(b, s)
  PROVE  HeartbeatInv'
<1>1. /\ s \in timers[b] /\ timers' = [timers EXCEPT ![b] = @ \ {s}]
      /\ fired' = [fired EXCEPT ![s][tick] = @ + 1]
      /\ UNCHANGED <<scheduler, tick, nextDue, runningJob, stalledJobs, stops>>
  BY DEF CronFires, HandOver
<1>2. scheduler = "cron"
  BY <1>1 DEF HeartbeatInv, IdleTimers
<1>3. timers' \in [Builds -> SUBSET Schedules]
  BY <1>1 DEF HeartbeatInv, HeartbeatType
<1>4. tick \in 1..MaxTicks
  BY <1>1 DEF HeartbeatInv, HeartbeatType, IdleTimers
<1>5. /\ fired' \in [Schedules -> [1..MaxTicks -> Nat]]
      /\ \A u \in Schedules, t \in 1..MaxTicks :
           fired'[u][t] = IF u = s /\ t = tick THEN fired[u][t] + 1 ELSE fired[u][t]
  <2>1. fired \in [Schedules -> [1..MaxTicks -> Nat]]
    BY DEF HeartbeatInv, HeartbeatType
  <2>2. QED
    BY <1>1, <1>4, <2>1, CountedOnce
<1>6. HeartbeatType' /\ IdleTimers' /\ HandedOver'
  BY <1>1, <1>2, <1>3, <1>4, <1>5 DEF HeartbeatInv, HeartbeatType, JobsOf, IdleTimers, HandedOver
<1>7. RegisteredKeys' /\ FinitePatterns'
  BY <1>1 DEF HeartbeatInv, RegisteredKeys, FinitePatterns, PatternsOf
<1>8. TimersFire'
  <2> SUFFICES ASSUME NEW u \in Schedules, NEW t \in 1..MaxTicks
      PROVE  /\ t > tick => fired'[u][t] = 0
             /\ t = tick => fired'[u][t] + Cardinality(YetToFire(u)') <= Cardinality(Builds)
             /\ t < tick => fired'[u][t] <= Cardinality(Builds)
    BY <1>1 DEF TimersFire
  <2>1. /\ t > tick => fired[u][t] = 0
        /\ t = tick => fired[u][t] + Cardinality(YetToFire(u)) <= Cardinality(Builds)
        /\ t < tick => fired[u][t] <= Cardinality(Builds)
    BY <1>2 DEF HeartbeatInv, TimersFire
  <2>2. /\ fired[u][t] \in Nat /\ Cardinality(Builds) \in Nat
        /\ IsFiniteSet(YetToFire(u)) /\ Cardinality(YetToFire(u)) \in Nat
    BY BuildsCounted DEF HeartbeatInv, HeartbeatType
  <2>3. CASE u = s
    <3>1. YetToFire(u)' = YetToFire(u) \ {b} /\ b \in YetToFire(u)
      BY <1>1, <2>3 DEF YetToFire, HeartbeatInv, HeartbeatType
    <3>2. Cardinality(YetToFire(u)') = Cardinality(YetToFire(u)) - 1
      BY <2>2, <3>1, FS_RemoveElement
    <3>3. QED
      BY <1>4, <1>5, <2>1, <2>2, <2>3, <3>2
  <2>4. CASE u # s
    <3>1. YetToFire(u)' = YetToFire(u)
      BY <1>1, <2>4 DEF YetToFire, HeartbeatInv, HeartbeatType
    <3>2. QED
      BY <1>5, <2>1, <2>4, <3>1
  <2>5. QED
    BY <2>3, <2>4
<1>9. QED
  BY <1>6, <1>7, <1>8 DEF HeartbeatInv

\* The next tick: the timers of what is up are set.
LEMMA ClockStep ==
  ASSUME HeartbeatInv, Clock
  PROVE  HeartbeatInv'
<1>1. /\ tick < MaxTicks /\ tick' = tick + 1
      /\ timers' = [b \in Builds |-> IF scheduler = "cron" /\ loadedBy[b] = "up" THEN Schedules ELSE {}]
      /\ UNCHANGED <<scheduler, nextDue, runningJob, stalledJobs, fired, stops>>
  BY DEF Clock
<1>2. tick \in Nat /\ MaxTicks \in Nat
  BY HeartbeatAssumption DEF HeartbeatInv, HeartbeatType
<1>3. timers' \in [Builds -> SUBSET Schedules] /\ IdleTimers'
  BY <1>1, <1>2 DEF IdleTimers
<1>4. HeartbeatType'
  <2>1. tick' \in Nat /\ tick' <= MaxTicks /\ stops' \in Nat
    BY <1>1, <1>2 DEF HeartbeatInv, HeartbeatType
  <2>2. /\ fired' \in [Schedules -> [1..MaxTicks -> Nat]]
        /\ runningJob' \in [Builds -> SUBSET JobsOf(BOOLEAN)] /\ stalledJobs' \subseteq JobsOf({TRUE})
    BY <1>1 DEF HeartbeatInv, HeartbeatType
  <2>3. QED
    BY <1>3, <2>1, <2>2 DEF HeartbeatType, JobsOf
<1>5. RegisteredKeys' /\ FinitePatterns'
  BY <1>1 DEF HeartbeatInv, RegisteredKeys, FinitePatterns, PatternsOf
<1>6. HandedOver'
  BY <1>1 DEF HeartbeatInv, HandedOver, PassedPatterns, Retries, Retry
<1>7. TimersFire'
  <2> SUFFICES ASSUME scheduler = "cron", NEW u \in Schedules, NEW t \in 1..MaxTicks
      PROVE  /\ t > tick' => fired[u][t] = 0
             /\ t = tick' => fired[u][t] + Cardinality(YetToFire(u)') <= Cardinality(Builds)
             /\ t < tick' => fired[u][t] <= Cardinality(Builds)
    BY <1>1 DEF TimersFire
  <2>1. /\ t > tick => fired[u][t] = 0
        /\ t = tick => fired[u][t] + Cardinality(YetToFire(u)) <= Cardinality(Builds)
        /\ t < tick => fired[u][t] <= Cardinality(Builds)
    BY DEF HeartbeatInv, TimersFire
  <2>2. /\ fired[u][t] \in Nat /\ IsFiniteSet(Builds) /\ Cardinality(Builds) \in Nat
        /\ Cardinality(YetToFire(u)) \in Nat
    BY BuildsCounted DEF HeartbeatInv, HeartbeatType
  <2>3. /\ Cardinality(YetToFire(u)') \in Nat
        /\ Cardinality(YetToFire(u)') <= Cardinality(Builds)
    <3>1. YetToFire(u)' \in SUBSET Builds
      BY DEF YetToFire
    <3>2. QED
      BY <2>2, <3>1, FS_Subset, FS_CardinalityType
  <2>4. QED
    BY <1>1, <1>2, <2>1, <2>2, <2>3
<1>8. QED
  BY <1>3, <1>4, <1>5, <1>6, <1>7 DEF HeartbeatInv

\* No step of a process, a timer, a worker or the queue breaks the count.
LEMMA HeartbeatStep == HeartbeatInv /\ [HeartbeatNext]_heartbeatVars => HeartbeatInv'
<1> SUFFICES ASSUME HeartbeatInv, [HeartbeatNext]_heartbeatVars PROVE HeartbeatInv'
  OBVIOUS
<1>1. CASE Clock
  BY <1>1, ClockStep
<1>2. ASSUME NEW b \in Builds, NEW s \in Schedules, AddRepeatable(b, s) \/ AddDaily(b, s)
      PROVE  HeartbeatInv'
  BY <1>2, AddStep DEF AddRepeatable, AddDaily
<1>3. ASSUME NEW b \in Builds, NEW s \in Schedules, CronFires(b, s) PROVE HeartbeatInv'
  BY <1>3, CronStep
<1>4. ASSUME NEW b \in Builds, ProcessDies(b) PROVE HeartbeatInv'
  BY <1>4, DeathStep
<1>5. ASSUME NEW b \in Builds, NEW k \in DOMAIN nextDue, Take(b, k) PROVE HeartbeatInv'
  BY <1>5, TakeStep
<1>6. ASSUME NEW b \in Builds, NEW j \in stalledJobs, TakeStalled(b, j) PROVE HeartbeatInv'
  BY <1>6, RetryStep
<1>7. /\ timers \in [Builds -> SUBSET Schedules] /\ runningJob \in [Builds -> SUBSET JobsOf(BOOLEAN)]
  BY DEF HeartbeatInv, HeartbeatType
<1>8. ASSUME NEW b \in Builds,
             \/ \E p \in Patterns : LoadForTenant(b, p)
             \/ \E s \in Schedules : DailyAddFails(b, s)
             \/ RegisterJobs(b) \/ Drained(b) \/ StopForTenant(b) \/ StartWorker(b) \/ LoadFails(b)
      PROVE  HeartbeatInv'
  <2>1. UNCHANGED <<scheduler, tick, timers, nextDue, runningJob, stalledJobs, fired, stops>>
    BY <1>8 DEF LoadForTenant, DailyAddFails, RegisterJobs, Drained, StopForTenant, StartWorker,
                LoadFails, Build
  <2>2. QED
    BY <1>7, <2>1, QuietStep
<1>9. ASSUME NEW b \in Builds, JobEnds(b) PROVE HeartbeatInv'
  <2>1. /\ UNCHANGED <<scheduler, tick, timers, nextDue, stalledJobs, fired, stops>>
        /\ runningJob' \in [Builds -> SUBSET JobsOf(BOOLEAN)]
    BY <1>7, <1>9 DEF JobEnds
  <2>2. QED
    BY <1>7, <2>1, QuietStep
<1>10. ASSUME NEW b \in Builds, Shutdown(b) PROVE HeartbeatInv'
  <2>1. /\ UNCHANGED <<scheduler, tick, nextDue, runningJob, stalledJobs, fired, stops>>
        /\ timers' = [timers EXCEPT ![b] = {}]
    BY <1>10 DEF Shutdown
  <2>2. timers' \in [Builds -> SUBSET Schedules] /\ \A c \in Builds : timers'[c] \subseteq timers[c]
    BY <1>7, <2>1
  <2>3. QED
    BY <1>7, <2>1, <2>2, QuietStep
<1>11. CASE UNCHANGED heartbeatVars
  <2>1. UNCHANGED <<scheduler, tick, timers, nextDue, runningJob, stalledJobs, fired, stops>>
    BY <1>11 DEF heartbeatVars
  <2>2. QED
    BY <1>7, <2>1, QuietStep
<1>12. QED
  BY <1>1, <1>2, <1>3, <1>4, <1>5, <1>6, <1>8, <1>9, <1>10, <1>11 DEF HeartbeatNext

\* Before any process is built nothing has fired and nothing can.
LEMMA HeartbeatStart == HeartbeatInit => HeartbeatInv
<1> SUFFICES ASSUME HeartbeatInit PROVE HeartbeatInv
  OBVIOUS
<1>1. DOMAIN nextDue = {} /\ timers = [b \in Builds |-> {}] /\ stalledJobs = {} /\ tick = 0 /\ stops = 0
  BY DEF HeartbeatInit
<1>2. fired = [s \in Schedules |-> [t \in 1..MaxTicks |-> 0]] /\ runningJob = [b \in Builds |-> {}]
  BY DEF HeartbeatInit
<1>3. HeartbeatType /\ RegisteredKeys /\ IdleTimers
  BY <1>1, <1>2, HeartbeatAssumption DEF HeartbeatType, RegisteredKeys, IdleTimers, JobsOf
<1>4. \A s \in Schedules : PatternsOf(s) = {}
  BY <1>1 DEF PatternsOf
<1>5. FinitePatterns
  BY <1>4, FS_EmptySet DEF FinitePatterns
<1>6. HandedOver
  <2> SUFFICES ASSUME NEW s \in Schedules, NEW t \in 1..MaxTicks
      PROVE  fired[s][t] + Retries(s, t) <= Cardinality(PassedPatterns(s, t)) + stops
    BY DEF HandedOver
  <2>1. fired[s][t] = 0 /\ Retries(s, t) = 0 /\ Cardinality(PassedPatterns(s, t)) \in Nat
    BY <1>1, <1>2, <1>5, PatternsCounted DEF Retries
  <2>2. QED
    BY <1>1, <2>1
<1>7. TimersFire
  BY <1>1, <1>2, HeartbeatAssumption DEF TimersFire
<1>8. QED
  BY <1>3, <1>5, <1>6, <1>7 DEF HeartbeatInv

\* However many processes build the coordinator, at whatever moments they crash or are
\* shut down, a schedule is handed over at most once for a tick, for each pattern that is
\* registered, and once more for each process that died (bullmq-heartbeat.ts:82, 111).
THEOREM TicksFireOnce == HeartbeatSpec => []TickFiresOnce
<1>1. HeartbeatInv => TickFiresOnce
  <2> SUFFICES ASSUME HeartbeatInv, NEW s \in Schedules, NEW t \in 1..MaxTicks
      PROVE  fired[s][t] <= IF scheduler # "cron" THEN Cardinality(PatternsOf(s)) + stops
                            ELSE Cardinality(Builds) + stops
    BY DEF TickFiresOnce, PatternsOf
  <2>1. fired[s][t] \in Nat /\ stops \in Nat /\ tick \in Nat
    BY DEF HeartbeatInv, HeartbeatType
  <2>2. CASE scheduler # "cron"
    <3>1. /\ Cardinality(PassedPatterns(s, t)) \in Nat /\ Cardinality(PatternsOf(s)) \in Nat
          /\ Cardinality(PassedPatterns(s, t)) <= Cardinality(PatternsOf(s))
      BY PatternsCounted DEF HeartbeatInv
    <3>2. fired[s][t] + Retries(s, t) <= Cardinality(PassedPatterns(s, t)) + stops
      BY <2>2 DEF HeartbeatInv, HandedOver
    <3>3. Retries(s, t) \in Nat
      BY DEF Retries
    <3>4. QED
      BY <2>1, <2>2, <3>1, <3>2, <3>3
  <2>3. CASE scheduler = "cron"
    <3>1. Cardinality(YetToFire(s)) \in Nat /\ Cardinality(Builds) \in Nat
      BY BuildsCounted DEF HeartbeatInv
    <3>2. /\ t > tick => fired[s][t] = 0
          /\ t = tick => fired[s][t] + Cardinality(YetToFire(s)) <= Cardinality(Builds)
          /\ t < tick => fired[s][t] <= Cardinality(Builds)
      BY <2>3 DEF HeartbeatInv, TimersFire
    <3>3. QED
      BY <2>1, <2>3, <3>1, <3>2
  <2>4. QED
    BY <2>2, <2>3
<1>2. QED
  BY <1>1, HeartbeatStart, HeartbeatStep, PTL DEF HeartbeatSpec
===============================================================================
