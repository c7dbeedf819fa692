----------------------------- MODULE MemoryManager -----------------------------
(***************************************************************************)
(* src/memory: write() of MemoryManager with its distributed lock.  One    *)
(* writer is one call of write(); a manager belongs to one tenant in one   *)
(* process.  Commands a manager sends to Redis are executed and answered   *)
(* in the order it sent them (one connection), so a command's effect and   *)
(* the code that resumes on its reply are one action.  An in-memory lock   *)
(* is a store only one manager uses.                                       *)
(*                                                                         *)
(* A file's content is the set of writers whose change it holds.           *)
(* Bounds: MaxCrashes process crashes, MaxFaults failing Redis commands.   *)
(***************************************************************************)
EXTENDS Naturals, Sequences

CONSTANTS
  Writers,       \* calls of write(); each draws its own lock token
  Managers,
  Tenants,
  Paths,         \* relative paths
  Stores,        \* where locks are kept: Redis, or one manager's own Map
  ManagerOf,     \* the manager a writer calls
  TenantOf,      \* the tenant of a manager
  StoreOf,       \* the lock store of a manager
  PathOf,        \* the path a writer writes
  OpsOf,         \* the operations a writer may ask for
  None,          \* no token
  SlowWrites,    \* a write may outlast the lock's TTL of 5 s
  MaxCrashes,
  MaxFaults

ASSUME MemoryAssumption ==
  /\ ManagerOf \in [Writers -> Managers]
  /\ TenantOf \in [Managers -> Tenants]
  /\ StoreOf \in [Managers -> Stores]
  /\ PathOf \in [Writers -> Paths]
  /\ OpsOf \in [Writers -> SUBSET {"create", "append", "update_section"}]
  /\ None \notin Writers
  /\ SlowWrites \in BOOLEAN
  /\ MaxCrashes \in Nat /\ MaxFaults \in Nat

VARIABLES
  held,      \* each store: the token kept under "lock:" + path, or None
  tokens,    \* lockTokens of each manager: path -> token or None
  wire,      \* commands each manager has sent and got no reply for
  file,      \* the files of each tenant: [there, has]
  pc, op, buf,
  outcome,   \* what write() is about to return once its finally has run
  crashes, faults

lockVars   == <<held, tokens, wire>>
writerVars == <<pc, op, buf, outcome>>
vars == <<lockVars, file, writerVars, crashes, faults>>

Operations == {"create", "append", "update_section"}
InBody     == {"locked", "write", "fill", "stat"}
Finished   == {"ok", "failed", "thrown", "dead"}

FileOf(w) == <<TenantOf[ManagerOf[w]], PathOf[w]>>
KeyOf(w)  == <<StoreOf[ManagerOf[w]], PathOf[w]>>
Active(w) == pc[w] \in InBody \cup {"releasing"}

Init ==
  /\ held = [k \in Stores \X Paths |-> None]
  /\ tokens = [m \in Managers |-> [p \in Paths |-> None]]
  /\ wire = [m \in Managers |-> <<>>]
  /\ file \in [Tenants \X Paths -> {[there |-> b, has |-> {}] : b \in BOOLEAN}]
  /\ pc = [w \in Writers |-> "start"]
  /\ op = [w \in Writers |-> "append"]
  /\ buf = [w \in Writers |-> {}]
  /\ outcome = [w \in Writers |-> "none"]
  /\ crashes = 0 /\ faults = 0

Send(m, cmd, w, token) ==
  wire' = [wire EXCEPT ![m] = Append(@, [cmd |-> cmd, by |-> w, token |-> token])]

\* acquireLock: SET lock:<path> <token> EX 5 NX is sent.
Call(w) ==
  /\ pc[w] = "start"
  /\ pc' = [pc EXCEPT ![w] = "acquiring"]
  /\ \E o \in OpsOf[w] : op' = [op EXCEPT ![w] = o]
  /\ Send(ManagerOf[w], "SET", w, w)
  /\ UNCHANGED <<held, tokens, file, buf, outcome, crashes, faults>>

SetOverwrites(m) ==   \* mutant: SET without NX
  /\ wire[m] # <<>> /\ Head(wire[m]).cmd = "SET"
  /\ LET w == Head(wire[m]).by  p == PathOf[w]  k == KeyOf(w)
     IN /\ held' = [held EXCEPT ![k] = w]
        /\ tokens' = [tokens EXCEPT ![m][p] = w]
        /\ pc' = [pc EXCEPT ![w] = "locked"]
  /\ wire' = [wire EXCEPT ![m] = Tail(@)]
  /\ UNCHANGED <<file, op, buf, outcome, crashes, faults>>

\* Reply to SET: the token is remembered, or write() returns success: false.
SetReply(m) ==
  /\ wire[m] # <<>> /\ Head(wire[m]).cmd = "SET"
  /\ LET w == Head(wire[m]).by  p == PathOf[w]  k == KeyOf(w)
     IN \/ /\ held[k] = None
           /\ held' = [held EXCEPT ![k] = w]
           /\ tokens' = [tokens EXCEPT ![m][p] = w]
           /\ pc' = [pc EXCEPT ![w] = "locked"]
        \/ /\ held[k] # None
           /\ pc' = [pc EXCEPT ![w] = "failed"]
           /\ UNCHANGED <<held, tokens>>
  /\ wire' = [wire EXCEPT ![m] = Tail(@)]
  /\ UNCHANGED <<file, op, buf, outcome, crashes, faults>>

(***************************************************************************)
(* The body of write(), one action per awaited file operation.             *)
(***************************************************************************)

\* finally: releaseLock looks its token up by path and sends the delete
\* script with it; without a token there is nothing to release.
Finally(w, result) ==
  LET m == ManagerOf[w]  t == tokens[m][PathOf[w]]
  IN /\ outcome' = [outcome EXCEPT ![w] = result]
     /\ IF t = None
        THEN pc' = [pc EXCEPT ![w] = result] /\ UNCHANGED wire
        ELSE pc' = [pc EXCEPT ![w] = "releasing"] /\ Send(m, "DEL", w, t)

CreateUnchecked(w) ==   \* mutant: createFile without the access() check
  /\ pc[w] = "locked" /\ op[w] = "create"
  /\ pc' = [pc EXCEPT ![w] = "write"]
  /\ UNCHANGED <<outcome, wire, held, tokens, file, op, buf, crashes, faults>>

\* createFile: access() must report ENOENT; mkdir follows.
CreateChecks(w) ==
  /\ pc[w] = "locked" /\ op[w] = "create"
  /\ IF file[FileOf(w)].there
     THEN Finally(w, "failed")
     ELSE pc' = [pc EXCEPT ![w] = "write"] /\ UNCHANGED <<outcome, wire>>
  /\ UNCHANGED <<held, tokens, file, op, buf, crashes, faults>>

\* updateSection: read the whole file, replace one section of it.
UpdateReads(w) ==
  /\ pc[w] = "locked" /\ op[w] = "update_section"
  /\ IF file[FileOf(w)].there
     THEN /\ buf' = [buf EXCEPT ![w] = file[FileOf(w)].has]
          /\ pc' = [pc EXCEPT ![w] = "write"]
          /\ UNCHANGED <<outcome, wire>>
     ELSE Finally(w, "failed") /\ UNCHANGED buf
  /\ UNCHANGED <<held, tokens, file, op, crashes, faults>>

\* writeFile truncates the file, then fills it.
Truncate(w) ==
  /\ pc[w] = "write"
  /\ file' = [file EXCEPT ![FileOf(w)] = [there |-> TRUE, has |-> {}]]
  /\ pc' = [pc EXCEPT ![w] = "fill"]
  /\ UNCHANGED <<lockVars, op, buf, outcome, crashes, faults>>

Fill(w) ==
  /\ pc[w] = "fill"
  /\ file' = [file EXCEPT ![FileOf(w)].has = buf[w] \cup {w}]
  /\ pc' = [pc EXCEPT ![w] = "stat"]
  /\ UNCHANGED <<lockVars, op, buf, outcome, crashes, faults>>

\* appendToFile: one appendFile, which creates a missing file.
AppendEntry(w) ==
  /\ pc[w] = "locked" /\ op[w] = "append"
  /\ file' = [file EXCEPT ![FileOf(w)] = [there |-> TRUE, has |-> @.has \cup {w}]]
  /\ pc' = [pc EXCEPT ![w] = "stat"]
  /\ UNCHANGED <<lockVars, op, buf, outcome, crashes, faults>>

\* stat returns, the write callback runs, and the finally begins.
StatReturns(w) ==
  /\ pc[w] = "stat"
  /\ Finally(w, "ok")
  /\ UNCHANGED <<held, tokens, file, op, buf, crashes, faults>>

\* Reply to the delete script: Redis compared the token, the manager forgets
\* whatever token it has for the path, and write() returns.
DelReply(m) ==
  /\ wire[m] # <<>> /\ Head(wire[m]).cmd = "DEL"
  /\ LET w == Head(wire[m]).by  p == PathOf[w]  k == KeyOf(w)
     IN /\ held' = [held EXCEPT ![k] = IF @ = Head(wire[m]).token THEN None ELSE @]
        /\ tokens' = [tokens EXCEPT ![m][p] = None]
        /\ pc' = [pc EXCEPT ![w] = outcome[w]]
  /\ wire' = [wire EXCEPT ![m] = Tail(@)]
  /\ UNCHANGED <<file, op, buf, outcome, crashes, faults>>

(***************************************************************************)
(* Redis: the TTL, and commands that fail before or after their effect.    *)
(***************************************************************************)
ExpireNever(k) == FALSE /\ UNCHANGED vars   \* mutant: SET without EX

Expire(k) ==
  /\ held[k] # None
  /\ SlowWrites \/ ~Active(held[k])
  /\ held' = [held EXCEPT ![k] = None]
  /\ UNCHANGED <<tokens, wire, file, writerVars, crashes, faults>>

\* acquireLock throws, so write() returns success: false; an error out of the
\* finally makes write() itself throw and leaves the entry in lockTokens.
CommandFails(m) ==
  /\ wire[m] # <<>> /\ faults < MaxFaults
  /\ LET c == Head(wire[m])  k == KeyOf(c.by)
     IN /\ \/ UNCHANGED held
           \/ c.cmd = "SET" /\ held[k] = None /\ held' = [held EXCEPT ![k] = c.by]
           \/ c.cmd = "DEL" /\ held[k] = c.token /\ held' = [held EXCEPT ![k] = None]
        /\ pc' = [pc EXCEPT ![c.by] = IF c.cmd = "SET" THEN "failed" ELSE "thrown"]
  /\ wire' = [wire EXCEPT ![m] = Tail(@)]
  /\ faults' = faults + 1
  /\ UNCHANGED <<tokens, file, op, buf, outcome, crashes>>

\* The process of a manager dies: its calls never return, and of the commands
\* on the wire only those already executed had an effect.
Crash(m) ==
  /\ crashes < MaxCrashes
  /\ crashes' = crashes + 1
  /\ pc' = [w \in Writers |->
       IF ManagerOf[w] = m /\ pc[w] \notin Finished \cup {"start"} THEN "dead" ELSE pc[w]]
  /\ wire' = [wire EXCEPT ![m] = <<>>]
  /\ tokens' = [tokens EXCEPT ![m] = [p \in Paths |-> None]]
  /\ UNCHANGED <<held, file, op, buf, outcome, faults>>

Step(w) ==
  \/ CreateChecks(w)
  \/ UpdateReads(w)
  \/ Truncate(w)
  \/ Fill(w)
  \/ AppendEntry(w)
  \/ StatReturns(w)

Reply(m) ==
  \/ SetReply(m)
  \/ DelReply(m)
  \/ CommandFails(m)

Next ==
  \/ \E w \in Writers : Call(w) \/ Step(w)
  \/ \E m \in Managers : Reply(m) \/ Crash(m)
  \/ \E k \in Stores \X Paths : Expire(k)

Spec == Init /\ [][Next]_vars

\* File operations end, Redis answers, and its TTL runs.
Fairness ==
  /\ \A w \in Writers : WF_vars(Step(w))
  /\ \A m \in Managers : WF_vars(Reply(m))
  /\ \A k \in Stores \X Paths : WF_vars(Expire(k))

FairSpec == Spec /\ Fairness

--------------------------------------------------------------------------------
(***************************************************************************)
(* Properties.                                                             *)
(***************************************************************************)
Outcomes == {"none", "ok", "failed"}
Command  == [cmd : {"SET", "DEL"}, by : Writers, token : Writers]

TypeOK ==
  /\ held \in [Stores \X Paths -> Writers \cup {None}]
  /\ tokens \in [Managers -> [Paths -> Writers \cup {None}]]
  /\ wire \in [Managers -> Seq(Command)]
  /\ file \in [Tenants \X Paths -> [there : BOOLEAN, has : SUBSET Writers]]
  /\ pc \in [Writers -> InBody \cup Finished \cup {"start", "acquiring", "releasing"}]
  /\ op \in [Writers -> Operations]
  /\ buf \in [Writers -> SUBSET Writers]
  /\ outcome \in [Writers -> Outcomes]
  /\ crashes \in Nat /\ faults \in Nat

\* "Write lock prevents concurrent writes": two calls are never both past
\* acquireLock and before the end of their body on one file, whatever crashes
\* and fails, as long as no write outlasts the TTL.
OneWriterPerFile ==
  \A v, w \in Writers :
    v # w /\ pc[v] \in InBody /\ pc[w] \in InBody => FileOf(v) # FileOf(w)

\* What write() reported as written is in the file, or in the buffer of the
\* call that is rewriting the file now (no process has died mid-write).
ReportedWritesKept ==
  crashes = 0 =>
    \A w \in Writers :
      pc[w] = "ok" =>
        \/ w \in file[FileOf(w)].has
        \/ \E v \in Writers : pc[v] = "fill" /\ FileOf(v) = FileOf(w) /\ w \in buf[v]

\* "Only the lock owner can release it": when a writer's delete script runs,
\* it removes that writer's own lock or none.
OnlyOwnerReleases ==
  [][\A m \in Managers, k \in Stores \X Paths :
       DelReply(m) /\ held'[k] # held[k] => held[k] = Head(wire[m]).by]_vars

\* A lock whose holder died, or lost its release, is free again in the end:
\* no file stays unwritable.
LockIsFreed == \A k \in Stores \X Paths : held[k] # None ~> held[k] = None

================================================================================
