----------------------------- MODULE MemoryProofs -----------------------------
(***************************************************************************)
(* Theorems about the client files and what a message leads to.            *)
(* MemoryManager: when no write outlasts the TTL, a writer inside write()  *)
(* owns its lock, however many writers, managers, crashes and failing      *)
(* commands there are, and what it reported stays in the file. Contacts:   *)
(* notes and rows of contacts typed in on the phone, and the dossier       *)
(* sheet. Coordinator: the drafts of a turn, for any number of agents.     *)
(***************************************************************************)
EXTENDS TLAPS, FiniteSetTheorems, SequenceTheorems, MemoryManager, Contacts, RankTheorems, Coordinator

\* A writer with the lock is the one Redis and its manager know.
OwnersKnown ==
  \A w \in Writers :
    Active(w) => /\ held[KeyOf(w)] = w
                 /\ tokens[ManagerOf[w]][PathOf[w]] = w

\* A command on the wire is its sender's only one, and the sender waits for it.
Waits(c) == IF c.cmd = "SET" THEN pc[c.by] = "acquiring"
                             ELSE pc[c.by] = "releasing" /\ c.token = c.by

SendersWait ==
  \A m \in Managers : \A i \in 1..Len(wire[m]) :
    ManagerOf[wire[m][i].by] = m /\ Waits(wire[m][i])

OneCommandEach ==
  \A m \in Managers : \A i, j \in 1..Len(wire[m]) :
    wire[m][i].by = wire[m][j].by => i = j

\* A call in its finally has decided what it will return.
Decided == \A w \in Writers : pc[w] = "releasing" => outcome[w] \in {"ok", "failed"}

LockInv == TypeOK /\ OwnersKnown /\ SendersWait /\ OneCommandEach

\* What is left of the wire when its head has been answered.
LEMMA AnsweredWire ==
  ASSUME NEW s \in Seq(Command), s # <<>>
  PROVE  /\ Tail(s) \in Seq(Command)
         /\ 1 \in 1..Len(s) /\ Head(s) = s[1] /\ s[1] \in Command
         /\ \A i \in 1..Len(Tail(s)) : i + 1 \in 1..Len(s) /\ Tail(s)[i] = s[i + 1]
<1>1. /\ Tail(s) \in Seq(Command) /\ Len(Tail(s)) = Len(s) - 1
      /\ \A i \in 1..Len(Tail(s)) : Tail(s)[i] = s[i + 1]
  BY HeadTailProperties
<1>2. Len(s) \in Nat /\ Len(s) # 0
  BY EmptySeq
<1>3. /\ 1 \in 1..Len(s) /\ Head(s) = s[1]
      /\ \A i \in 1..Len(Tail(s)) : i + 1 \in 1..Len(s)
  BY <1>1, <1>2
<1>4. QED
  BY <1>1, <1>3

LEMMA LongerWire ==
  ASSUME NEW s \in Seq(Command), NEW c \in Command
  PROVE  /\ Append(s, c) \in Seq(Command)
         /\ Len(Append(s, c)) = Len(s) + 1
         /\ Append(s, c)[Len(s) + 1] = c
         /\ \A i \in 1..Len(s) : Append(s, c)[i] = s[i]
OBVIOUS

\* Answering the head of the wire of m, when only its sender moves on.
LEMMA AnswerKeepsWire ==
  ASSUME LockInv, NEW m \in Managers, wire[m] # <<>>,
         wire' = [wire EXCEPT ![m] = Tail(@)],
         NEW to, pc' = [pc EXCEPT ![Head(wire[m]).by] = to]
  PROVE  /\ wire' \in [Managers -> Seq(Command)]
         /\ SendersWait' /\ OneCommandEach'
<1>0. wire \in [Managers -> Seq(Command)] /\ pc \in [Writers -> InBody \cup Finished \cup {"start", "acquiring", "releasing"}]
  BY DEF LockInv, TypeOK
<1>1. wire[m] \in Seq(Command)
  BY <1>0
<1>2. /\ Tail(wire[m]) \in Seq(Command)
      /\ 1 \in 1..Len(wire[m]) /\ Head(wire[m]) = wire[m][1]
      /\ \A i \in 1..Len(Tail(wire[m])) :
            i + 1 \in 1..Len(wire[m]) /\ Tail(wire[m])[i] = wire[m][i + 1]
  BY <1>1, AnsweredWire
<1>3. wire' \in [Managers -> Seq(Command)]
  BY <1>0, <1>2
<1>4. wire'[m] = Tail(wire[m]) /\ \A n \in Managers : n # m => wire'[n] = wire[n]
  BY <1>0
<1>5. ASSUME NEW n \in Managers, NEW i \in 1..Len(wire'[n])
      PROVE  \E j \in 1..Len(wire[n]) :
                wire'[n][i] = wire[n][j] /\ (n = m => j = i + 1 /\ j # 1)
                /\ (n # m => j = i)
  <2>1. CASE n = m
    <3>0. wire'[n] = Tail(wire[m])
      BY <2>1, <1>4
    <3>1. i \in 1..Len(Tail(wire[m])) /\ wire'[n][i] = Tail(wire[m])[i]
      BY <3>0
    <3>2. i + 1 \in 1..Len(wire[m]) /\ wire'[n][i] = wire[m][i + 1] /\ i + 1 # 1
      BY <3>1, <1>2
    <3>3. QED
      BY <2>1, <3>2
  <2>2. CASE n # m
    BY <2>2, <1>4, <1>5
  <2>3. QED
    BY <2>1, <2>2
<1>6. SendersWait'
  <2> SUFFICES ASSUME NEW n \in Managers, NEW i \in 1..Len(wire'[n])
               PROVE  ManagerOf[wire'[n][i].by] = n /\ Waits(wire[n][i])'
    BY DEF SendersWait
  <2>1. PICK j \in 1..Len(wire[n]) : wire'[n][i] = wire[n][j] /\ (n = m => j # 1)
    BY <1>5
  <2>2. ManagerOf[wire[n][j].by] = n /\ Waits(wire[n][j])
    BY DEF LockInv, SendersWait
  <2>3. ManagerOf[Head(wire[m]).by] = m
    BY <1>2 DEF LockInv, SendersWait
  <2>4. wire[n][j].by # Head(wire[m]).by
    <3>1. CASE n = m
      BY <3>1, <1>2, <2>1 DEF LockInv, OneCommandEach
    <3>2. CASE n # m
      BY <3>2, <2>2, <2>3
    <3>3. QED
      BY <3>1, <3>2
  <2>5. pc'[wire[n][j].by] = pc[wire[n][j].by]
    BY <1>0, <2>4, <2>1, <1>0
  <2>6. QED
    BY <2>1, <2>2, <2>5 DEF Waits
<1>7. OneCommandEach'
  <2> SUFFICES ASSUME NEW n \in Managers, NEW i \in 1..Len(wire'[n]),
                      NEW j \in 1..Len(wire'[n]), wire'[n][i].by = wire'[n][j].by
               PROVE  i = j
    BY DEF OneCommandEach
  <2>1. PICK k \in 1..Len(wire[n]) : wire'[n][i] = wire[n][k]
           /\ (n = m => k = i + 1) /\ (n # m => k = i)
    BY <1>5
  <2>2. PICK l \in 1..Len(wire[n]) : wire'[n][j] = wire[n][l]
           /\ (n = m => l = j + 1) /\ (n # m => l = j)
    BY <1>5
  <2>3. k = l
    BY <2>1, <2>2 DEF LockInv, OneCommandEach
  <2>4. QED
    BY <2>1, <2>2, <2>3
<1>8. QED
  BY <1>3, <1>6, <1>7

\* Sending a command, by a writer that had none on the wire.
LEMMA SendKeepsWire ==
  ASSUME LockInv, NEW w \in Writers, NEW cmd \in {"SET", "DEL"},
         pc[w] \notin {"acquiring", "releasing"},
         Send(ManagerOf[w], cmd, w, w),
         pc' = [pc EXCEPT ![w] = IF cmd = "SET" THEN "acquiring" ELSE "releasing"]
  PROVE  /\ wire' \in [Managers -> Seq(Command)]
         /\ SendersWait' /\ OneCommandEach'
<1> DEFINE m == ManagerOf[w]
           c == [cmd |-> cmd, by |-> w, token |-> w]
<1>0. /\ wire \in [Managers -> Seq(Command)]
      /\ pc \in [Writers -> InBody \cup Finished \cup {"start", "acquiring", "releasing"}]
      /\ m \in Managers /\ c \in Command
  BY MemoryAssumption DEF LockInv, TypeOK, Command
<1>1. wire' = [wire EXCEPT ![m] = Append(@, c)]
  BY DEF Send
<1>2. /\ Append(wire[m], c) \in Seq(Command)
      /\ Len(Append(wire[m], c)) = Len(wire[m]) + 1
      /\ Append(wire[m], c)[Len(wire[m]) + 1] = c
      /\ \A i \in 1..Len(wire[m]) : Append(wire[m], c)[i] = wire[m][i]
  BY <1>0, LongerWire
<1>3. /\ wire' \in [Managers -> Seq(Command)]
      /\ wire'[m] = Append(wire[m], c)
      /\ \A n \in Managers : n # m => wire'[n] = wire[n]
  BY <1>0, <1>1, <1>2
<1>4. ASSUME NEW n \in Managers, NEW i \in 1..Len(wire'[n])
      PROVE  \/ i \in 1..Len(wire[n]) /\ wire'[n][i] = wire[n][i]
             \/ n = m /\ i = Len(wire[m]) + 1 /\ wire'[n][i] = c
  <2>1. CASE n = m
    <3>1. Len(wire[m]) \in Nat
      BY <1>0
    <3>2. i \in 1..Len(wire[m]) \/ i = Len(wire[m]) + 1
      BY <2>1, <3>1, <1>2, <1>3
    <3>3. QED
      BY <2>1, <3>2, <1>2, <1>3
  <2>2. CASE n # m
    BY <2>2, <1>3, <1>4
  <2>3. QED
    BY <2>1, <2>2
<1>5. ASSUME NEW n \in Managers, NEW i \in 1..Len(wire[n])
      PROVE  /\ ManagerOf[wire[n][i].by] = n /\ Waits(wire[n][i])
             /\ wire[n][i].by # w /\ wire[n][i].by \in Writers
  <2>1. wire[n][i] \in Command
    BY <1>0
  <2>2. ManagerOf[wire[n][i].by] = n /\ Waits(wire[n][i])
    BY DEF LockInv, SendersWait
  <2>3. QED
    BY <2>1, <2>2 DEF Waits, Command
<1>6. SendersWait'
  <2> SUFFICES ASSUME NEW n \in Managers, NEW i \in 1..Len(wire'[n])
               PROVE  ManagerOf[wire'[n][i].by] = n /\ Waits(wire[n][i])'
    BY DEF SendersWait
  <2>1. CASE i \in 1..Len(wire[n]) /\ wire'[n][i] = wire[n][i]
    <3>1. pc'[wire[n][i].by] = pc[wire[n][i].by]
      BY <1>0, <1>5, <2>1
    <3>2. QED
      BY <3>1, <1>5, <2>1 DEF Waits
  <2>2. CASE n = m /\ wire'[n][i] = c
    BY <2>2, <1>0 DEF Waits
  <2>3. QED
    BY <2>1, <2>2, <1>4
<1>7. OneCommandEach'
  <2> SUFFICES ASSUME NEW n \in Managers, NEW i \in 1..Len(wire'[n]),
                      NEW j \in 1..Len(wire'[n]), wire'[n][i].by = wire'[n][j].by
               PROVE  i = j
    BY DEF OneCommandEach
  <2>1. CASE i \in 1..Len(wire[n]) /\ j \in 1..Len(wire[n])
    BY <2>1, <1>4, <1>5 DEF LockInv, OneCommandEach
  <2>2. CASE i \notin 1..Len(wire[n]) \/ j \notin 1..Len(wire[n])
    BY <2>2, <1>4, <1>5
  <2>3. QED
    BY <2>1, <2>2
<1>8. QED
  BY <1>3, <1>6, <1>7

\* A step that moves a writer within the body of write(), or out of a state
\* without a lock, without touching the lock.
LEMMA BodyStep ==
  ASSUME LockInv, UNCHANGED lockVars, NEW w \in Writers,
         pc[w] \in InBody, NEW to \in InBody, pc' = [pc EXCEPT ![w] = to]
  PROVE  OwnersKnown' /\ SendersWait' /\ OneCommandEach'
<1>0. /\ wire \in [Managers -> Seq(Command)]
      /\ pc \in [Writers -> InBody \cup Finished \cup {"start", "acquiring", "releasing"}]
  BY DEF LockInv, TypeOK
<1>1. OwnersKnown'
  BY <1>0 DEF LockInv, OwnersKnown, Active, lockVars, KeyOf
<1>2. ASSUME NEW m \in Managers, NEW i \in 1..Len(wire[m])
      PROVE  /\ ManagerOf[wire[m][i].by] = m
             /\ Waits(wire[m][i]) /\ wire[m][i].by \in Writers
  <2>1. wire[m][i] \in Command
    BY <1>0
  <2>2. QED
    BY <2>1 DEF LockInv, SendersWait, Command
<1>3. ASSUME NEW m \in Managers, NEW i \in 1..Len(wire[m])
      PROVE  pc'[wire[m][i].by] = pc[wire[m][i].by]
  <2>1. pc[wire[m][i].by] \in {"acquiring", "releasing"}
    BY <1>2 DEF Waits
  <2>2. wire[m][i].by # w
    BY <2>1 DEF InBody
  <2>3. QED
    BY <1>0, <1>2, <2>2
<1>4. SendersWait'
  BY <1>2, <1>3 DEF SendersWait, Waits, lockVars
<1>5. OneCommandEach'
  BY DEF LockInv, OneCommandEach, lockVars
<1>6. QED
  BY <1>1, <1>4, <1>5

\* The finally of a writer that owns its lock sends the delete script with its
\* own token.
LEMMA FinallyStep ==
  ASSUME LockInv, NEW w \in Writers, pc[w] \in InBody, UNCHANGED <<held, tokens>>,
         NEW result \in {"ok", "failed"}, Finally(w, result)
  PROVE  /\ wire' \in [Managers -> Seq(Command)]
         /\ pc' = [pc EXCEPT ![w] = "releasing"]
         /\ OwnersKnown' /\ SendersWait' /\ OneCommandEach'
<1>0. pc \in [Writers -> InBody \cup Finished \cup {"start", "acquiring", "releasing"}]
  BY DEF LockInv, TypeOK
<1>1. tokens[ManagerOf[w]][PathOf[w]] = w /\ w # None
  BY MemoryAssumption DEF LockInv, OwnersKnown, Active
<1>2. pc' = [pc EXCEPT ![w] = "releasing"] /\ Send(ManagerOf[w], "DEL", w, w)
  BY <1>1 DEF Finally
<1>3. pc[w] \notin {"acquiring", "releasing"}
  BY DEF InBody
<1>4. wire' \in [Managers -> Seq(Command)] /\ SendersWait' /\ OneCommandEach'
  BY <1>2, <1>3, SendKeepsWire
<1>5. OwnersKnown'
  BY <1>0, <1>2 DEF LockInv, OwnersKnown, Active, KeyOf
<1>6. QED
  BY <1>2, <1>4, <1>5

\* What the head of a wire says of its sender.
LEMMA HeadWaits ==
  ASSUME LockInv, NEW m \in Managers, wire[m] # <<>>
  PROVE  /\ Head(wire[m]) \in Command
         /\ Head(wire[m]).by \in Writers /\ Head(wire[m]).token \in Writers
         /\ ManagerOf[Head(wire[m]).by] = m
         /\ Waits(Head(wire[m]))
<1>1. wire[m] \in Seq(Command)
  BY DEF LockInv, TypeOK
<1>2. Head(wire[m]) = wire[m][1] /\ 1 \in 1..Len(wire[m]) /\ wire[m][1] \in Command
  BY <1>1, AnsweredWire
<1>3. QED
  BY <1>2 DEF LockInv, SendersWait, Command

\* What every step does, under the assumption that no write outlasts the TTL.
LEMMA LockInvStep ==
  ASSUME ~SlowWrites, LockInv, Decided, [Next]_vars
  PROVE  LockInv'
<1> USE MemoryAssumption
<1>0. /\ held \in [Stores \X Paths -> Writers \cup {None}]
      /\ tokens \in [Managers -> [Paths -> Writers \cup {None}]]
      /\ wire \in [Managers -> Seq(Command)]
      /\ file \in [Tenants \X Paths -> [there : BOOLEAN, has : SUBSET Writers]]
      /\ pc \in [Writers -> InBody \cup Finished \cup {"start", "acquiring", "releasing"}]
      /\ op \in [Writers -> Operations]
      /\ buf \in [Writers -> SUBSET Writers]
      /\ outcome \in [Writers -> Outcomes]
      /\ crashes \in Nat /\ faults \in Nat
  BY DEF LockInv, TypeOK
<1>key. \A w \in Writers : KeyOf(w) \in Stores \X Paths /\ FileOf(w) \in Tenants \X Paths
  BY DEF KeyOf, FileOf
<1>1. ASSUME NEW w \in Writers, Call(w) PROVE LockInv'
  <2>1. /\ pc[w] = "start" /\ pc' = [pc EXCEPT ![w] = "acquiring"]
        /\ Send(ManagerOf[w], "SET", w, w)
        /\ UNCHANGED <<held, tokens, file, buf, outcome, crashes, faults>>
    BY <1>1 DEF Call
  <2>2. wire' \in [Managers -> Seq(Command)] /\ SendersWait' /\ OneCommandEach'
    BY <2>1, SendKeepsWire
  <2>3. op' \in [Writers -> Operations]
    <3>1. PICK o \in OpsOf[w] : op' = [op EXCEPT ![w] = o]
      BY <1>1 DEF Call
    <3>2. o \in Operations
      BY <3>1 DEF Operations
    <3>3. QED
      BY <1>0, <3>1, <3>2
  <2>4. TypeOK'
    BY <1>0, <2>1, <2>2, <2>3 DEF TypeOK
  <2>5. OwnersKnown'
    BY <1>0, <2>1 DEF LockInv, OwnersKnown, Active, KeyOf, InBody
  <2>6. QED
    BY <2>2, <2>4, <2>5 DEF LockInv
<1>2. ASSUME NEW w \in Writers, CreateChecks(w) PROVE LockInv'
  <2>0. pc[w] \in InBody /\ UNCHANGED <<held, tokens, file, op, buf, crashes, faults>>
    BY <1>2 DEF CreateChecks, InBody
  <2>1. CASE file[FileOf(w)].there
    <3>1. Finally(w, "failed")
      BY <1>2, <2>1 DEF CreateChecks
    <3>2. /\ wire' \in [Managers -> Seq(Command)]
          /\ pc' = [pc EXCEPT ![w] = "releasing"]
          /\ OwnersKnown' /\ SendersWait' /\ OneCommandEach'
      BY <2>0, <3>1, FinallyStep
    <3>3. outcome' \in [Writers -> Outcomes]
      BY <1>0, <3>1 DEF Finally, Outcomes
    <3>4. TypeOK'
      BY <1>0, <2>0, <3>2, <3>3 DEF TypeOK
    <3>5. QED
      BY <3>2, <3>4 DEF LockInv
  <2>2. CASE ~file[FileOf(w)].there
    <3>1. pc' = [pc EXCEPT ![w] = "write"] /\ UNCHANGED <<lockVars, outcome>> /\ "write" \in InBody
      BY <1>2, <2>0, <2>2 DEF CreateChecks, lockVars, InBody
    <3>2. OwnersKnown' /\ SendersWait' /\ OneCommandEach'
      BY <2>0, <3>1, BodyStep
    <3>3. TypeOK'
      BY <1>0, <2>0, <3>1 DEF TypeOK, lockVars
    <3>4. QED
      BY <3>2, <3>3 DEF LockInv
  <2>3. QED
    BY <2>1, <2>2
<1>3. ASSUME NEW w \in Writers, UpdateReads(w) PROVE LockInv'
  <2>0. pc[w] \in InBody /\ UNCHANGED <<held, tokens, file, op, crashes, faults>>
    BY <1>3 DEF UpdateReads, InBody
  <2>1. CASE ~file[FileOf(w)].there
    <3>1. Finally(w, "failed") /\ UNCHANGED buf
      BY <1>3, <2>1 DEF UpdateReads
    <3>2. /\ wire' \in [Managers -> Seq(Command)]
          /\ pc' = [pc EXCEPT ![w] = "releasing"]
          /\ OwnersKnown' /\ SendersWait' /\ OneCommandEach'
      BY <2>0, <3>1, FinallyStep
    <3>3. outcome' \in [Writers -> Outcomes]
      BY <1>0, <3>1 DEF Finally, Outcomes
    <3>4. TypeOK'
      BY <1>0, <2>0, <3>1, <3>2, <3>3 DEF TypeOK
    <3>5. QED
      BY <3>2, <3>4 DEF LockInv
  <2>2. CASE file[FileOf(w)].there
    <3>1. pc' = [pc EXCEPT ![w] = "write"] /\ UNCHANGED <<lockVars, outcome>> /\ "write" \in InBody
      BY <1>3, <2>0, <2>2 DEF UpdateReads, lockVars, InBody
    <3>2. OwnersKnown' /\ SendersWait' /\ OneCommandEach'
      BY <2>0, <3>1, BodyStep
    <3>3. buf' \in [Writers -> SUBSET Writers]
      BY <1>0, <1>3, <1>key, <2>2 DEF UpdateReads
    <3>4. TypeOK'
      BY <1>0, <2>0, <3>1, <3>3 DEF TypeOK, lockVars
    <3>5. QED
      BY <3>2, <3>4 DEF LockInv
  <2>3. QED
    BY <2>1, <2>2
<1>4. ASSUME NEW w \in Writers, Truncate(w) \/ Fill(w) \/ AppendEntry(w) PROVE LockInv'
  <2>1. PICK to \in InBody : pc' = [pc EXCEPT ![w] = to]
    BY <1>4 DEF Truncate, Fill, AppendEntry, InBody
  <2>2. pc[w] \in InBody /\ UNCHANGED <<lockVars, op, buf, outcome, crashes, faults>>
    BY <1>4 DEF Truncate, Fill, AppendEntry, InBody
  <2>3. OwnersKnown' /\ SendersWait' /\ OneCommandEach'
    BY <2>1, <2>2, BodyStep
  <2>4. file' \in [Tenants \X Paths -> [there : BOOLEAN, has : SUBSET Writers]]
    <3>1. CASE Truncate(w)
      BY <3>1, <1>0, <1>key DEF Truncate
    <3>2. CASE Fill(w)
      <4>1. buf[w] \cup {w} \in SUBSET Writers /\ FileOf(w) \in Tenants \X Paths
        BY <1>0, <1>key
      <4>2. file' = [file EXCEPT ![FileOf(w)].has = buf[w] \cup {w}]
        BY <3>2 DEF Fill
      <4>3. file[FileOf(w)] \in [there : BOOLEAN, has : SUBSET Writers]
        BY <1>0, <4>1
      <4>4. \A r \in [there : BOOLEAN, has : SUBSET Writers], x \in SUBSET Writers :
              [r EXCEPT !.has = x] \in [there : BOOLEAN, has : SUBSET Writers]
        OBVIOUS
      <4>5. [file[FileOf(w)] EXCEPT !.has = buf[w] \cup {w}]
               \in [there : BOOLEAN, has : SUBSET Writers]
        BY <4>1, <4>3, <4>4
      <4>6. QED
        BY <1>0, <4>2, <4>5
    <3>3. CASE AppendEntry(w)
      BY <3>3, <1>0, <1>key DEF AppendEntry
    <3>4. QED
      BY <1>4, <3>1, <3>2, <3>3
  <2>5. TypeOK'
    BY <1>0, <2>1, <2>2, <2>4 DEF TypeOK, lockVars
  <2>6. QED
    BY <2>3, <2>5 DEF LockInv
<1>5. ASSUME NEW w \in Writers, StatReturns(w) PROVE LockInv'
  <2>1. /\ pc[w] \in InBody /\ Finally(w, "ok")
        /\ UNCHANGED <<held, tokens, file, op, buf, crashes, faults>>
    BY <1>5 DEF StatReturns, InBody
  <2>2. /\ wire' \in [Managers -> Seq(Command)]
        /\ pc' = [pc EXCEPT ![w] = "releasing"]
        /\ OwnersKnown' /\ SendersWait' /\ OneCommandEach'
    BY <2>1, FinallyStep
  <2>3. outcome' \in [Writers -> Outcomes]
    BY <1>0, <2>1 DEF Finally, Outcomes
  <2>4. TypeOK'
    BY <1>0, <2>1, <2>2, <2>3 DEF TypeOK
  <2>5. QED
    BY <2>2, <2>4 DEF LockInv
<1>6. ASSUME NEW m \in Managers, SetReply(m) PROVE LockInv'
  <2> DEFINE w == Head(wire[m]).by
  <2>0. /\ wire[m] # <<>> /\ w \in Writers /\ ManagerOf[w] = m
        /\ pc[w] = "acquiring"
    BY <1>6, HeadWaits DEF SetReply, Waits
  <2>1. UNCHANGED <<file, op, buf, outcome, crashes, faults>>
        /\ wire' = [wire EXCEPT ![m] = Tail(@)]
    BY <1>6 DEF SetReply
  <2>2. CASE /\ held[KeyOf(w)] = None
             /\ held' = [held EXCEPT ![KeyOf(w)] = w]
             /\ tokens' = [tokens EXCEPT ![m][PathOf[w]] = w]
             /\ pc' = [pc EXCEPT ![w] = "locked"]
    <3>1. wire' \in [Managers -> Seq(Command)] /\ SendersWait' /\ OneCommandEach'
      BY <2>0, <2>1, <2>2, AnswerKeepsWire
    <3>2. TypeOK'
      BY <1>0, <1>key, <2>0, <2>1, <2>2, <3>1 DEF TypeOK, InBody
    <3>3. ASSUME NEW v \in Writers, Active(v)'
          PROVE  held'[KeyOf(v)] = v /\ tokens'[ManagerOf[v]][PathOf[v]] = v
      <4>1. CASE v = w
        BY <4>1, <1>0, <1>key, <2>0, <2>2
      <4>2. CASE v # w
        <5>1. Active(v)
          BY <3>3, <4>2, <1>0, <2>2 DEF Active
        <5>2. held[KeyOf(v)] = v /\ tokens[ManagerOf[v]][PathOf[v]] = v /\ v # None
          BY <5>1 DEF LockInv, OwnersKnown
        <5>3. KeyOf(v) # KeyOf(w)
          BY <5>2, <2>2
        <5>4. ManagerOf[v] # m \/ PathOf[v] # PathOf[w]
          BY <5>3, <2>0 DEF KeyOf
        <5>5. held'[KeyOf(v)] = v
          BY <1>0, <1>key, <2>2, <5>2, <5>3
        <5>6. tokens'[ManagerOf[v]][PathOf[v]] = v
          BY <1>0, <2>2, <5>2, <5>4
        <5>7. QED
          BY <5>5, <5>6
      <4>3. QED
        BY <4>1, <4>2
    <3>4. OwnersKnown'
      BY <3>3 DEF OwnersKnown, KeyOf
    <3>5. QED
      BY <3>1, <3>2, <3>4 DEF LockInv
  <2>3. CASE /\ held[KeyOf(w)] # None
             /\ pc' = [pc EXCEPT ![w] = "failed"]
             /\ UNCHANGED <<held, tokens>>
    <3>1. wire' \in [Managers -> Seq(Command)] /\ SendersWait' /\ OneCommandEach'
      BY <2>0, <2>1, <2>3, AnswerKeepsWire
    <3>2. TypeOK'
      BY <1>0, <1>key, <2>0, <2>1, <2>3, <3>1 DEF TypeOK, Finished
    <3>3. OwnersKnown'
      BY <1>0, <2>0, <2>3 DEF LockInv, OwnersKnown, Active, KeyOf, InBody
    <3>4. QED
      BY <3>1, <3>2, <3>3 DEF LockInv
  <2>4. QED
    BY <1>6, <2>2, <2>3 DEF SetReply
<1>7. ASSUME NEW m \in Managers, DelReply(m) PROVE LockInv'
  <2> DEFINE w == Head(wire[m]).by
  <2>0. /\ wire[m] # <<>> /\ w \in Writers /\ ManagerOf[w] = m
        /\ pc[w] = "releasing" /\ Head(wire[m]).token = w
    BY <1>7, HeadWaits DEF DelReply, Waits
  <2>1. /\ UNCHANGED <<file, op, buf, outcome, crashes, faults>>
        /\ wire' = [wire EXCEPT ![m] = Tail(@)]
        /\ pc' = [pc EXCEPT ![w] = outcome[w]]
        /\ tokens' = [tokens EXCEPT ![m][PathOf[w]] = None]
    BY <1>7 DEF DelReply
  <2>2. held' = [held EXCEPT ![KeyOf(w)] = IF @ = w THEN None ELSE @]
    BY <1>7, <2>0 DEF DelReply
  <2>3. outcome[w] \in {"ok", "failed"} /\ held[KeyOf(w)] = w
    BY <2>0 DEF Decided, LockInv, OwnersKnown, Active
  <2>4. wire' \in [Managers -> Seq(Command)] /\ SendersWait' /\ OneCommandEach'
    BY <2>0, <2>1, AnswerKeepsWire
  <2>5. TypeOK'
    <3>1. pc' \in [Writers -> InBody \cup Finished \cup {"start", "acquiring", "releasing"}]
      BY <1>0, <2>1, <2>3 DEF Finished
    <3>2. held' \in [Stores \X Paths -> Writers \cup {None}]
      BY <1>0, <2>2
    <3>3. tokens' \in [Managers -> [Paths -> Writers \cup {None}]]
      BY <1>0, <2>1
    <3>4. QED
      BY <1>0, <2>1, <2>4, <3>1, <3>2, <3>3 DEF TypeOK
  <2>6. ASSUME NEW v \in Writers, Active(v)'
        PROVE  held'[KeyOf(v)] = v /\ tokens'[ManagerOf[v]][PathOf[v]] = v
    <3>1. v # w /\ Active(v)
      BY <2>6, <1>0, <2>1, <2>3 DEF Active, InBody
    <3>2. held[KeyOf(v)] = v /\ tokens[ManagerOf[v]][PathOf[v]] = v
      BY <3>1 DEF LockInv, OwnersKnown
    <3>3. KeyOf(v) # KeyOf(w)
      BY <3>1, <3>2, <2>3
    <3>4. ManagerOf[v] # m \/ PathOf[v] # PathOf[w]
      BY <3>3, <2>0 DEF KeyOf
    <3>5. held'[KeyOf(v)] = v
      BY <1>0, <1>key, <2>2, <3>2, <3>3
    <3>6. tokens'[ManagerOf[v]][PathOf[v]] = v
      BY <1>0, <2>1, <3>2, <3>4
    <3>7. QED
      BY <3>5, <3>6
  <2>7. OwnersKnown'
    BY <2>6 DEF OwnersKnown, KeyOf
  <2>8. QED
    BY <2>4, <2>5, <2>7 DEF LockInv
<1>8. ASSUME NEW m \in Managers, CommandFails(m) PROVE LockInv'
  <2> DEFINE c == Head(wire[m])
             to == IF c.cmd = "SET" THEN "failed" ELSE "thrown"
  <2>0. /\ wire[m] # <<>> /\ c.by \in Writers /\ ManagerOf[c.by] = m
        /\ c \in Command /\ Waits(c)
    BY <1>8, HeadWaits DEF CommandFails
  <2>1. /\ UNCHANGED <<tokens, file, op, buf, outcome, crashes>>
        /\ wire' = [wire EXCEPT ![m] = Tail(@)]
        /\ pc' = [pc EXCEPT ![c.by] = to]
        /\ faults' = faults + 1
    BY <1>8 DEF CommandFails
  <2>2. \/ UNCHANGED held
        \/ held[KeyOf(c.by)] \in {None, c.by} /\ \E t \in {None, c.by} : held' = [held EXCEPT ![KeyOf(c.by)] = t]
    BY <1>8, <2>0 DEF CommandFails, Waits, Command
  <2>3. wire' \in [Managers -> Seq(Command)] /\ SendersWait' /\ OneCommandEach'
    BY <2>0, <2>1, AnswerKeepsWire
  <2>4. TypeOK'
    <3>1. held' \in [Stores \X Paths -> Writers \cup {None}]
      BY <1>0, <2>0, <2>2
    <3>2. pc' \in [Writers -> InBody \cup Finished \cup {"start", "acquiring", "releasing"}]
      BY <1>0, <2>0, <2>1 DEF Finished
    <3>3. faults' \in Nat
      BY <1>0, <2>1
    <3>4. QED
      BY <1>0, <2>1, <2>3, <3>1, <3>2, <3>3 DEF TypeOK
  <2>5. ASSUME NEW v \in Writers, Active(v)'
        PROVE  held'[KeyOf(v)] = v /\ tokens'[ManagerOf[v]][PathOf[v]] = v
    <3>1. v # c.by /\ Active(v)
      BY <2>5, <1>0, <2>0, <2>1 DEF Active, InBody
    <3>2. held[KeyOf(v)] = v /\ tokens[ManagerOf[v]][PathOf[v]] = v
      BY <3>1 DEF LockInv, OwnersKnown
    <3>3. held'[KeyOf(v)] = v
      BY <1>0, <1>key, <2>0, <2>2, <3>1, <3>2
    <3>4. QED
      BY <2>1, <3>2, <3>3
  <2>6. OwnersKnown'
    BY <2>5 DEF OwnersKnown, KeyOf
  <2>7. QED
    BY <2>3, <2>4, <2>6 DEF LockInv
<1>9. ASSUME NEW m \in Managers, Crash(m) PROVE LockInv'
  <2>1. /\ UNCHANGED <<held, file, op, buf, outcome, faults>>
        /\ crashes' = crashes + 1
        /\ tokens' = [tokens EXCEPT ![m] = [p \in Paths |-> None]]
        /\ wire' = [wire EXCEPT ![m] = <<>>]
        /\ pc' = [w \in Writers |->
             IF ManagerOf[w] = m /\ pc[w] \notin Finished \cup {"start"} THEN "dead" ELSE pc[w]]
    BY <1>9 DEF Crash
  <2>2. wire' \in [Managers -> Seq(Command)]
    BY <1>0, <2>1, EmptySeq
  <2>3. wire'[m] = <<>> /\ \A n \in Managers : n # m => wire'[n] = wire[n]
    BY <1>0, <2>1
  <2>4. TypeOK'
    <3>1. pc' \in [Writers -> InBody \cup Finished \cup {"start", "acquiring", "releasing"}]
      BY <1>0, <2>1 DEF Finished
    <3>2. tokens' \in [Managers -> [Paths -> Writers \cup {None}]] /\ crashes' \in Nat
      BY <1>0, <2>1
    <3>3. QED
      BY <1>0, <2>1, <2>2, <3>1, <3>2 DEF TypeOK
  <2>5. ASSUME NEW v \in Writers, Active(v)'
        PROVE  held'[KeyOf(v)] = v /\ tokens'[ManagerOf[v]][PathOf[v]] = v
    <3>1. ManagerOf[v] # m /\ Active(v)
      BY <2>5, <1>0, <2>1 DEF Active, InBody, Finished
    <3>2. QED
      BY <3>1, <1>0, <2>1 DEF LockInv, OwnersKnown
  <2>6. OwnersKnown'
    BY <2>5 DEF OwnersKnown, KeyOf
  <2>7. SendersWait'
    <3> SUFFICES ASSUME NEW n \in Managers, NEW i \in 1..Len(wire'[n])
                 PROVE  ManagerOf[wire'[n][i].by] = n /\ Waits(wire[n][i])'
      BY DEF SendersWait
    <3>1. n # m
      BY <2>3, EmptySeq
    <3>2. wire'[n] = wire[n]
      BY <3>1, <2>3
    <3>3. ManagerOf[wire[n][i].by] = n /\ Waits(wire[n][i]) /\ wire[n][i].by \in Writers
      <4>1. wire[n][i] \in Command
        BY <1>0, <3>2
      <4>2. QED
        BY <4>1, <3>2 DEF LockInv, SendersWait, Command
    <3>4. pc'[wire[n][i].by] = pc[wire[n][i].by]
      BY <2>1, <3>1, <3>3
    <3>5. QED
      BY <3>2, <3>3, <3>4 DEF Waits
  <2>8. OneCommandEach'
    <3> SUFFICES ASSUME NEW n \in Managers, NEW i \in 1..Len(wire'[n]),
                        NEW j \in 1..Len(wire'[n]), wire'[n][i].by = wire'[n][j].by
                 PROVE  i = j
      BY DEF OneCommandEach
    <3>1. wire'[n] = wire[n]
      BY <2>3, EmptySeq
    <3>2. QED
      BY <3>1 DEF LockInv, OneCommandEach
  <2>9. QED
    BY <2>4, <2>6, <2>7, <2>8 DEF LockInv
<1>10. ASSUME NEW k \in Stores \X Paths, Expire(k) PROVE LockInv'
  <2>1. /\ held[k] # None /\ ~Active(held[k])
        /\ held' = [held EXCEPT ![k] = None]
        /\ UNCHANGED <<tokens, wire, file, pc, op, buf, outcome, crashes, faults>>
    BY <1>10 DEF Expire, writerVars
  <2>2. TypeOK'
    BY <1>0, <2>1 DEF TypeOK
  <2>3. OwnersKnown'
    BY <1>0, <1>key, <2>1 DEF LockInv, OwnersKnown, Active, KeyOf
  <2>4. SendersWait' /\ OneCommandEach'
    BY <2>1 DEF LockInv, SendersWait, OneCommandEach, Waits
  <2>5. QED
    BY <2>2, <2>3, <2>4 DEF LockInv
<1>11. CASE UNCHANGED vars
  <2>1. TypeOK'
    BY <1>0, <1>11 DEF TypeOK, vars, lockVars, writerVars
  <2>2. OwnersKnown' /\ SendersWait' /\ OneCommandEach'
    BY <1>11 DEF LockInv, OwnersKnown, SendersWait, OneCommandEach, Waits, Active, KeyOf,
                 vars, lockVars, writerVars
  <2>3. QED
    BY <2>1, <2>2 DEF LockInv
<1>12. QED
  BY <1>1, <1>2, <1>3, <1>4, <1>5, <1>6, <1>7, <1>8, <1>9, <1>10, <1>11
     DEF Next, Step, Reply

LEMMA DecidedStep == ASSUME TypeOK, Decided, [Next]_vars PROVE Decided'
<1>0. /\ outcome \in [Writers -> Outcomes]
      /\ pc \in [Writers -> InBody \cup Finished \cup {"start", "acquiring", "releasing"}]
  BY DEF TypeOK
<1>1. ASSUME NEW w \in Writers, NEW result \in {"ok", "failed"}, Finally(w, result)
      PROVE  Decided'
  BY <1>0, <1>1 DEF Finally, Decided
<1>2. ASSUME NEW w \in Writers, NEW to, to # "releasing", pc' = [pc EXCEPT ![w] = to],
             UNCHANGED outcome
      PROVE  Decided'
  BY <1>0, <1>2 DEF Decided
<1>3. ASSUME NEW w \in Writers, Step(w) PROVE Decided'
  BY <1>1, <1>2, <1>3 DEF Step, CreateChecks, UpdateReads, Truncate, Fill,
                          AppendEntry, StatReturns
<1>4. ASSUME NEW w \in Writers, Call(w) PROVE Decided'
  BY <1>2, <1>4 DEF Call
<1>5. ASSUME NEW m \in Managers, Reply(m) PROVE Decided'
  BY <1>0, <1>5 DEF Reply, SetReply, DelReply, CommandFails, Decided, Outcomes
<1>6. ASSUME NEW m \in Managers, Crash(m) PROVE Decided'
  BY <1>0, <1>6 DEF Crash, Decided
<1>7. CASE UNCHANGED vars \/ \E k \in Stores \X Paths : Expire(k)
  BY <1>7 DEF Expire, Decided, vars, writerVars
<1>8. QED
  BY <1>3, <1>4, <1>5, <1>6, <1>7 DEF Next

LEMMA LockInvInit == Init => LockInv /\ Decided
<1> SUFFICES ASSUME Init PROVE LockInv /\ Decided
  OBVIOUS
<1>1. TypeOK
  <2>1. file \in [Tenants \X Paths -> [there : BOOLEAN, has : SUBSET Writers]]
    BY DEF Init
  <2>2. /\ pc \in [Writers -> InBody \cup Finished \cup {"start", "acquiring", "releasing"}]
        /\ op \in [Writers -> Operations] /\ buf \in [Writers -> SUBSET Writers]
        /\ outcome \in [Writers -> Outcomes]
    BY DEF Init, Operations, Outcomes
  <2>3. /\ held \in [Stores \X Paths -> Writers \cup {None}]
        /\ tokens \in [Managers -> [Paths -> Writers \cup {None}]]
    BY DEF Init
  <2>4. wire \in [Managers -> Seq(Command)]
    BY EmptySeq DEF Init
  <2>5. crashes \in Nat /\ faults \in Nat
    BY DEF Init
  <2>6. QED
    BY <2>1, <2>2, <2>3, <2>4, <2>5 DEF TypeOK
<1>2. OwnersKnown /\ Decided
  BY DEF Init, OwnersKnown, Active, InBody, Decided
<1>3. SendersWait /\ OneCommandEach
  BY EmptySeq DEF Init, SendersWait, OneCommandEach
<1>4. QED
  BY <1>1, <1>2, <1>3 DEF LockInv

LEMMA LockInvHolds == ASSUME ~SlowWrites PROVE Spec => [](LockInv /\ Decided)
<1>1. LockInv /\ Decided /\ [Next]_vars => (LockInv /\ Decided)'
  BY LockInvStep, DecidedStep DEF LockInv
<1>2. QED
  BY LockInvInit, <1>1, PTL DEF Spec

\* Managers of one tenant keep their locks in one store.
TenantsShareStore ==
  \A m, n \in Managers : TenantOf[m] = TenantOf[n] => StoreOf[m] = StoreOf[n]

\* No two calls of write() are in their bodies on one file, if no write
\* outlasts the TTL and the managers of a tenant share their lock store.
THEOREM Exclusion ==
  ASSUME ~SlowWrites, TenantsShareStore
  PROVE  Spec => []OneWriterPerFile
<1>1. ASSUME LockInv PROVE OneWriterPerFile
  <2> SUFFICES ASSUME NEW v \in Writers, NEW w \in Writers, v # w,
                      pc[v] \in InBody, pc[w] \in InBody, FileOf(v) = FileOf(w)
               PROVE  FALSE
    BY DEF OneWriterPerFile
  <2>1. held[KeyOf(v)] = v /\ held[KeyOf(w)] = w
    BY <1>1 DEF LockInv, OwnersKnown, Active
  <2>2. TenantOf[ManagerOf[v]] = TenantOf[ManagerOf[w]] /\ PathOf[v] = PathOf[w]
    BY DEF FileOf
  <2>3. KeyOf(v) = KeyOf(w)
    BY <2>2, MemoryAssumption DEF KeyOf, TenantsShareStore
  <2>4. QED
    BY <2>1, <2>3
<1>2. QED
  BY <1>1, LockInvHolds, PTL

\* A delete script removes only the lock of the writer that sent it, if no
\* write outlasts the TTL.
THEOREM OwnersRelease ==
  ASSUME ~SlowWrites
  PROVE  Spec => OnlyOwnerReleases
<1>1. ASSUME LockInv
      PROVE  \A m \in Managers, k \in Stores \X Paths :
               DelReply(m) /\ held'[k] # held[k] => held[k] = Head(wire[m]).by
  <2> SUFFICES ASSUME NEW m \in Managers, NEW k \in Stores \X Paths,
                      DelReply(m), held'[k] # held[k]
               PROVE  held[k] = Head(wire[m]).by
    OBVIOUS
  <2>1. wire[m] # <<>> /\ Head(wire[m]).token = Head(wire[m]).by
    BY <1>1, HeadWaits DEF DelReply, Waits
  <2>2. held \in [Stores \X Paths -> Writers \cup {None}]
    BY <1>1 DEF LockInv, TypeOK
  <2>3. QED
    BY <2>1, <2>2 DEF DelReply
<1>2. QED
  BY <1>1, LockInvHolds, PTL DEF OnlyOwnerReleases

\* What has been reported as written, or is about to be.
Reported(w) == outcome[w] = "ok" \/ pc[w] \in {"stat", "ok"}

\* While no process has died: a rewrite in hand holds all that is in the file, a
\* file is empty while it is rewritten, and what is reported is in one of them.
KeptInv ==
  /\ \A f \in Tenants \X Paths : ~file[f].there => file[f].has = {}
  /\ \A w \in Writers : pc[w] = "fill" => file[FileOf(w)].there
  /\ crashes = 0 =>
       \A w \in Writers :
         /\ pc[w] = "write" => file[FileOf(w)].has \subseteq buf[w]
         /\ pc[w] = "fill" => file[FileOf(w)].has = {}
         /\ Reported(w) => \/ w \in file[FileOf(w)].has
                           \/ \E v \in Writers : pc[v] = "fill" /\ FileOf(v) = FileOf(w) /\ w \in buf[v]

\* A step that neither touches a file nor a buffer.
LEMMA QuietStep ==
  ASSUME KeptInv, UNCHANGED <<file, buf, crashes>>,
         \A w \in Writers : /\ pc'[w] = "write" => file[FileOf(w)].has \subseteq buf[w] \/ pc[w] = "write"
                            /\ pc'[w] = "fill" <=> pc[w] = "fill"
                            /\ Reported(w)' => Reported(w)
  PROVE  KeptInv'
BY DEF KeptInv, FileOf

LEMMA KeptStep ==
  ASSUME LockInv, OneWriterPerFile, KeptInv, [Next]_vars
  PROVE  KeptInv'
<1> USE MemoryAssumption
<1>0. /\ file \in [Tenants \X Paths -> [there : BOOLEAN, has : SUBSET Writers]]
      /\ pc \in [Writers -> InBody \cup Finished \cup {"start", "acquiring", "releasing"}]
      /\ buf \in [Writers -> SUBSET Writers]
      /\ outcome \in [Writers -> Outcomes]
      /\ crashes \in Nat
  BY DEF LockInv, TypeOK
<1>f. \A w \in Writers : FileOf(w) \in Tenants \X Paths /\ FileOf(w)' = FileOf(w)
  BY DEF FileOf
<1>e. \A v, w \in Writers : v # w /\ pc[v] \in InBody /\ pc[w] \in InBody => FileOf(v) # FileOf(w)
  BY DEF OneWriterPerFile
<1>1. ASSUME NEW w \in Writers, Call(w) PROVE KeptInv'
  <2>1. /\ pc[w] = "start" /\ pc' = [pc EXCEPT ![w] = "acquiring"]
        /\ UNCHANGED <<file, buf, outcome, crashes>>
    BY <1>1 DEF Call
  <2> QED BY <1>0, <2>1, QuietStep DEF Reported
<1>2. ASSUME NEW w \in Writers, NEW result \in {"ok", "failed"}, Finally(w, result),
             pc[w] \in {"locked", "stat"}, result = "ok" => pc[w] = "stat",
             UNCHANGED <<file, buf, crashes>>
      PROVE  KeptInv'
  <2>1. outcome' = [outcome EXCEPT ![w] = result]
    BY <1>2 DEF Finally
  <2>2. pc' = [pc EXCEPT ![w] = result] \/ pc' = [pc EXCEPT ![w] = "releasing"]
    BY <1>2 DEF Finally
  <2> QED BY <1>0, <1>2, <2>1, <2>2, QuietStep DEF Reported
<1>3. ASSUME NEW w \in Writers, CreateChecks(w) PROVE KeptInv'
  <2>1. CASE file[FileOf(w)].there
    <3>1. Finally(w, "failed") /\ pc[w] = "locked" /\ UNCHANGED <<file, buf, crashes>>
      BY <1>3, <2>1 DEF CreateChecks
    <3> QED BY <3>1, <1>2
  <2>2. CASE ~file[FileOf(w)].there
    <3>1. /\ pc' = [pc EXCEPT ![w] = "write"] /\ pc[w] = "locked"
          /\ UNCHANGED <<file, buf, outcome, crashes>>
      BY <1>3, <2>2 DEF CreateChecks
    <3>2. file[FileOf(w)].has = {}
      BY <1>f, <2>2 DEF KeptInv
    <3> QED BY <1>0, <3>1, <3>2, QuietStep DEF Reported
  <2> QED BY <2>1, <2>2
<1>4. ASSUME NEW w \in Writers, UpdateReads(w) PROVE KeptInv'
  <2>1. CASE ~file[FileOf(w)].there
    <3>1. Finally(w, "failed") /\ pc[w] = "locked" /\ UNCHANGED <<file, buf, crashes>>
      BY <1>4, <2>1 DEF UpdateReads
    <3> QED BY <3>1, <1>2
  <2>2. CASE file[FileOf(w)].there
    <3>1. /\ pc' = [pc EXCEPT ![w] = "write"] /\ pc[w] = "locked"
          /\ buf' = [buf EXCEPT ![w] = file[FileOf(w)].has]
          /\ UNCHANGED <<file, outcome, crashes>>
      BY <1>4, <2>2 DEF UpdateReads
    <3>2. \A v \in Writers : v # w => pc'[v] = pc[v] /\ buf'[v] = buf[v]
      BY <1>0, <3>1
    <3>3. pc'[w] = "write" /\ buf'[w] = file[FileOf(w)].has
      BY <1>0, <3>1
    <3>4. \A v \in Writers : Reported(v)' => Reported(v)
      BY <3>1, <3>2, <3>3 DEF Reported
    <3> QED BY <1>f, <3>1, <3>2, <3>3, <3>4 DEF KeptInv
  <2> QED BY <2>1, <2>2
<1>5. ASSUME NEW w \in Writers, Truncate(w) PROVE KeptInv'
  <2>1. /\ pc[w] = "write" /\ pc' = [pc EXCEPT ![w] = "fill"]
        /\ file' = [file EXCEPT ![FileOf(w)] = [there |-> TRUE, has |-> {}]]
        /\ UNCHANGED <<buf, outcome, crashes>>
    BY <1>5 DEF Truncate
  <2>2. /\ \A v \in Writers : v # w => pc'[v] = pc[v]
        /\ pc'[w] = "fill"
        /\ file'[FileOf(w)].there /\ file'[FileOf(w)].has = {}
        /\ \A f \in Tenants \X Paths : f # FileOf(w) => file'[f] = file[f]
    BY <1>0, <1>f, <2>1
  <2>3. \A v \in Writers : Reported(v)' => Reported(v)
    BY <2>1, <2>2 DEF Reported
  <2>4. \A v \in Writers : v # w /\ pc[v] \in {"write", "fill"} => FileOf(v) # FileOf(w)
    BY <1>e, <2>1 DEF InBody
  <2> QED BY <1>f, <2>1, <2>2, <2>3, <2>4 DEF KeptInv
<1>6. ASSUME NEW w \in Writers, Fill(w) PROVE KeptInv'
  <2>1. /\ pc[w] = "fill" /\ pc' = [pc EXCEPT ![w] = "stat"]
        /\ file' = [file EXCEPT ![FileOf(w)].has = buf[w] \cup {w}]
        /\ UNCHANGED <<buf, outcome, crashes>>
    BY <1>6 DEF Fill
  <2>2. /\ \A v \in Writers : v # w => pc'[v] = pc[v]
        /\ pc'[w] = "stat"
        /\ file'[FileOf(w)].there = file[FileOf(w)].there
        /\ file'[FileOf(w)].has = buf[w] \cup {w}
        /\ \A f \in Tenants \X Paths : f # FileOf(w) => file'[f] = file[f]
    BY <1>0, <1>f, <2>1
  <2>3. \A v \in Writers : v # w /\ Reported(v)' => Reported(v)
    BY <2>1, <2>2 DEF Reported
  <2>4. \A v \in Writers : v # w /\ pc[v] \in {"write", "fill"} => FileOf(v) # FileOf(w)
    BY <1>e, <2>1 DEF InBody
  <2>5. file[FileOf(w)].there
    BY <2>1 DEF KeptInv
  <2> QED BY <1>f, <2>1, <2>2, <2>3, <2>4, <2>5 DEF KeptInv
<1>7. ASSUME NEW w \in Writers, AppendEntry(w) PROVE KeptInv'
  <2>1. /\ pc[w] = "locked" /\ pc' = [pc EXCEPT ![w] = "stat"]
        /\ file' = [file EXCEPT ![FileOf(w)] = [there |-> TRUE, has |-> @.has \cup {w}]]
        /\ UNCHANGED <<buf, outcome, crashes>>
    BY <1>7 DEF AppendEntry
  <2>2. /\ \A v \in Writers : v # w => pc'[v] = pc[v]
        /\ pc'[w] = "stat"
        /\ file'[FileOf(w)].there
        /\ file'[FileOf(w)].has = file[FileOf(w)].has \cup {w}
        /\ \A f \in Tenants \X Paths : f # FileOf(w) => file'[f] = file[f]
    BY <1>0, <1>f, <2>1
  <2>3. \A v \in Writers : v # w /\ Reported(v)' => Reported(v)
    BY <2>1, <2>2 DEF Reported
  <2>4. \A v \in Writers : v # w /\ pc[v] \in {"write", "fill"} => FileOf(v) # FileOf(w)
    BY <1>e, <2>1 DEF InBody
  <2> QED BY <1>f, <2>1, <2>2, <2>3, <2>4 DEF KeptInv
<1>8. ASSUME NEW w \in Writers, StatReturns(w) PROVE KeptInv'
  BY <1>2, <1>8 DEF StatReturns
<1>9. ASSUME NEW m \in Managers, Reply(m) PROVE KeptInv'
  <2> DEFINE w == Head(wire[m]).by
  <2>1. wire[m] # <<>> /\ UNCHANGED <<file, buf, outcome, crashes>>
    BY <1>9 DEF Reply, SetReply, DelReply, CommandFails
  <2>2. w \in Writers /\ pc[w] \in {"acquiring", "releasing"}
    BY <2>1, HeadWaits DEF Waits
  <2>3. \E to \in {"locked", "failed", "thrown", outcome[w]} : pc' = [pc EXCEPT ![w] = to]
    BY <1>9 DEF Reply, SetReply, DelReply, CommandFails
  <2>4. outcome[w] \in {"none", "ok", "failed"}
    BY <1>0, <2>2 DEF Outcomes
  <2> HIDE DEF w
  <2> QED BY <1>0, <2>1, <2>2, <2>3, <2>4, QuietStep DEF Reported
<1>10. ASSUME NEW m \in Managers, Crash(m) PROVE KeptInv'
  <2>1. crashes' # 0 /\ UNCHANGED file
    BY <1>0, <1>10 DEF Crash
  <2>2. \A w \in Writers : pc'[w] = "fill" => pc[w] = "fill"
    BY <1>10 DEF Crash
  <2> QED BY <1>f, <2>1, <2>2 DEF KeptInv
<1>11. CASE UNCHANGED vars \/ \E k \in Stores \X Paths : Expire(k)
  <2>1. UNCHANGED <<file, buf, pc, outcome, crashes>>
    BY <1>11 DEF Expire, vars, writerVars
  <2> QED BY <2>1, QuietStep DEF Reported
<1>12. QED
  BY <1>1, <1>3, <1>4, <1>5, <1>6, <1>7, <1>8, <1>9, <1>10, <1>11 DEF Next, Step

\* What write() reported as written is in the file, or in the buffer of the call
\* that is rewriting it now, if no write outlasts the TTL, the managers of a
\* tenant share their lock store and no process has died.
THEOREM ReportedAreKept ==
  ASSUME ~SlowWrites, TenantsShareStore
  PROVE  Spec => []ReportedWritesKept
<1>1. Init => KeptInv
  BY DEF Init, KeptInv, Reported
<1>2. KeptInv => ReportedWritesKept
  BY DEF KeptInv, Reported, ReportedWritesKept
<1>3. LockInv /\ OneWriterPerFile /\ KeptInv /\ [Next]_vars => KeptInv'
  BY KeptStep
<1>4. QED
  BY <1>1, <1>2, <1>3, LockInvHolds, Exclusion, PTL DEF Spec

(***************************************************************************)
(* Contacts.  What was noted outside of every open check is in the file    *)
(* and no post is about to write that file; a post that says "created" has *)
(* its row.                                                                *)
(***************************************************************************)
ContactSpec == ContactInit /\ [][ContactNext]_contactVars

PostSteps == {"idle", "asked", "write", "row", "created", "failed"}
PostRecords == [who : People \cup {Nobody}, step : PostSteps]
ContactType ==
  /\ post \in [Posts -> PostRecords]
  /\ todo \in [Drains -> SUBSET People]
  /\ pending \subseteq People
  /\ contactFile \in [People -> SUBSET {"profile", "note"}]
  /\ rows \in [People -> Nat]
  /\ noted \in [People -> BOOLEAN]
IdleOnlyForNobody == \A h \in Posts : post[h].who = Nobody <=> post[h].step = "idle"
NotedIsKept ==
  \A p \in People : noted[p] =>
    /\ "note" \in contactFile[p]
    /\ \A h \in Posts : ~(post[h].who = p /\ post[h].step = "write")
CreatedHasItsRow == \A h \in Posts : post[h].step = "created" => rows[post[h].who] > 0
ContactInv == ContactType /\ IdleOnlyForNobody /\ NotedIsKept /\ CreatedHasItsRow

LEMMA ContactStart == ContactInit => ContactInv
BY PeopleAssumption DEF ContactInit, ContactInv, ContactType, IdleOnlyForNobody, NotedIsKept,
  CreatedHasItsRow, PostRecords, PostSteps, NoPost

\* A step of one post that leaves the server alone.
LEMMA OnePost ==
  ASSUME ContactInv, NEW h \in Posts, NEW m \in PostRecords,
         post' = [post EXCEPT ![h] = m],
         m.who = Nobody <=> m.step = "idle",
         m.step = "write" => m.who \in People /\ ~noted[m.who],
         m.step = "created" => rows[m.who] > 0,
         UNCHANGED <<contactFile, rows, noted>>,
         pending' \subseteq People, todo' \in [Drains -> SUBSET People]
  PROVE  ContactInv'
<1>1. ContactType'
  BY DEF ContactInv, ContactType
<1>2. \A g \in Posts : post'[g] = IF g = h THEN m ELSE post[g]
  BY DEF ContactInv, ContactType
<1>3. IdleOnlyForNobody'
  BY <1>2 DEF ContactInv, IdleOnlyForNobody
<1>4. NotedIsKept'
  BY <1>2 DEF ContactInv, NotedIsKept
<1>5. CreatedHasItsRow'
  BY <1>2 DEF ContactInv, CreatedHasItsRow
<1> QED BY <1>1, <1>3, <1>4, <1>5 DEF ContactInv

\* The step field alone.
LEMMA StepRecord ==
  ASSUME ContactInv, NEW h \in Posts, NEW s \in PostSteps, StepTo(h, s)
  PROVE  /\ [who |-> post[h].who, step |-> s] \in PostRecords
         /\ post' = [post EXCEPT ![h] = [who |-> post[h].who, step |-> s]]
<1>1. post[h] \in PostRecords
  BY DEF ContactInv, ContactType
<1>2. [post[h] EXCEPT !.step = s] = [who |-> post[h].who, step |-> s]
  BY <1>1 DEF PostRecords
<1> QED BY <1>1, <1>2 DEF StepTo, PostRecords

LEMMA ContactStep == ContactInv /\ [ContactNext]_contactVars => ContactInv'
<1> SUFFICES ASSUME ContactInv, [ContactNext]_contactVars PROVE ContactInv'
  OBVIOUS
<1> USE DEF AtStep
<1>a. pending \subseteq People /\ todo \in [Drains -> SUBSET People]
  BY DEF ContactInv, ContactType
<1>n. NoPost \in PostRecords /\ NoPost.who = Nobody /\ NoPost.step = "idle"
  BY DEF NoPost, PostRecords, PostSteps
<1>w. \A h \in Posts : post[h].step # "idle" => post[h].who \in People
  BY DEF ContactInv, ContactType, IdleOnlyForNobody, PostRecords
<1>s. "sheet" \in Posts /\ \A d \in Drains : d \in Posts
  BY DEF Posts
<1>p. \A p \in People : /\ [who |-> p, step |-> "asked"] \in PostRecords
                        /\ p # Nobody
  BY PeopleAssumption DEF PostRecords, PostSteps
<1>1. ASSUME NEW p \in People, HandleSave(p) PROVE ContactInv'
  <2>1. CASE post' = [post EXCEPT !["sheet"] = [who |-> p, step |-> "asked"]] /\ UNCHANGED pending
    BY <1>1, <2>1, <1>a, <1>s, <1>p, OnePost DEF HandleSave, KeepServer
  <2>2. CASE SavePendingContact(p)
    BY <1>1, <2>2 DEF HandleSave, SavePendingContact, KeepServer, ContactInv, ContactType,
      IdleOnlyForNobody, NotedIsKept, CreatedHasItsRow
  <2> QED BY <1>1, <2>1, <2>2 DEF HandleSave
<1>2. ASSUME NEW p \in People, UpdateContactInteraction(p) PROVE ContactInv'
  <2>1. ContactType'
    BY <1>2 DEF UpdateContactInteraction, KeepPending, ContactInv, ContactType
  <2>2. NotedIsKept'
    BY <1>2 DEF UpdateContactInteraction, KeepPending, ContactInv, ContactType, NotedIsKept
  <2> QED BY <1>2, <2>1, <2>2 DEF UpdateContactInteraction, KeepPending, ContactInv,
        IdleOnlyForNobody, CreatedHasItsRow
<1>3. ASSUME NEW p \in People, ProcessOpenHouseSignup(p) PROVE ContactInv'
  <2>1. ContactType'
    BY <1>3 DEF ProcessOpenHouseSignup, KeepPending, ContactInv, ContactType
  <2>2. NotedIsKept'
    BY <1>3 DEF ProcessOpenHouseSignup, KeepPending, ContactInv, ContactType, NotedIsKept
  <2> QED BY <1>3, <2>1, <2>2 DEF ProcessOpenHouseSignup, KeepPending, ContactInv,
        IdleOnlyForNobody, CreatedHasItsRow
<1>4. ASSUME NEW d \in Drains, DrainPendingContacts(d) PROVE ContactInv'
  BY <1>4 DEF DrainPendingContacts, KeepServer, ContactInv, ContactType, IdleOnlyForNobody,
    NotedIsKept, CreatedHasItsRow
<1>5. ASSUME NEW d \in Drains, DrainNext(d) PROVE ContactInv'
  <2>1. PICK p \in todo[d] : /\ post' = [post EXCEPT ![d] = [who |-> p, step |-> "asked"]]
                             /\ todo' = [todo EXCEPT ![d] = @ \ {p}]
    BY <1>5 DEF DrainNext
  <2>2. p \in People
    BY <1>a
  <2>3. todo' \in [Drains -> SUBSET People]
    BY <2>1, <1>a
  <2> QED BY <1>5, <2>1, <2>2, <2>3, <1>a, <1>s, <1>p, OnePost DEF DrainNext, KeepServer
<1>6. ASSUME NEW d \in Drains, DrainAnswered(d) PROVE ContactInv'
  <2>1. pending' \subseteq People
    BY <1>6, <1>a DEF DrainAnswered, RemoveIfOk
  <2> QED BY <1>6, <2>1, <1>a, <1>s, <1>n, OnePost DEF DrainAnswered, KeepServer
<1>7. ASSUME NEW h \in Posts, CheckFile(h) PROVE ContactInv'
  <2>1. post[h].who \in People
    BY <1>7, <1>w DEF CheckFile
  <2>2. CASE contactFile[post[h].who] = {}
    <3>1. StepTo(h, "write")
      BY <1>7, <2>2 DEF CheckFile, CreateFile
    <3>2. ~noted[post[h].who]
      BY <2>1, <2>2 DEF ContactInv, NotedIsKept
    <3>3. DEFINE m == [who |-> post[h].who, step |-> "write"]
    <3>4. m \in PostRecords /\ post' = [post EXCEPT ![h] = m]
      BY <3>1, StepRecord DEF PostSteps
    <3>5. m.who = post[h].who /\ m.step = "write"
      OBVIOUS
    <3> HIDE DEF m
    <3> QED BY <1>7, <2>1, <3>2, <3>4, <3>5, <1>a, <1>p, OnePost DEF CheckFile, KeepServer, KeepPending
  <2>3. CASE contactFile[post[h].who] # {}
    <3>1. StepTo(h, "row")
      BY <1>7, <2>3 DEF CheckFile, CreateFile
    <3>3. DEFINE m == [who |-> post[h].who, step |-> "row"]
    <3>4. m \in PostRecords /\ post' = [post EXCEPT ![h] = m]
      BY <3>1, StepRecord DEF PostSteps
    <3>5. m.who = post[h].who /\ m.step = "row"
      OBVIOUS
    <3> HIDE DEF m
    <3> QED BY <1>7, <2>1, <3>4, <3>5, <1>a, <1>p, OnePost DEF CheckFile, KeepServer, KeepPending
  <2> QED BY <2>2, <2>3
<1>8. ASSUME NEW h \in Posts, WriteFile(h) PROVE ContactInv'
  <2>1. post[h].who \in People /\ ~noted[post[h].who]
    BY <1>8, <1>w DEF WriteFile, ContactInv, NotedIsKept, ContactType
  <2>2. /\ [who |-> post[h].who, step |-> "row"] \in PostRecords
        /\ post' = [post EXCEPT ![h] = [who |-> post[h].who, step |-> "row"]]
    BY <1>8, StepRecord DEF WriteFile, PostSteps
  <2>3. \A g \in Posts : /\ post'[g].who = post[g].who
                         /\ g # h => post'[g].step = post[g].step
                         /\ post'[h].step = "row"
    BY <2>2 DEF ContactInv, ContactType
  <2>4. ContactType'
    BY <1>8, <2>1, <2>2 DEF WriteFile, KeepPending, ContactInv, ContactType
  <2>5. IdleOnlyForNobody'
    BY <1>8, <2>3 DEF WriteFile, ContactInv, IdleOnlyForNobody
  <2>6. NotedIsKept'
    BY <1>8, <2>1, <2>3 DEF WriteFile, ContactInv, NotedIsKept, ContactType
  <2>7. CreatedHasItsRow'
    BY <1>8, <2>3 DEF WriteFile, ContactInv, CreatedHasItsRow
  <2> QED BY <2>4, <2>5, <2>6, <2>7 DEF ContactInv
<1>9. ASSUME NEW h \in Posts, UpsertContact(h) PROVE ContactInv'
  <2>1. post[h].who \in People
    BY <1>9, <1>w DEF UpsertContact
  <2>2. /\ [who |-> post[h].who, step |-> "created"] \in PostRecords
        /\ post' = [post EXCEPT ![h] = [who |-> post[h].who, step |-> "created"]]
    BY <1>9, StepRecord DEF UpsertContact, PostSteps
  <2>3. \A g \in Posts : /\ post'[g].who = post[g].who
                         /\ g # h => post'[g].step = post[g].step
                         /\ post'[h].step = "created"
    BY <2>2 DEF ContactInv, ContactType
  <2>4. /\ rows' \in [People -> Nat] /\ rows'[post[h].who] > 0
        /\ \A p \in People : p # post[h].who => rows'[p] = rows[p]
    <3> DEFINE n == IF post[h].who \in WithEmail THEN 1 ELSE rows[post[h].who] + 1
    <3>1. rows \in [People -> Nat] /\ n \in Nat /\ n > 0
      BY <2>1 DEF ContactInv, ContactType
    <3>2. rows' = [rows EXCEPT ![post[h].who] = n]
      BY <1>9, <2>1, <3>1 DEF UpsertContact
    <3> HIDE DEF n
    <3> QED BY <2>1, <3>1, <3>2
  <2>5. ContactType'
    BY <1>9, <2>2, <2>4 DEF UpsertContact, KeepPending, ContactInv, ContactType
  <2>6. IdleOnlyForNobody' /\ NotedIsKept'
    BY <1>9, <2>3 DEF UpsertContact, ContactInv, IdleOnlyForNobody, NotedIsKept
  <2>7. CreatedHasItsRow'
    <3> SUFFICES ASSUME NEW g \in Posts, post'[g].step = "created" PROVE rows'[post[g].who] > 0
      BY <2>3 DEF CreatedHasItsRow
    <3>1. CASE g = h
      BY <3>1, <2>4
    <3>2. CASE g # h
      <4>1. rows[post[g].who] > 0 /\ post[g].who \in People
        BY <3>2, <2>3, <1>w DEF ContactInv, CreatedHasItsRow
      <4> QED BY <4>1, <2>4
    <3> QED BY <3>1, <3>2
  <2> QED BY <2>5, <2>6, <2>7 DEF ContactInv
<1>10. ASSUME NEW h \in Posts, PostFails(h) PROVE ContactInv'
  <2>1. post[h].who \in People
    BY <1>10, <1>w DEF PostFails
  <2>2. DEFINE m == [who |-> post[h].who, step |-> "failed"]
  <2>3. m \in PostRecords /\ post' = [post EXCEPT ![h] = m]
    BY <1>10, StepRecord DEF PostFails, PostSteps
  <2>4. m.who = post[h].who /\ m.step = "failed"
    OBVIOUS
  <2> HIDE DEF m
  <2> QED BY <1>10, <2>1, <2>3, <2>4, <1>a, <1>p, OnePost DEF PostFails, KeepServer, KeepPending
<1>11. CASE SaveAnswered
  BY <1>11, <1>a, <1>s, <1>n, OnePost DEF SaveAnswered, KeepServer
<1>12. CASE Disconnected
  BY <1>12 DEF Disconnected, KeepServer, ContactInv, ContactType, IdleOnlyForNobody,
    NotedIsKept, CreatedHasItsRow
<1>13. CASE UNCHANGED contactVars
  BY <1>13 DEF contactVars, ContactInv, ContactType, IdleOnlyForNobody, NotedIsKept, CreatedHasItsRow
<1> QED BY <1>1, <1>2, <1>3, <1>4, <1>5, <1>6, <1>7, <1>8, <1>9, <1>10, <1>11, <1>12, <1>13
     DEF ContactNext, DrainStep, ServerStep

\* A note is lost only when a post looked for the file before the note was
\* appended and writes it after.
THEOREM NotesOutliveLaterPosts == ContactSpec => []NotesLostInTheWindowOnly
<1>1. ContactInv => NotesLostInTheWindowOnly
  BY DEF ContactInv, NotedIsKept, NotesLostInTheWindowOnly
<1> QED BY <1>1, ContactStart, ContactStep, PTL DEF ContactSpec

\* The first half of PendingContactIsStored: a contact saved offline leaves the
\* phone's table only once it has its row (contact-sync.ts:11).
THEOREM StoredBeforeForgotten ==
  ContactSpec => [][\A p \in pending \ pending' : rows'[p] > 0]_contactVars
<1>1. ContactInv /\ [ContactNext]_contactVars
        => [\A p \in pending \ pending' : rows'[p] > 0]_contactVars
  <2> SUFFICES ASSUME ContactInv, ContactNext, NEW p \in pending, p \notin pending'
               PROVE  rows'[p] > 0
    OBVIOUS
  <2>1. PICK d \in Drains : DrainAnswered(d)
    BY DEF ContactNext, DrainStep, ServerStep, HandleSave, SavePendingContact,
      UpdateContactInteraction, ProcessOpenHouseSignup, DrainPendingContacts, DrainNext,
      CheckFile, WriteFile, UpsertContact, PostFails, SaveAnswered, Disconnected, KeepPending
  <2>2. post[d].step = "created" /\ p = post[d].who /\ UNCHANGED rows
    BY <2>1 DEF DrainAnswered, RemoveIfOk, AtStep, KeepServer
  <2> QED BY <2>2 DEF ContactInv, CreatedHasItsRow, Posts
<1> QED BY <1>1, ContactStart, ContactStep, PTL DEF ContactSpec

(***************************************************************************)
(* The dossier.  The request that is awaited, too, is of the open contact. *)
(***************************************************************************)
DossierSpec == DossierInit /\ [][DossierNext]_dossierVars

Sheets == [open : People \cup {Nobody}, pending : People \cup {Nobody}, shown : People \cup {Nobody}]
DossierInv ==
  /\ dossier \in Sheets
  /\ dossier.pending \in {Nobody, dossier.open}
  /\ dossier.shown \in {Nobody, dossier.open}

LEMMA DossierStart == DossierInit => DossierInv
BY DEF DossierInit, DossierInv, Sheets, NoDossier

LEMMA DossierStep == DossierInv /\ [DossierNext]_dossierVars => DossierInv'
<1> SUFFICES ASSUME DossierInv, [DossierNext]_dossierVars PROVE DossierInv'
  OBVIOUS
<1>1. CASE CloseDossier
  BY <1>1 DEF CloseDossier, DossierInv, Sheets, NoDossier
<1>2. ASSUME NEW p \in People, OpenDossier(p) PROVE DossierInv'
  BY <1>2 DEF OpenDossier, DossierInv, Sheets
<1>3. ASSUME NEW p \in People, DossierFails(p) PROVE DossierInv'
  BY <1>3 DEF DossierFails, DossierInv, Sheets
<1>4. ASSUME NEW p \in People, DossierReady(p) PROVE DossierInv'
  <2>1. CASE dossier.pending = p
    BY <1>4, <2>1, PeopleAssumption DEF DossierReady, SetDossierResult, DossierInv, Sheets
  <2>2. CASE dossier.pending # p
    BY <1>4, <2>2 DEF DossierReady, SetDossierResult, DossierInv, Sheets
  <2> QED BY <2>1, <2>2
<1>5. CASE UNCHANGED dossierVars
  BY <1>5 DEF dossierVars, DossierInv
<1> QED BY <1>1, <1>2, <1>3, <1>4, <1>5 DEF DossierNext

\* The summary on the screen is of the contact whose sheet is open, however the
\* answers of earlier sheets come in.
THEOREM DossiersAreNotMixedUp == DossierSpec => []DossierShowsItsContact
<1>1. DossierInv => DossierShowsItsContact
  BY DEF DossierInv, DossierShowsItsContact
<1> QED BY <1>1, DossierStart, DossierStep, PTL DEF DossierSpec

(***************************************************************************)
(* A turn of the coordinator. The cards stand for the drafts that wait for *)
(* a review, each once and at its own index, and what was decided of them  *)
(* is what the phone submitted.                                            *)
(***************************************************************************)
Stages == {"new", "dispatching", "sending", "offered", "effects", "replied", "executing", "closed"}
Modes == {"single", "parallel", "chain"}
RunStates == {"idle", "running", "returned", "failed", "abandoned", "late"}
Card == [agent : Agents, index : Nat]
InboundType ==
  /\ stage \in Stages /\ mode \in Modes
  /\ run \in [Agents -> RunStates] /\ auto \subseteq Agents
  /\ cards \in Seq(Card) /\ submitted \in Seq([index : Nat, decision : Decisions])
  /\ decided \in [Agents -> Decisions \cup {"nothing"}] /\ sent \in [Agents -> Nat]
RunsKnown ==
  /\ mode = "single" => \A a \in Agents \ {1} : run[a] = "idle"
  /\ stage = "new" => \A a \in Agents : run[a] = "idle"
  /\ stage = "dispatching" => run[1] # "idle"
\* Until the results are split nothing is drafted or sent.
NothingYet ==
  stage \in {"new", "dispatching"} =>
    cards = <<>> /\ auto = {} /\ \A a \in Agents : sent[a] = 0
\* Each agent has one card at most; if nothing was automatic, a card's index is its place.
CardsInPlace ==
  /\ \A i, j \in 1..Len(cards) : i # j => cards[i].agent # cards[j].agent
  /\ auto = {} => \A i \in 1..Len(cards) : cards[i].index = i - 1
\* What was automatic is sent; every draft is one or the other.
SplitInTwo ==
  stage \in {"sending", "offered", "effects"} =>
    /\ Settled
    /\ \A a \in Agents : sent[a] = IF a \in auto THEN 1 ELSE 0
    /\ mode # "chain" =>
         \A a \in Agents : ResultOf(a).status = "needs_approval" =>
           a \in auto \/ \E i \in 1..Len(cards) : cards[i].agent = a
\* The decisions that are left are those of the last cards; the others are obeyed.
Done == Len(cards) - Len(submitted)
Obeyed(i) == (sent[cards[i].agent] = 1) <=> (decided[cards[i].agent] = "approve")
PartlyObeyed ==
  stage \in {"executing", "closed"} /\ auto = {} =>
    /\ Done \in 0..Len(cards) /\ (stage = "closed" => submitted = <<>>)
    /\ \A j \in 1..Len(submitted) :
         /\ submitted[j].index = Done + j - 1
         /\ submitted[j].decision = decided[cards[Done + j].agent]
    /\ \A i \in 1..Done : Obeyed(i)
    /\ \A i \in (Done + 1)..Len(cards) : sent[cards[i].agent] = 0
InboundInv ==
  /\ InboundType /\ RunsKnown /\ NothingYet /\ CardsInPlace /\ SplitInTwo /\ PartlyObeyed

\* Agents are numbered from 1.
LEMMA AgentsAre == N \in Nat /\ 1 \in Agents /\ \A a \in Agents : a \in Nat
BY CoordinatorAssumption DEF Agents

\* A chain hands back the last agent that ran.
LEMMA LastOfChain ==
  ASSUME InboundType, RunsKnown, stage = "dispatching"
  PROVE  \E a \in Agents : run[a] # "idle" /\ \A b \in Agents : run[b] # "idle" => b <= a
<1> DEFINE T == {k \in 0..N : N - k \in Agents /\ run[N - k] # "idle"}
<1>1. N \in Nat /\ 1 \in Agents
  BY AgentsAre
<1>2. N - 1 \in T
  <2>1. N - 1 \in 0..N /\ N - (N - 1) = 1
    BY <1>1 DEF Agents
  <2>2. QED
    BY <1>1, <2>1 DEF RunsKnown
<1>3. T \subseteq Nat
  BY <1>1
<1>4. PICK m \in T : \A k \in T : m <= k
  <2> HIDE DEF T
  <2>1. QED
    BY <1>2, <1>3, LeastNatural
<1>5. ASSUME NEW b \in Agents, run[b] # "idle" PROVE b <= N - m
  <2>1. N - b \in 0..N /\ N - (N - b) = b
    BY <1>1 DEF Agents
  <2>2. N - b \in T
    BY <1>5, <2>1
  <2>3. m <= N - b
    BY <1>4, <2>2
  <2>4. m \in Nat /\ b \in Nat
    BY <1>3, <1>4, <1>5, AgentsAre
  <2>5. QED
    BY <1>1, <2>3, <2>4
<1>6. N - m \in Agents /\ run[N - m] # "idle"
  BY <1>4
<1>7. QED
  BY <1>5, <1>6

\* The results in the order in which each way of dispatch returns them.
LEMMA OrderByMode ==
  /\ mode = "single" => ResultOrder = <<1>>
  /\ mode = "parallel" => ResultOrder = [i \in Agents |-> i]
  /\ mode = "chain" => ResultOrder = <<CHOOSE a \in Agents :
                               run[a] # "idle" /\ \A b \in Agents : run[b] # "idle" => b <= a>>
BY Zenon DEF ResultOrder

\* The results name agents, each once, and in single and parallel dispatch every agent
\* that returned.
LEMMA ResultsOnce ==
  ASSUME InboundType, RunsKnown, stage = "dispatching"
  PROVE  /\ ResultOrder \in Seq(Agents)
         /\ \A i, j \in 1..Len(ResultOrder) : i # j => ResultOrder[i] # ResultOrder[j]
         /\ mode # "chain" => \A a \in Agents : run[a] = "returned" =>
              \E i \in 1..Len(ResultOrder) : ResultOrder[i] = a
<1>1. mode \in {"single", "parallel", "chain"}
  BY DEF InboundType, Modes
<1>2. CASE mode = "single"
  <2>1. ResultOrder = <<1>>
    BY <1>2, OrderByMode, Zenon
  <2>2. 1 \in Agents
    BY AgentsAre
  <2>3. \A a \in Agents : run[a] = "returned" => a = 1
    BY <1>2 DEF RunsKnown
  <2>4. QED
    BY <1>2, <2>1, <2>2, <2>3
<1>3. CASE mode = "parallel"
  <2>1. ResultOrder = [i \in 1..N |-> i]
    BY <1>3, OrderByMode, Zenon DEF Agents
  <2>2. N \in Nat
    BY AgentsAre
  <2>3. ResultOrder \in Seq(Agents) /\ Len(ResultOrder) = N
    BY <2>1, <2>2, IsASeq DEF Agents
  <2>4. QED
    BY <2>1, <2>2, <2>3 DEF Agents
<1>4. CASE mode = "chain"
  <2> DEFINE last == CHOOSE a \in Agents :
                       run[a] # "idle" /\ \A b \in Agents : run[b] # "idle" => b <= a
  <2>1. last \in Agents
    BY LastOfChain
  <2>2. ResultOrder = <<last>>
    BY <1>4, OrderByMode, Zenon
  <2> HIDE DEF last
  <2>3. QED
    BY <1>4, <2>1, <2>2
<1>5. QED
  BY <1>1, <1>2, <1>3, <1>4

\* The drafts among them.
LEMMA DraftsOnce ==
  ASSUME NEW order \in Seq(Agents), \A i, j \in 1..Len(order) : i # j => order[i] # order[j]
  PROVE  /\ Drafts(order) \in Seq(Agents)
         /\ \A i, j \in 1..Len(Drafts(order)) : i # j => Drafts(order)[i] # Drafts(order)[j]
         /\ \A i \in 1..Len(order) : ResultOf(order[i]).status = "needs_approval" =>
              \E k \in 1..Len(Drafts(order)) : Drafts(order)[k] = order[i]
<1> DEFINE I == {i \in 1..Len(order) : ResultOf(order[i]).status = "needs_approval"}
<1>1. I \in SUBSET (1..Len(order)) /\ Drafts(order) = Selected(order, I)
  BY DEF Drafts
<1>2. \A i \in 1..Len(order) : ResultOf(order[i]).status = "needs_approval" => i \in I
  OBVIOUS
<1> HIDE DEF I
<1>3. QED
  BY <1>1, <1>2, SelectedOnce


\* The cards are the drafts that are not automatic; if none is automatic, each has its
\* place as its index.
LEMMA CardsOfDrafts ==
  ASSUME NEW drafts \in Seq(Agents), \A i, j \in 1..Len(drafts) : i # j => drafts[i] # drafts[j],
         NEW I \in SUBSET (1..Len(drafts))
  PROVE  /\ Selected(Numbered(drafts), I) \in Seq(Card)
         /\ Len(Selected(Numbered(drafts), I)) \in Nat
         /\ \A i, j \in 1..Len(Selected(Numbered(drafts), I)) :
              i # j => /\ Selected(Numbered(drafts), I)[i].agent # Selected(Numbered(drafts), I)[j].agent
                       /\ Selected(Numbered(drafts), I)[i].index # Selected(Numbered(drafts), I)[j].index
         /\ \A i \in I : \E k \in 1..Len(Selected(Numbered(drafts), I)) :
              Selected(Numbered(drafts), I)[k].agent = drafts[i]
         /\ \A k \in 1..Len(Selected(Numbered(drafts), I)) : \E i \in I :
              Selected(Numbered(drafts), I)[k].agent = drafts[i]
         /\ I = 1..Len(drafts) =>
              \A k \in 1..Len(Selected(Numbered(drafts), I)) :
                Selected(Numbered(drafts), I)[k].index = k - 1
<1> DEFINE s == Numbered(drafts)
           c == Selected(s, I)
<1>1. Len(drafts) \in Nat /\ \A i \in 1..Len(drafts) : drafts[i] \in Agents
  BY LenProperties, ElementOfSeq
<1>2. s = [i \in 1..Len(drafts) |-> [agent |-> drafts[i], index |-> i - 1]]
  BY DEF Numbered
<1>3. \A i \in 1..Len(drafts) : s[i].agent = drafts[i] /\ s[i].index = i - 1
  BY <1>2
<1>4. \A i \in 1..Len(drafts) : [agent |-> drafts[i], index |-> i - 1] \in Card
  BY <1>1 DEF Card
<1>5. s \in Seq(Card) /\ Len(s) = Len(drafts)
  <2> DEFINE e(i) == [agent |-> drafts[i], index |-> i - 1]
  <2>1. \A i \in 1..Len(drafts) : e(i) \in Card
    BY <1>4
  <2>2. s = [i \in 1..Len(drafts) |-> e(i)]
    BY <1>2
  <2> HIDE DEF e, s
  <2>3. QED
    BY <1>1, <2>1, <2>2, IsASeq
<1> HIDE DEF s
<1>6. ASSUME NEW i \in 1..Len(s), NEW j \in 1..Len(s), i # j
      PROVE  s[i] # s[j]
  BY <1>3, <1>5, <1>6
<1>7. /\ c \in Seq(Card) /\ Len(c) \in Nat
      /\ \A i, j \in 1..Len(c) : i # j => c[i] # c[j]
      /\ \A i \in I : \E k \in 1..Len(c) : c[k] = s[i]
      /\ \A k \in 1..Len(c) : \E i \in I : c[k] = s[i]
  <2>1. PICK w \in Seq(Card) : w = s
    BY <1>5
  <2>2. I \in SUBSET (1..Len(w)) /\ \A i, j \in 1..Len(w) : i # j => w[i] # w[j]
    BY <1>5, <1>6, <2>1
  <2>3. /\ Selected(w, I) \in Seq(Card) /\ Len(Selected(w, I)) \in Nat
        /\ \A i, j \in 1..Len(Selected(w, I)) : i # j => Selected(w, I)[i] # Selected(w, I)[j]
        /\ \A i \in I : \E k \in 1..Len(Selected(w, I)) : Selected(w, I)[k] = w[i]
        /\ \A k \in 1..Len(Selected(w, I)) : \E i \in I : Selected(w, I)[k] = w[i]
    BY <2>2, SelectedOnce
  <2>4. QED
    BY <2>1, <2>3
<1>8. ASSUME I = 1..Len(drafts) PROVE c = s
  <2>1. I = 1..Len(s) /\ Selected(s, 1..Len(s)) = s
    BY <1>5, <1>8, SelectedAll
  <2>2. QED
    BY <2>1
<1> HIDE DEF c
<1>9. ASSUME NEW i \in 1..Len(c), NEW j \in 1..Len(c), i # j
      PROVE  c[i].agent # c[j].agent /\ c[i].index # c[j].index
  <2>1. PICK p \in I : c[i] = s[p]
    BY <1>7
  <2>2. PICK q \in I : c[j] = s[q]
    BY <1>7
  <2>3. p # q
    BY <1>7, <1>9, <2>1, <2>2
  <2>4. /\ p \in 1..Len(drafts) /\ c[i].agent = drafts[p] /\ c[i].index = p - 1
        /\ q \in 1..Len(drafts) /\ c[j].agent = drafts[q] /\ c[j].index = q - 1
    BY <1>3, <2>1, <2>2
  <2>5. QED
    BY <1>1, <2>3, <2>4
<1>10. ASSUME NEW i \in I PROVE \E k \in 1..Len(c) : c[k].agent = drafts[i]
  <2>1. PICK k \in 1..Len(c) : c[k] = s[i]
    BY <1>7
  <2>2. i \in 1..Len(drafts)
    OBVIOUS
  <2>3. c[k].agent = drafts[i]
    BY <1>3, <2>1, <2>2
  <2>4. QED
    BY <2>3
<1>11. ASSUME NEW k \in 1..Len(c) PROVE \E i \in I : c[k].agent = drafts[i]
  <2>1. PICK i \in I : c[k] = s[i]
    BY <1>7
  <2>2. c[k].agent = drafts[i]
    BY <1>3, <2>1
  <2>3. QED
    BY <2>2
<1>12. ASSUME I = 1..Len(drafts), NEW k \in 1..Len(c) PROVE c[k].index = k - 1
  BY <1>3, <1>5, <1>8, <1>12
<1>13. QED
  BY <1>7, <1>9, <1>10, <1>11, <1>12 DEF c, s


\* The pass over the results: each draft becomes a card or is sent at once.
LEMMA CollectSplits ==
  ASSUME InboundInv, Collect
  PROVE  /\ auto' \subseteq Agents /\ cards' \in Seq(Card) /\ Len(cards') \in Nat
         /\ sent' = [a \in Agents |-> IF a \in auto' THEN 1 ELSE 0]
         /\ \A i, j \in 1..Len(cards') :
              i # j => cards'[i].agent # cards'[j].agent /\ cards'[i].index # cards'[j].index
         /\ \A i \in 1..Len(cards') : cards'[i].agent \notin auto'
         /\ auto' = {} => \A i \in 1..Len(cards') : cards'[i].index = i - 1
         /\ mode # "chain" => \A a \in Agents : ResultOf(a).status = "needs_approval" =>
              a \in auto' \/ \E i \in 1..Len(cards') : cards'[i].agent = a
<1> USE DEF InboundInv
<1>1. PICK drafts : drafts = Drafts(ResultOrder)
  OBVIOUS
<1>2. PICK I : I = {i \in 1..Len(drafts) : ~IsAuto(drafts[i])}
  OBVIOUS
<1>3. /\ stage = "dispatching" /\ Settled
      /\ auto' = {drafts[i] : i \in {j \in 1..Len(drafts) : IsAuto(drafts[j])}}
      /\ cards' = Selected(Numbered(drafts), I)
      /\ sent' = [a \in Agents |-> IF a \in auto' THEN sent[a] + 1 ELSE sent[a]]
  BY <1>1, <1>2 DEF Collect, Split
<1>4. /\ ResultOrder \in Seq(Agents)
      /\ \A i, j \in 1..Len(ResultOrder) : i # j => ResultOrder[i] # ResultOrder[j]
      /\ mode # "chain" => \A a \in Agents : run[a] = "returned" =>
           \E i \in 1..Len(ResultOrder) : ResultOrder[i] = a
  BY <1>3, ResultsOnce
<1>5. /\ drafts \in Seq(Agents)
      /\ \A i, j \in 1..Len(drafts) : i # j => drafts[i] # drafts[j]
      /\ \A i \in 1..Len(ResultOrder) : ResultOf(ResultOrder[i]).status = "needs_approval" =>
           \E k \in 1..Len(drafts) : drafts[k] = ResultOrder[i]
  BY <1>1, <1>4, DraftsOnce
<1>6. /\ Len(drafts) \in Nat /\ \A i \in 1..Len(drafts) : drafts[i] \in Agents
      /\ I \subseteq 1..Len(drafts)
  BY <1>2, <1>5, LenProperties, ElementOfSeq
<1>7. /\ auto' \subseteq Agents
      /\ \A i \in (1..Len(drafts)) \ I : drafts[i] \in auto'
      /\ \A i \in I : drafts[i] \notin auto'
  BY <1>2, <1>3, <1>6
<1>8. auto' = {} => I = 1..Len(drafts)
  BY <1>6, <1>7
<1>9. /\ cards' \in Seq(Card) /\ Len(cards') \in Nat
      /\ \A i, j \in 1..Len(cards') :
           i # j => cards'[i].agent # cards'[j].agent /\ cards'[i].index # cards'[j].index
      /\ \A i \in I : \E k \in 1..Len(cards') : cards'[k].agent = drafts[i]
      /\ \A k \in 1..Len(cards') : \E i \in I : cards'[k].agent = drafts[i]
      /\ I = 1..Len(drafts) => \A k \in 1..Len(cards') : cards'[k].index = k - 1
  <2>1. I \in SUBSET (1..Len(drafts))
    BY <1>6
  <2> DEFINE c == Selected(Numbered(drafts), I)
  <2>2. /\ c \in Seq(Card) /\ Len(c) \in Nat
        /\ \A i, j \in 1..Len(c) : i # j => c[i].agent # c[j].agent /\ c[i].index # c[j].index
        /\ \A i \in I : \E k \in 1..Len(c) : c[k].agent = drafts[i]
        /\ \A k \in 1..Len(c) : \E i \in I : c[k].agent = drafts[i]
        /\ I = 1..Len(drafts) => \A k \in 1..Len(c) : c[k].index = k - 1
    BY <1>5, <2>1, CardsOfDrafts
  <2> HIDE DEF c
  <2>3. cards' = c
    BY <1>3 DEF c
  <2>4. QED
    BY <2>2, <2>3
<1>10. \A i \in 1..Len(cards') : cards'[i].agent \notin auto'
  BY <1>7, <1>9
<1>11. sent' = [a \in Agents |-> IF a \in auto' THEN 1 ELSE 0]
  BY <1>3 DEF NothingYet
<1>12. ASSUME mode # "chain", NEW a \in Agents, ResultOf(a).status = "needs_approval"
       PROVE  a \in auto' \/ \E i \in 1..Len(cards') : cards'[i].agent = a
  <2>1. run[a] = "returned"
    BY <1>12 DEF ResultOf, NoResult
  <2>2. PICK i \in 1..Len(ResultOrder) : ResultOrder[i] = a
    BY <1>4, <1>12, <2>1
  <2>3. PICK k \in 1..Len(drafts) : drafts[k] = a
    BY <1>5, <1>12, <2>2
  <2>4. CASE k \in I
    BY <1>9, <2>3, <2>4
  <2>5. CASE k \notin I
    BY <1>7, <2>3, <2>5
  <2>6. QED
    BY <2>4, <2>5
<1>13. QED
  BY <1>7, <1>8, <1>9, <1>10, <1>11, <1>12

\* After it the cards are in place and what was automatic is sent.
LEMMA CollectKeeps ==
  ASSUME InboundInv, Collect
  PROVE  InboundInv'
<1> USE DEF InboundInv
<1>1. /\ stage = "dispatching" /\ stage' = "sending" /\ Settled
      /\ mode' = mode /\ run' = run /\ output' = output
      /\ submitted' = submitted /\ decided' = decided
  BY DEF Collect, inputVars
<1>2. InboundType'
  <2>1. sent' \in [Agents -> Nat]
    BY CollectSplits
  <2>2. auto' \subseteq Agents /\ cards' \in Seq(Card)
    BY CollectSplits
  <2>3. QED
    BY <1>1, <2>1, <2>2 DEF InboundType, Stages
<1>3. RunsKnown' /\ NothingYet' /\ PartlyObeyed'
  BY <1>1 DEF RunsKnown, NothingYet, PartlyObeyed
<1>4. CardsInPlace'
  BY CollectSplits DEF CardsInPlace
<1>5. SplitInTwo'
  <2>1. \A a \in Agents : sent'[a] = IF a \in auto' THEN 1 ELSE 0
    BY CollectSplits
  <2>2. \A a \in Agents : ResultOf(a)' = ResultOf(a)
    BY <1>1 DEF ResultOf
  <2>3. mode # "chain" => \A a \in Agents : ResultOf(a).status = "needs_approval" =>
          a \in auto' \/ \E i \in 1..Len(cards') : cards'[i].agent = a
    BY CollectSplits
  <2>4. Settled'
    BY <1>1 DEF Settled
  <2>5. QED
    BY <1>1, <2>1, <2>2, <2>3, <2>4 DEF SplitInTwo
<1>6. QED
  BY <1>2, <1>3, <1>4, <1>5

\* The user decides all cards at once, and partly obeyed decisions stay so.
LEMMA AnswerKeeps ==
  ASSUME InboundInv, Answer
  PROVE  InboundInv'
<1> USE DEF InboundInv
<1>1. /\ stage = "offered" /\ stage' = "executing"
      /\ mode' = mode /\ run' = run /\ auto' = auto /\ cards' = cards /\ sent' = sent
  BY DEF Answer, inputVars, agentVars
<1>2. PICK d \in [1..Len(cards) -> Decisions] :
        /\ submitted' = [i \in 1..Len(cards) |-> [index |-> cards[i].index, decision |-> d[i]]]
        /\ decided' = [a \in Agents |->
             IF \E i \in 1..Len(cards) : cards[i].agent = a
             THEN d[CHOOSE i \in 1..Len(cards) : cards[i].agent = a] ELSE decided[a]]
  BY DEF Answer
<1>3. Len(cards) \in Nat /\ \A i \in 1..Len(cards) : cards[i] \in Card
  BY LenProperties, ElementOfSeq DEF InboundType
<1>4. \A i \in 1..Len(cards) : cards[i].agent \in Agents /\ cards[i].index \in Nat
  BY <1>3 DEF Card
<1>5. submitted' \in Seq([index : Nat, decision : Decisions]) /\ Len(submitted') = Len(cards)
  <2> DEFINE e(i) == [index |-> cards[i].index, decision |-> d[i]]
  <2>1. \A i \in 1..Len(cards) : e(i) \in [index : Nat, decision : Decisions]
    BY <1>4
  <2>2. submitted' = [i \in 1..Len(cards) |-> e(i)]
    BY <1>2
  <2> HIDE DEF e
  <2>3. QED
    BY <1>3, <2>1, <2>2, IsASeq
<1>6. decided' \in [Agents -> Decisions \cup {"nothing"}]
  <2>1. ASSUME NEW a \in Agents, \E i \in 1..Len(cards) : cards[i].agent = a
        PROVE  d[CHOOSE i \in 1..Len(cards) : cards[i].agent = a] \in Decisions
    BY <2>1
  <2>2. QED
    BY <1>2, <2>1 DEF InboundType
<1>7. ASSUME NEW j \in 1..Len(cards) PROVE decided'[cards[j].agent] = d[j]
  <2>1. \A i \in 1..Len(cards) : cards[i].agent = cards[j].agent => i = j
    BY DEF CardsInPlace
  <2>2. (CHOOSE i \in 1..Len(cards) : cards[i].agent = cards[j].agent) = j
    BY <2>1
  <2>3. QED
    BY <1>2, <1>4, <2>2
<1>8. InboundType'
  BY <1>1, <1>5, <1>6 DEF InboundType, Stages
<1>9. RunsKnown' /\ NothingYet' /\ CardsInPlace' /\ SplitInTwo'
  BY <1>1 DEF RunsKnown, NothingYet, CardsInPlace, SplitInTwo
<1>10. PartlyObeyed'
  <2> SUFFICES ASSUME auto = {}
               PROVE  /\ Done' = 0
                      /\ \A j \in 1..Len(cards) :
                           /\ submitted'[j].index = j - 1
                           /\ submitted'[j].decision = decided'[cards[j].agent]
                      /\ \A i \in 1..Len(cards) : sent[cards[i].agent] = 0
    BY <1>1, <1>3, <1>5 DEF PartlyObeyed
  <2>1. Done' = 0
    BY <1>1, <1>3, <1>5 DEF Done
  <2>2. \A j \in 1..Len(cards) : submitted'[j].index = j - 1 /\ submitted'[j].decision = d[j]
    BY <1>2 DEF CardsInPlace
  <2>3. \A i \in 1..Len(cards) : sent[cards[i].agent] = 0
    BY <1>1, <1>4 DEF SplitInTwo
  <2>4. QED
    BY <1>7, <2>1, <2>2, <2>3
<1>11. QED
  BY <1>8, <1>9, <1>10


\* Executing looks a decision up by the index of its card.
LEMMA ExecuteKeeps ==
  ASSUME InboundInv, Execute
  PROVE  InboundInv'
<1> USE DEF InboundInv
<1>1. /\ stage = "executing" /\ stage' = stage /\ submitted # <<>> /\ submitted' = Tail(submitted)
      /\ mode' = mode /\ run' = run /\ auto' = auto /\ cards' = cards /\ decided' = decided
  BY DEF Execute, inputVars, agentVars
<1>2. PICK d : d = Head(submitted)
  OBVIOUS
<1>3. PICK i : i = d.index + 1
  OBVIOUS
<1>4. sent' = IF d.decision = "approve" /\ i <= Len(cards)
              THEN [sent EXCEPT ![cards[i].agent] = @ + 1] ELSE sent
  BY <1>2, <1>3 DEF Execute
<1>5. /\ Len(cards) \in Nat /\ \A k \in 1..Len(cards) : cards[k] \in Card
      /\ Len(submitted) \in Nat \ {0} /\ d = submitted[1]
      /\ d \in [index : Nat, decision : Decisions]
  <2>1. cards \in Seq(Card) /\ submitted \in Seq([index : Nat, decision : Decisions])
    BY DEF InboundType
  <2>2. Len(cards) \in Nat /\ \A k \in 1..Len(cards) : cards[k] \in Card
    BY <2>1, LenProperties, ElementOfSeq
  <2>3. Len(submitted) \in Nat \ {0}
    BY <1>1, <2>1, LenProperties, EmptySeq
  <2>4. d = submitted[1]
    BY <1>2, <2>1
  <2>5. d \in [index : Nat, decision : Decisions]
    <3>1. 1 \in 1..Len(submitted)
      BY <2>3
    <3>2. submitted[1] \in [index : Nat, decision : Decisions]
      BY <2>1, <3>1, ElementOfSeq
    <3>3. QED
      BY <2>4, <3>2
  <2>6. QED
    BY <2>2, <2>3, <2>4, <2>5
<1>6. /\ Tail(submitted) \in Seq([index : Nat, decision : Decisions])
      /\ Len(Tail(submitted)) = Len(submitted) - 1
      /\ \A j \in 1..(Len(submitted) - 1) : Tail(submitted)[j] = submitted[j + 1]
  BY <1>1, HeadTailProperties DEF InboundType
<1>7. i \in Nat \ {0} /\ i = d.index + 1
  BY <1>3, <1>5
<1>8. \A k \in 1..Len(cards) : cards[k].agent \in Agents /\ cards[k].index \in Nat
  BY <1>5 DEF Card
<1>9. sent' \in [Agents -> Nat]
  <2>1. sent \in [Agents -> Nat]
    BY DEF InboundType
  <2>2. CASE d.decision = "approve" /\ i <= Len(cards)
    <3>1. cards[i].agent \in Agents
      BY <1>5, <1>7, <1>8, <2>2
    <3>2. sent' = [sent EXCEPT ![cards[i].agent] = sent[cards[i].agent] + 1]
      BY <1>4, <2>2
    <3>3. sent[cards[i].agent] + 1 \in Nat
      BY <2>1, <3>1
    <3>4. QED
      BY <2>1, <3>1, <3>2, <3>3
  <2>3. QED
    BY <1>4, <2>1, <2>2
<1>10. InboundType' /\ RunsKnown' /\ NothingYet' /\ CardsInPlace' /\ SplitInTwo'
  <2>1. InboundType'
    BY <1>1, <1>6, <1>9 DEF InboundType
  <2>2. RunsKnown' /\ NothingYet' /\ CardsInPlace' /\ SplitInTwo'
    BY <1>1 DEF RunsKnown, NothingYet, CardsInPlace, SplitInTwo
  <2>3. QED
    BY <2>1, <2>2
<1>11. PartlyObeyed'
  <2> SUFFICES ASSUME auto = {} PROVE PartlyObeyed'
    BY <1>1 DEF PartlyObeyed
  <2>1. PICK n : n = Done
    OBVIOUS
  <2>2. /\ n \in Nat /\ n = Len(cards) - Len(submitted) /\ n < Len(cards)
        /\ \A j \in 1..Len(submitted) :
             /\ submitted[j].index = n + j - 1
             /\ submitted[j].decision = decided[cards[n + j].agent]
        /\ \A k \in 1..n : Obeyed(k)
        /\ \A k \in (n + 1)..Len(cards) : sent[cards[k].agent] = 0
    <3>1. /\ Done \in 0..Len(cards)
          /\ \A j \in 1..Len(submitted) :
               /\ submitted[j].index = Done + j - 1
               /\ submitted[j].decision = decided[cards[Done + j].agent]
          /\ \A k \in 1..Done : Obeyed(k)
          /\ \A k \in (Done + 1)..Len(cards) : sent[cards[k].agent] = 0
      BY <1>1 DEF PartlyObeyed
    <3>2. Done \in Nat /\ Done = Len(cards) - Len(submitted) /\ Done < Len(cards)
      <4>1. Done \in 0..Len(cards) /\ Done = Len(cards) - Len(submitted)
        BY <3>1 DEF Done
      <4>2. QED
        BY <1>5, <4>1
    <3>3. QED
      BY <2>1, <3>1, <3>2
  <2>3. /\ i = n + 1 /\ i \in 1..Len(cards)
        /\ d.decision = decided[cards[i].agent]
    <3>1. n + 1 \in 1..Len(cards) /\ n + 1 - 1 = n /\ 1 \in 1..Len(submitted)
      BY <1>5, <2>2
    <3>2. /\ submitted[1].index = n + 1 - 1
          /\ submitted[1].decision = decided[cards[n + 1].agent]
      BY <2>2, <3>1
    <3>3. QED
      BY <1>5, <1>7, <3>1, <3>2
  <2>4. Done' = n + 1
    BY <1>1, <1>5, <1>6, <2>2 DEF Done
  <2>5. ASSUME NEW k \in 1..Len(cards), k # i
        PROVE  sent'[cards[k].agent] = sent[cards[k].agent]
    <3>1. cards[k].agent # cards[i].agent
      BY <2>3, <2>5 DEF CardsInPlace
    <3>2. QED
      BY <1>4, <1>8, <3>1 DEF InboundType
  <2>6. sent'[cards[i].agent] = IF d.decision = "approve" THEN 1 ELSE 0
    <3>1. i \in (n + 1)..Len(cards)
      BY <1>5, <2>2, <2>3
    <3>2. sent[cards[i].agent] = 0
      BY <2>2, <3>1
    <3>3. QED
      BY <1>4, <1>8, <2>3, <3>2 DEF InboundType
  <2>7. ASSUME NEW k \in 1..(n + 1) PROVE Obeyed(k)'
    <3>1. CASE k = i
      BY <1>1, <2>3, <2>6, <3>1 DEF Obeyed
    <3>2. CASE k # i
      <4>1. k \in 1..n /\ k \in 1..Len(cards)
        <5>1. k # n + 1 /\ n \in Nat /\ n < Len(cards)
          BY <2>2, <2>3, <3>2
        <5>2. QED
          BY <1>5, <5>1
      <4>2. QED
        BY <1>1, <2>2, <2>5, <3>2, <4>1 DEF Obeyed
    <3>3. QED
      BY <3>1, <3>2
  <2>8. \A k \in (n + 2)..Len(cards) : sent'[cards[k].agent] = 0
    <3> SUFFICES ASSUME NEW k \in (n + 2)..Len(cards) PROVE sent'[cards[k].agent] = 0
      OBVIOUS
    <3>1. n \in Nat /\ i = n + 1
      BY <2>2, <2>3
    <3>2. k \in 1..Len(cards) /\ k # i /\ k \in (n + 1)..Len(cards)
      BY <1>5, <3>1
    <3>3. sent[cards[k].agent] = 0
      BY <2>2, <3>2
    <3>4. QED
      BY <2>5, <3>2, <3>3
  <2>9. \A j \in 1..(Len(submitted) - 1) :
          /\ Tail(submitted)[j].index = n + 1 + j - 1
          /\ Tail(submitted)[j].decision = decided[cards[n + 1 + j].agent]
    <3> SUFFICES ASSUME NEW j \in 1..(Len(submitted) - 1)
                 PROVE  /\ Tail(submitted)[j].index = n + 1 + j - 1
                        /\ Tail(submitted)[j].decision = decided[cards[n + 1 + j].agent]
      OBVIOUS
    <3>1. j + 1 \in 1..Len(submitted) /\ n + (j + 1) = n + 1 + j
      BY <1>5, <2>2
    <3>2. Tail(submitted)[j] = submitted[j + 1]
      BY <1>6
    <3>3. QED
      BY <2>2, <3>1, <3>2
  <2>10. n + 1 \in 0..Len(cards)
    BY <1>5, <2>2
  <2>11. QED
    BY <1>1, <1>6, <2>2, <2>4, <2>7, <2>8, <2>9, <2>10 DEF PartlyObeyed
<1>12. QED
  BY <1>10, <1>11

\* Agents end at a time of their own.
LEMMA AgentsKeep ==
  ASSUME InboundInv, NEW a \in Agents,
         (\E out \in Results : HandlerReturns(a, out)) \/ HandlerRejects(a) \/ LateReturn(a)
  PROVE  InboundInv'
<1> USE DEF InboundInv
<1>1. /\ stage' = stage /\ mode' = mode /\ auto' = auto /\ cards' = cards
      /\ submitted' = submitted /\ decided' = decided /\ sent' = sent
  BY DEF HandlerReturns, HandlerRejects, LateReturn, inputVars, reviewVars
<1>2. /\ run' \in [Agents -> RunStates] /\ run[a] # "idle"
      /\ \A b \in Agents : b # a /\ mode # "chain" => run'[b] = run[b]
      /\ run'[a] # "idle"
      /\ \A b \in Agents : run[b] # "idle" => run'[b] # "idle"
  <2>1. CASE \E out \in Results : HandlerReturns(a, out)
    BY <2>1 DEF HandlerReturns, InboundType, RunStates
  <2>2. CASE HandlerRejects(a)
    BY <2>2 DEF HandlerRejects, InboundType, RunStates
  <2>3. CASE LateReturn(a)
    BY <2>3 DEF LateReturn, InboundType, RunStates
  <2>4. QED
    BY <2>1, <2>2, <2>3
<1>3. RunsKnown'
  <2>1. mode = "single" => \A b \in Agents \ {1} : run'[b] = "idle"
    BY <1>2 DEF RunsKnown
  <2>2. stage # "new"
    BY <1>2 DEF RunsKnown
  <2>3. QED
    BY <1>1, <1>2, <2>1, <2>2, AgentsAre DEF RunsKnown
<1>4. ASSUME stage \in {"sending", "offered", "effects"}
      PROVE  Settled' /\ \A b \in Agents : ResultOf(b)' = ResultOf(b)
  <2>1. Settled
    BY <1>4 DEF SplitInTwo
  <2>2. CASE \E out \in Results : HandlerReturns(a, out)
    BY <2>1, <2>2 DEF HandlerReturns, Settled
  <2>3. CASE HandlerRejects(a)
    BY <2>1, <2>3 DEF HandlerRejects, Settled
  <2>4. CASE LateReturn(a)
    <3>1. \A b \in Agents : run'[b] = IF b = a THEN "late" ELSE run[b]
      BY <2>4 DEF LateReturn, InboundType
    <3>2. run[a] = "abandoned" /\ output' = output
      BY <2>4 DEF LateReturn
    <3>3. QED
      BY <2>1, <3>1, <3>2 DEF Settled, ResultOf
  <2>5. QED
    BY <2>2, <2>3, <2>4
<1>5. SplitInTwo'
  BY <1>1, <1>4 DEF SplitInTwo
<1>6. InboundType'
  BY <1>1, <1>2 DEF InboundType
<1>7. NothingYet' /\ CardsInPlace'
  BY <1>1 DEF NothingYet, CardsInPlace
<1>8. PartlyObeyed'
  BY <1>1 DEF PartlyObeyed, Done, Obeyed
<1>9. QED
  BY <1>3, <1>5, <1>6, <1>7, <1>8

\* Every step of a turn keeps the invariant.
LEMMA InboundKeeps ==
  ASSUME InboundInv, [InboundNext]_inboundVars
  PROVE  InboundInv'
<1> USE DEF InboundInv
<1>1. ASSUME NEW m \in {"single", "parallel", "chain"}, Dispatch(m) PROVE InboundInv'
  <2>1. /\ stage = "new" /\ stage' = "dispatching" /\ mode' = m
        /\ run' = [b \in Agents |-> IF b = 1 \/ m = "parallel" THEN "running" ELSE "idle"]
        /\ auto' = auto /\ cards' = cards /\ submitted' = submitted
        /\ decided' = decided /\ sent' = sent
    BY <1>1 DEF Dispatch, reviewVars
  <2>2. run' \in [Agents -> RunStates]
    BY <2>1 DEF RunStates
  <2>3. RunsKnown'
    BY <2>1, AgentsAre DEF RunsKnown
  <2>4. QED
    BY <2>1, <2>2, <2>3 DEF InboundType, NothingYet, CardsInPlace, SplitInTwo, PartlyObeyed,
                            Stages, Modes
\* Nothing of what the invariant speaks of changes but the stage, which leaves a stage
\* the invariant says nothing of or goes to one.
<1>2. ASSUME /\ mode' = mode /\ run' = run /\ output' = output /\ auto' = auto
             /\ cards' = cards /\ submitted' = submitted /\ decided' = decided /\ sent' = sent,
             \/ stage' = stage
             \/ stage' = "replied"
             \/ stage = "sending" /\ stage' \in {"offered", "effects"}
             \/ stage = "executing" /\ stage' = "closed" /\ submitted = <<>>
      PROVE  InboundInv'
  <2>1. InboundType' /\ NothingYet' /\ CardsInPlace'
    BY <1>2 DEF InboundType, NothingYet, CardsInPlace, Stages
  <2>2. RunsKnown'
    BY <1>2 DEF RunsKnown
  <2>3. SplitInTwo'
    BY <1>2 DEF SplitInTwo, Settled, ResultOf
  <2>4. PartlyObeyed'
    BY <1>2 DEF PartlyObeyed, Done, Obeyed
  <2>5. QED
    BY <2>1, <2>2, <2>3, <2>4
<1>3. CASE Clarify \/ DispatchError \/ CollectStudio \/ Offer \/ ReplyNow \/ EffectsDone \/ Close
  <2> HIDE DEF InboundInv
  <2>1. /\ mode' = mode /\ run' = run /\ output' = output /\ auto' = auto
        /\ cards' = cards /\ submitted' = submitted /\ decided' = decided /\ sent' = sent
    BY <1>3 DEF Clarify, DispatchError, CollectStudio, Offer, ReplyNow, EffectsDone, Close,
                inputVars, agentVars, reviewVars
  <2>2. \/ stage' = "replied"
        \/ stage = "sending" /\ stage' \in {"offered", "effects"}
        \/ stage = "executing" /\ stage' = "closed" /\ submitted = <<>>
    BY <1>3 DEF Clarify, DispatchError, CollectStudio, Offer, ReplyNow, EffectsDone, Close
  <2>3. QED
    BY <1>2, <2>1, <2>2
<1>4. CASE \/ UNCHANGED inboundVars
           \/ \E types \in SUBSET ActionTypes : UpdateAutoApprovalSettings(types)
           \/ \E a \in Agents : ItemReturns(a) \/ RunEffects(a)
  <2> HIDE DEF InboundInv
  <2>1. /\ mode' = mode /\ run' = run /\ output' = output /\ auto' = auto
        /\ cards' = cards /\ submitted' = submitted /\ decided' = decided /\ sent' = sent
        /\ stage' = stage
    BY <1>4 DEF UpdateAutoApprovalSettings, ItemReturns, RunEffects,
                inboundVars, inputVars, agentVars, reviewVars
  <2>2. QED
    BY <1>2, <2>1
<1> HIDE DEF InboundInv
<1>5. QED
  BY <1>1, <1>3, <1>4, CollectKeeps, AnswerKeeps, ExecuteKeeps, AgentsKeep DEF InboundNext

\* A turn starts with nothing drafted.
LEMMA InboundStarts == InboundInit => InboundInv
BY EmptySeq DEF InboundInit, InboundInv, InboundType, RunsKnown, NothingYet, CardsInPlace,
                SplitInTwo, PartlyObeyed, Stages, Modes, RunStates

\* What the cards and the decisions that were obeyed come to.
LEMMA CardsAreObeyed ==
  ASSUME InboundInv
  PROVE  NoDraftIsLost /\ ReviewIsObeyed
<1>1. NoDraftIsLost
  BY DEF InboundInv, SplitInTwo, NoDraftIsLost
<1>2. ASSUME stage = "closed", auto = {} PROVE Done = Len(cards)
  <2>1. Len(cards) \in Nat
    BY LenProperties DEF InboundInv, InboundType
  <2>2. submitted = <<>>
    BY <1>2 DEF InboundInv, PartlyObeyed
  <2>3. QED
    BY <2>1, <2>2, EmptySeq DEF Done
<1>3. ReviewIsObeyed
  BY <1>2 DEF InboundInv, PartlyObeyed, ReviewIsObeyed, Obeyed
<1>4. QED
  BY <1>1, <1>3

\* A decision is looked up at a position of its own; what is still to be executed, and
\* what was not automatic, has not gone out.
DecisionsWait ==
  /\ stage # "executing" => submitted = <<>>
  /\ \A i, j \in 1..Len(cards) : i # j => cards[i].index # cards[j].index
  /\ \A i \in 1..Len(cards) : cards[i].agent \notin auto
  /\ \A i, j \in 1..Len(submitted) : i # j => submitted[i].index # submitted[j].index
  /\ \A j \in 1..Len(submitted), k \in 1..Len(cards) :
       k = submitted[j].index + 1 => sent[cards[k].agent] = 0
OnceInv == InboundInv /\ DecisionsWait /\ DispatchedOnce

\* The user decides each card once, and none of them has gone out.
LEMMA AnswerOnce ==
  ASSUME OnceInv, Answer
  PROVE  DecisionsWait' /\ DispatchedOnce'
<1> USE DEF OnceInv
<1>1. /\ stage = "offered" /\ stage' = "executing"
      /\ auto' = auto /\ cards' = cards /\ sent' = sent
  BY DEF Answer
<1>2. PICK d \in [1..Len(cards) -> Decisions] :
        submitted' = [i \in 1..Len(cards) |-> [index |-> cards[i].index, decision |-> d[i]]]
  BY DEF Answer
<1>3. Len(cards) \in Nat /\ \A i \in 1..Len(cards) : cards[i] \in Card
  BY LenProperties, ElementOfSeq DEF InboundInv, InboundType
<1>4. \A i \in 1..Len(cards) : cards[i].agent \in Agents /\ cards[i].index \in Nat
  BY <1>3 DEF Card
<1>5. Len(submitted') = Len(cards)
  <2> DEFINE e(i) == [index |-> cards[i].index, decision |-> d[i]]
  <2>1. \A i \in 1..Len(cards) : e(i) \in [index : Nat, decision : Decisions]
    BY <1>4
  <2>2. submitted' = [i \in 1..Len(cards) |-> e(i)]
    BY <1>2
  <2> HIDE DEF e
  <2>3. QED
    BY <1>3, <2>1, <2>2, IsASeq
<1>6. \A j \in 1..Len(cards) : submitted'[j].index = cards[j].index
  BY <1>2
<1>7. \A k \in 1..Len(cards) : sent[cards[k].agent] = 0
  BY <1>1, <1>4 DEF InboundInv, SplitInTwo, DecisionsWait
<1>8. DecisionsWait'
  BY <1>1, <1>5, <1>6, <1>7 DEF DecisionsWait
<1>9. QED
  BY <1>1, <1>8 DEF DispatchedOnce

\* One decision is executed: no other one leads to the same card.
LEMMA ExecuteOnce ==
  ASSUME OnceInv, Execute
  PROVE  DecisionsWait' /\ DispatchedOnce'
<1> USE DEF OnceInv
<1>1. /\ stage = "executing" /\ stage' = stage /\ submitted # <<>> /\ submitted' = Tail(submitted)
      /\ auto' = auto /\ cards' = cards
  BY DEF Execute
<1>2. PICK i : i = Head(submitted).index + 1
  OBVIOUS
<1>3. \/ sent' = sent
      \/ i <= Len(cards) /\ sent' = [sent EXCEPT ![cards[i].agent] = @ + 1]
  BY <1>2 DEF Execute
<1>4. /\ cards \in Seq(Card) /\ submitted \in Seq([index : Nat, decision : Decisions])
      /\ sent \in [Agents -> Nat]
  BY DEF InboundInv, InboundType
<1>5. PICK m \in Nat : m = Len(cards)
  BY <1>4, LenProperties
<1>6. PICK n \in Nat \ {0} : n = Len(submitted)
  BY <1>1, <1>4, LenProperties, EmptySeq
<1>7. /\ Tail(submitted) \in Seq([index : Nat, decision : Decisions]) /\ Len(Tail(submitted)) = n - 1
      /\ \A j \in 1..(n - 1) : Tail(submitted)[j] = submitted[j + 1]
  BY <1>1, <1>4, <1>6, HeadTailProperties
<1>8. Head(submitted) = submitted[1] /\ \A j \in 1..n : submitted[j].index \in Nat
  <2>1. \A j \in 1..n : submitted[j] \in [index : Nat, decision : Decisions]
    BY <1>4, <1>6, ElementOfSeq
  <2>2. Head(submitted) = submitted[1]
    BY <1>1, <1>4, HeadTailProperties
  <2>3. QED
    BY <2>1, <2>2
<1>9. \A k \in 1..m : cards[k].agent \in Agents
  <2>1. \A k \in 1..m : cards[k] \in Card
    BY <1>4, <1>5, ElementOfSeq
  <2>2. QED
    BY <2>1 DEF Card
<1>10. /\ i = submitted[1].index + 1 /\ i \in Nat \ {0}
       /\ \A j \in 2..n : submitted[j].index + 1 # i
  <2>1. 1 \in 1..n /\ \A j \in 2..n : j \in 1..n /\ j # 1
    BY <1>6
  <2>2. submitted[1].index \in Nat /\ \A j \in 2..n : submitted[j].index \in Nat
    BY <1>8, <2>1
  <2>3. \A j \in 2..n : submitted[j].index # submitted[1].index
    BY <1>6, <2>1 DEF DecisionsWait
  <2>4. i = submitted[1].index + 1
    BY <1>2, <1>8
  <2>5. QED
    BY <2>2, <2>3, <2>4
<1>11. \A j \in 1..(n - 1) : j + 1 \in 2..n /\ j + 1 \in 1..n /\ submitted'[j] = submitted[j + 1]
  BY <1>1, <1>6, <1>7
<1>12. ASSUME i <= Len(cards), sent' = [sent EXCEPT ![cards[i].agent] = @ + 1]
       PROVE  /\ \A a \in Agents : sent'[a] <= 1
              /\ \A k \in 1..m : k # i => sent'[cards[k].agent] = sent[cards[k].agent]
  <2>1. i \in 1..m
    BY <1>5, <1>10, <1>12
  <2>2. sent[cards[i].agent] = 0
    <3>1. 1 \in 1..n
      BY <1>6
    <3>2. QED
      BY <1>5, <1>6, <1>10, <2>1, <3>1 DEF DecisionsWait
  <2>3. \A a \in Agents : sent'[a] = IF a = cards[i].agent THEN 1 ELSE sent[a]
    BY <1>4, <1>9, <1>12, <2>1, <2>2
  <2>4. \A k \in 1..m : k # i => cards[k].agent # cards[i].agent
    BY <1>5, <2>1 DEF InboundInv, CardsInPlace
  <2>5. QED
    BY <1>9, <2>3, <2>4 DEF DispatchedOnce
<1>13. DispatchedOnce'
  BY <1>3, <1>12 DEF DispatchedOnce
<1>14. ASSUME NEW j \in 1..(n - 1), NEW k \in 1..m, k = submitted'[j].index + 1
       PROVE  sent'[cards[k].agent] = 0
  <2>1. k = submitted[j + 1].index + 1 /\ j + 1 \in 1..n
    BY <1>11, <1>14
  <2>2. sent[cards[k].agent] = 0
    BY <1>5, <1>6, <2>1 DEF DecisionsWait
  <2>3. k # i
    BY <1>10, <1>11, <2>1
  <2>4. QED
    BY <1>3, <1>12, <2>2, <2>3
<1>15. ASSUME NEW j \in 1..(n - 1), NEW l \in 1..(n - 1), j # l
       PROVE  submitted'[j].index # submitted'[l].index
  <2>1. j + 1 # l + 1 /\ j + 1 \in 1..n /\ l + 1 \in 1..n
    BY <1>11, <1>15
  <2>2. submitted[j + 1].index # submitted[l + 1].index
    BY <1>6, <2>1 DEF DecisionsWait
  <2>3. QED
    BY <1>11, <2>2
<1>16. Len(submitted') = n - 1
  BY <1>1, <1>7
<1>17. DecisionsWait'
  BY <1>1, <1>5, <1>14, <1>15, <1>16 DEF DecisionsWait
<1>18. QED
  BY <1>13, <1>17

\* Every step of a turn dispatches a draft at most once.
LEMMA OnceKeeps ==
  ASSUME OnceInv, [InboundNext]_inboundVars
  PROVE  OnceInv'
<1> USE DEF OnceInv
<1>1. InboundInv'
  BY InboundKeeps
<1>2. CASE Collect
  <2>1. submitted' = submitted /\ stage # "executing" /\ stage' = "sending"
    BY <1>2 DEF Collect
  <2>2. submitted = <<>> /\ submitted' = <<>> /\ Len(submitted') = 0
    BY <2>1, EmptySeq DEF DecisionsWait
  <2>3. sent' = [a \in Agents |-> IF a \in auto' THEN 1 ELSE 0]
    BY <1>2, CollectSplits
  <2>4. /\ \A i, j \in 1..Len(cards') : i # j => cards'[i].index # cards'[j].index
        /\ \A i \in 1..Len(cards') : cards'[i].agent \notin auto'
    BY <1>2, CollectSplits
  <2>5. DecisionsWait'
    BY <2>2, <2>4 DEF DecisionsWait
  <2>6. DispatchedOnce'
    BY <2>3 DEF DispatchedOnce
  <2>7. QED
    BY <1>1, <2>5, <2>6
<1>3. ASSUME auto' = auto, cards' = cards, submitted' = submitted, sent' = sent,
             stage' = stage \/ (stage' # "executing" /\ submitted = <<>>)
      PROVE  OnceInv'
  BY <1>1, <1>3 DEF DecisionsWait, DispatchedOnce
<1>4. CASE Clarify \/ DispatchError \/ CollectStudio \/ Offer \/ ReplyNow \/ EffectsDone \/ Close
           \/ \E m \in {"single", "parallel", "chain"} : Dispatch(m)
  <2>1. auto' = auto /\ cards' = cards /\ submitted' = submitted /\ sent' = sent
    BY <1>4 DEF Clarify, DispatchError, CollectStudio, Offer, ReplyNow, EffectsDone, Close, Dispatch,
                reviewVars
  <2>2. stage' # "executing" /\ (stage # "executing" \/ submitted = <<>>)
    BY <1>4 DEF Clarify, DispatchError, CollectStudio, Offer, ReplyNow, EffectsDone, Close, Dispatch
  <2>3. submitted = <<>>
    BY <2>2 DEF DecisionsWait
  <2>4. QED
    BY <1>3, <2>1, <2>2, <2>3
<1>5. CASE \/ UNCHANGED inboundVars
           \/ \E types \in SUBSET ActionTypes : UpdateAutoApprovalSettings(types)
           \/ \E a \in Agents :
                \/ (\E out \in Results : HandlerReturns(a, out)) \/ HandlerRejects(a)
                \/ LateReturn(a) \/ ItemReturns(a) \/ RunEffects(a)
  <2>1. /\ auto' = auto /\ cards' = cards /\ submitted' = submitted /\ sent' = sent
        /\ stage' = stage
    BY <1>5 DEF UpdateAutoApprovalSettings, HandlerReturns, HandlerRejects, LateReturn, ItemReturns,
                RunEffects, inboundVars, reviewVars
  <2>2. QED
    BY <1>3, <2>1
<1> HIDE DEF OnceInv
<1>6. CASE Answer \/ Execute
  BY <1>1, <1>6, AnswerOnce, ExecuteOnce DEF OnceInv
<1>7. QED
  BY <1>2, <1>4, <1>5, <1>6 DEF InboundNext

\* For any number of agents and any decisions: no draft passes the review by, none is
\* dispatched twice, however the indices of the cards and their positions in the batch
\* differ, and if nothing was automatic the user's decisions are the ones that are
\* executed (coordinator.ts:74-88, 302-331).
THEOREM DraftsMeet == InboundSpec => []DraftsMeetTheirReview
<1>1. InboundInit => OnceInv
  <2>1. InboundInit => DecisionsWait /\ DispatchedOnce
    BY EmptySeq DEF InboundInit, DecisionsWait, DispatchedOnce
  <2>2. QED
    BY <2>1, InboundStarts DEF OnceInv
<1>2. OnceInv /\ [InboundNext]_inboundVars => OnceInv'
  BY OnceKeeps
<1>3. OnceInv => DraftsMeetTheirReview
  BY CardsAreObeyed DEF OnceInv, DraftsMeetTheirReview
<1>4. QED
  BY <1>1, <1>2, <1>3, PTL DEF InboundSpec
===============================================================================
