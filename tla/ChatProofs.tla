------------------------------ MODULE ChatProofs ------------------------------
(***************************************************************************)
(* Theorems about ChatStream, for any phones, requests, sockets, providers *)
(* and any length of a reply: the types, that only running requests are    *)
(* tracked, and that a bubble never shows a text with a hole.              *)
(***************************************************************************)
EXTENDS TLAPS, SequenceTheorems, ChatStream

(***************************************************************************)
(* The tokens of a request on a wire.                                      *)
(***************************************************************************)
IsToken(e, r) == e.type = "TOKEN_STREAM" /\ e.req = r

Tokens(w, r) == {w[i].token : i \in {k \in 1..Len(w) : IsToken(w[k], r)}}

Rising(w, r) ==
  \A i, j \in 1..Len(w) :
    i < j /\ IsToken(w[i], r) /\ IsToken(w[j], r) => w[i].token < w[j].token

LEMMA TokenInRange ==
  ASSUME NEW w \in Seq(Envelopes), NEW r \in Requests
  PROVE  Tokens(w, r) \subseteq 1..N
<1>1. \A i \in 1..Len(w) : w[i] \in Envelopes
  OBVIOUS
<1>2. \A e \in Envelopes : IsToken(e, r) => e.token \in 1..N
  BY DEF Envelopes, IsToken
<1> QED BY <1>1, <1>2 DEF Tokens

\* A new token comes after all others; anything else leaves them as they are.
LEMMA AppendTokens ==
  ASSUME NEW w \in Seq(Envelopes), NEW e \in Envelopes, NEW r \in Requests
  PROVE  /\ IsToken(e, r) => Tokens(Append(w, e), r) = Tokens(w, r) \cup {e.token}
         /\ ~IsToken(e, r) => Tokens(Append(w, e), r) = Tokens(w, r)
<1> DEFINE v == Append(w, e)
<1>1. /\ Len(v) = Len(w) + 1 /\ v[Len(w) + 1] = e /\ Len(w) \in Nat
      /\ \A i \in 1..Len(w) : v[i] = w[i]
  OBVIOUS
<1> HIDE DEF v
<1>2. 1..Len(v) = 1..Len(w) \cup {Len(w) + 1}
  BY <1>1
<1>3. Tokens(w, r) \subseteq Tokens(v, r)
  BY <1>1, <1>2 DEF Tokens
<1>4. IsToken(e, r) => e.token \in Tokens(v, r)
  BY <1>1, <1>2 DEF Tokens
<1>5. \A t \in Tokens(v, r) : t \in Tokens(w, r) \/ (IsToken(e, r) /\ t = e.token)
  BY <1>1, <1>2 DEF Tokens
<1> QED BY <1>3, <1>4, <1>5 DEF v

LEMMA AppendRising ==
  ASSUME NEW w \in Seq(Envelopes), NEW e \in Envelopes, NEW r \in Requests,
         Rising(w, r), IsToken(e, r) => \A t \in Tokens(w, r) : t < e.token
  PROVE  Rising(Append(w, e), r)
<1> DEFINE v == Append(w, e)
<1>1. /\ Len(v) = Len(w) + 1 /\ v[Len(w) + 1] = e /\ Len(w) \in Nat
      /\ \A i \in 1..Len(w) : v[i] = w[i]
  OBVIOUS
<1> HIDE DEF v
<1>2. SUFFICES ASSUME NEW i \in 1..Len(v), NEW j \in 1..Len(v), i < j,
                      IsToken(v[i], r), IsToken(v[j], r)
               PROVE  v[i].token < v[j].token
  BY DEF Rising, v
<1>3. i \in 1..Len(w) /\ v[i] = w[i]
  BY <1>1, <1>2
<1>4. CASE j \in 1..Len(w)
  BY <1>1, <1>2, <1>3, <1>4 DEF Rising
<1>5. CASE j = Len(w) + 1
  <2>1. w[i].token \in Tokens(w, r)
    BY <1>2, <1>3 DEF Tokens
  <2> QED BY <2>1, <1>1, <1>2, <1>3, <1>5
<1> QED BY <1>1, <1>4, <1>5

\* The head of a rising wire is its least token.
LEMMA TailTokens ==
  ASSUME NEW w \in Seq(Envelopes), w # <<>>, NEW r \in Requests, Rising(w, r)
  PROVE  /\ Rising(Tail(w), r)
         /\ ~IsToken(Head(w), r) => Tokens(Tail(w), r) = Tokens(w, r)
         /\ IsToken(Head(w), r) =>
              /\ Head(w).token \in Tokens(w, r)
              /\ Tokens(Tail(w), r) = Tokens(w, r) \ {Head(w).token}
              /\ \A t \in Tokens(Tail(w), r) : Head(w).token < t
<1> DEFINE v == Tail(w)
<1>1. /\ Len(v) = Len(w) - 1 /\ Len(w) \in Nat \ {0} /\ Head(w) = w[1]
      /\ \A i \in 1..Len(v) : v[i] = w[i + 1]
  OBVIOUS
<1> HIDE DEF v
<1>2. \A i \in 1..Len(v) : i + 1 \in 1..Len(w)
  BY <1>1
<1>3. \A i \in 1..Len(w) : i = 1 \/ i - 1 \in 1..Len(v)
  BY <1>1
<1>4. Rising(v, r)
  <2>1. SUFFICES ASSUME NEW i \in 1..Len(v), NEW j \in 1..Len(v), i < j,
                        IsToken(v[i], r), IsToken(v[j], r)
                 PROVE  v[i].token < v[j].token
    BY DEF Rising
  <2>2. i + 1 \in 1..Len(w) /\ j + 1 \in 1..Len(w) /\ i + 1 < j + 1
    BY <1>2, <2>1
  <2> QED BY <2>1, <2>2, <1>1 DEF Rising
<1>5. \A t \in Tokens(v, r) : t \in Tokens(w, r)
  BY <1>1, <1>2 DEF Tokens
<1>6. \A t \in Tokens(w, r) : t \in Tokens(v, r) \/ (IsToken(w[1], r) /\ t = w[1].token)
  <2>1. SUFFICES ASSUME NEW i \in 1..Len(w), IsToken(w[i], r), i # 1
                 PROVE  w[i].token \in Tokens(v, r)
    BY DEF Tokens
  <2>2. i - 1 \in 1..Len(v) /\ v[i - 1] = w[i]
    BY <1>1, <1>3, <2>1
  <2> QED BY <2>1, <2>2 DEF Tokens
<1>7. IsToken(w[1], r) => w[1].token \in Tokens(w, r)
  BY <1>1 DEF Tokens
<1>8. IsToken(w[1], r) => \A t \in Tokens(v, r) : w[1].token < t
  <2>1. SUFFICES ASSUME IsToken(w[1], r), NEW i \in 1..Len(v), IsToken(v[i], r)
                 PROVE  w[1].token < v[i].token
    BY DEF Tokens
  <2>2. 1 \in 1..Len(w) /\ i + 1 \in 1..Len(w) /\ 1 < i + 1 /\ v[i] = w[i + 1]
    BY <1>1, <1>2
  <2> QED BY <2>1, <2>2 DEF Rising
<1>9. IsToken(w[1], r) => w[1].token \in 1..N /\ Tokens(v, r) \subseteq 1..N
  <2>1. Tokens(w, r) \subseteq 1..N
    BY TokenInRange
  <2> QED BY <2>1, <1>5, <1>7
<1>10. IsToken(w[1], r) => w[1].token \notin Tokens(v, r)
  BY <1>8, <1>9
<1> QED BY <1>1, <1>4, <1>5, <1>6, <1>7, <1>8, <1>10 DEF v

(***************************************************************************)
(* The inductive invariant.                                                *)
(***************************************************************************)
Functions ==
  /\ sock \in [Devices -> Nat] /\ opened \in [Devices -> Nat]
  /\ seen \in [Requests -> Nat] /\ began \in [Requests -> Nat]

Live(s) == s \in sessions \ broken

\* A socket is known once it was opened; a live one is the one its phone reads.
SocketsKnown ==
  /\ \A s \in Sockets : s[2] > opened[s[1]] => wire[s] = <<>> /\ s \notin sessions
  /\ \A s \in Sockets : Live(s) => sock[s[1]] = s[2]

\* A socket carries the envelopes of its phone's requests.
Addressed ==
  \A s \in Sockets : \A i \in 1..Len(wire[s]) : OwnerOf[wire[s][i].req] = s[1]

\* The tokens on a wire rise without a gap, on a live one up to the last pushed.
Rises(w, r, n) ==
  /\ Rising(w, r)
  /\ \A t \in Tokens(w, r) : t <= n
  /\ \A t, u \in Tokens(w, r) : t..u \subseteq Tokens(w, r)

Reaches(w, r, n) == \A t \in Tokens(w, r) : t..n \subseteq Tokens(w, r)

WiresStream ==
  \A s \in Sockets : \A r \in Requests :
    /\ Rises(wire[s], r, streamed[r])
    /\ Live(s) => Reaches(wire[s], r, streamed[r])

\* A buffer holds consecutive tokens, and the wire goes on where it ends.
Last(b) == b[Len(b)]

Continues(b, w, r, n) ==
  /\ \A k \in 1..Len(b) : b[k] = b[1] + k - 1
  /\ Last(b) <= n
  /\ \A t \in Tokens(w, r) :
       Last(b) < t /\ (Last(b) + 1)..t \subseteq Tokens(w, r)

ReadBy(r) == <<OwnerOf[r], sock[OwnerOf[r]]>>

BufferOf(r) ==
  buf[r] # <<>> =>
    /\ ReadBy(r) \in Sockets
    /\ Continues(buf[r], wire[ReadBy(r)], r, streamed[r])
    /\ Live(ReadBy(r)) =>
         (Last(buf[r]) + 1)..streamed[r] \subseteq Tokens(wire[ReadBy(r)], r)

BuffersRun == \A r \in Requests : BufferOf(r)

\* The texts that are shown, or are on their way.
Sayable(x, r) ==
  x \in {AgentsText, Notice} \/ \E i, j \in 0..streamed[r] : x = Piece(i, j)

RepliesSayable ==
  \A s \in Sockets : \A i \in 1..Len(wire[s]) :
    wire[s][i].type = "TASK_COMPLETE" => Sayable(wire[s][i].text, wire[s][i].req)

TextsSayable == \A r \in Requests : Sayable(text[r], r)

(***************************************************************************)
(* Types.                                                                  *)
(***************************************************************************)
LEMMA SocketPairs ==
  /\ \A s \in Sockets :
       s[1] \in Devices /\ s[2] \in 1..MaxConns[s[1]] /\ s = <<s[1], s[2]>>
  /\ \A d \in Devices : \A i \in 1..MaxConns[d] : <<d, i>> \in Sockets
BY DEF Sockets

LEMMA PushTypes ==
  ASSUME TypeOK, NEW r \in Requests, NEW e \in Envelopes, Push(r, e)
  PROVE  wire' \in [Sockets -> Seq(Envelopes)]
<1>1. \A s \in Sockets : Append(wire[s], e) \in Seq(Envelopes)
  BY DEF TypeOK
<1> QED BY <1>1 DEF Push, TypeOK

LEMMA SomeEnvelopes ==
  ASSUME NEW r \in Requests
  PROVE  /\ [type |-> "AGENT_TYPING", req |-> r] \in Envelopes
         /\ [type |-> "ERROR", req |-> r] \in Envelopes
         /\ \A t \in 1..N : [type |-> "TOKEN_STREAM", req |-> r, token |-> t] \in Envelopes
         /\ \A x \in Texts : [type |-> "TASK_COMPLETE", req |-> r, text |-> x] \in Envelopes
BY DEF Envelopes

LEMMA PieceTypes ==
  ASSUME NEW i \in Nat, NEW j \in Nat, i <= j, j <= N
  PROVE  Piece(i, j) \in Seq(1..N) /\ Len(Piece(i, j)) = j - i
<1>1. N \in Nat
  BY ChatAssumption
<1>2. \A k \in 1..(j - i) : i + k \in 1..N
  BY <1>1
<1>3. Piece(i, j) \in [1..(j - i) -> 1..N]
  BY <1>2 DEF Piece
<1>4. j - i \in Nat
  OBVIOUS
<1> DEFINE n == j - i
<1>5. Piece(i, j) \in [1..n -> 1..N] /\ n \in Nat
  BY <1>3, <1>4
<1> HIDE DEF n
<1>6. Piece(i, j) \in Seq(1..N)
  BY <1>5, SeqDef, Zenon
<1>7. 1..Len(Piece(i, j)) = 1..n /\ Len(Piece(i, j)) \in Nat
  BY <1>5, <1>6, LenProperties
<1>8. Len(Piece(i, j)) = n
  BY <1>5, <1>7
<1> QED BY <1>6, <1>8 DEF n

LEMMA TextTypes ==
  /\ AgentsText \in Texts /\ Notice \in Texts /\ <<>> \in Texts
  /\ Seq(1..N) \subseteq Texts
<1>1. N \in Nat
  BY ChatAssumption
<1>2. 1..N \subseteq 0..N + 1 /\ 0 \in 0..N + 1 /\ N + 1 \in 0..N + 1
  BY <1>1
<1>3. Seq(1..N) \subseteq Seq(0..N + 1)
  BY <1>2, SeqMonotonic
<1> QED BY <1>2, <1>3 DEF Texts, AgentsText, Notice

Typed == TypeOK /\ Functions

\* Steps of the gateway that change its own bookkeeping and push one envelope.
LEMMA TypedGateway ==
  ASSUME Typed, NEW r \in Requests, Gateway(r)
  PROVE  Typed'
<1> USE DEF Typed, TypeOK, Functions, netVars, phoneVars, llmVars, Serve
<1> USE DEF Running
<1>1. CASE Typing(r)
  <2>1. wire' \in [Sockets -> Seq(Envelopes)]
    BY <1>1, PushTypes, SomeEnvelopes DEF Typing
  <2> QED BY <1>1, <2>1 DEF Typing, llmVars
<1>2. CASE Fails(r)
  <2>1. wire' \in [Sockets -> Seq(Envelopes)]
    BY <1>2, PushTypes, SomeEnvelopes DEF Fails
  <2> QED BY <1>2, <2>1 DEF Fails, llmVars
<1>3. ASSUME NEW x \in Texts, Complete(r, x), work' \in [Requests -> Running \cup {"none", "done"}]
      PROVE  Typed'
  <2>1. wire' \in [Sockets -> Seq(Envelopes)]
    BY <1>3, PushTypes, SomeEnvelopes DEF Complete
  <2> QED BY <1>3, <2>1 DEF Complete, llmVars
<1>4. CASE ReplyPlain(r)
  BY <1>3, <1>4, TextTypes DEF ReplyPlain
<1>5. CASE Synthesize(r)
  <2>1. /\ work' \in [Requests -> Running \cup {"none", "done"}]
        /\ UNCHANGED <<netVars, wire, sessions, tracked, streamed, began, aborted, phoneVars>>
    BY <1>5 DEF Synthesize
  <2>2. spare' \in [Requests -> 0..Spares]
    BY <1>5 DEF Synthesize
  <2> QED BY <2>1, <2>2
<1>6. CASE Token(r)
  <2>0. N \in Nat /\ streamed \in [Requests -> 0..N] /\ streamed[r] < N
        /\ streamed' = [streamed EXCEPT ![r] = @ + 1]
    BY <1>6, ChatAssumption DEF Token
  <2>a. streamed[r] + 1 \in 1..N
    BY <2>0
  <2>1. /\ streamed'[r] \in 1..N /\ streamed' \in [Requests -> 0..N]
        /\ \A q \in Requests : streamed'[q] >= streamed[q]
    BY <2>0, <2>a
  <2>2. wire' \in [Sockets -> Seq(Envelopes)]
    BY <1>6, <2>1, PushTypes, SomeEnvelopes DEF Token
  <2>3. \A q \in Requests : began'[q] \in 0..streamed'[q]
    BY <1>6, <2>1 DEF Token
  <2> QED BY <1>6, <2>1, <2>2, <2>3 DEF Token
<1>7. CASE Restart(r)
  <2>1. spare' \in [Requests -> 0..Spares]
    BY <1>7, ChatAssumption DEF Restart
  <2>2. \A q \in Requests : began'[q] \in 0..streamed'[q]
    BY <1>7 DEF Restart
  <2>3. began' \in [Requests -> Nat]
    BY <1>7 DEF Restart
  <2> QED BY <1>7, <2>1, <2>2, <2>3 DEF Restart
<1>8. CASE ReplyWhole(r)
  <2>a. /\ N \in Nat /\ streamed[r] \in 0..N /\ began[r] \in 0..streamed[r]
    BY ChatAssumption
  <2>b. began[r] \in Nat /\ streamed[r] \in Nat /\ streamed[r] <= N /\ began[r] <= streamed[r]
    BY <2>a
  <2>1. Piece(began[r], streamed[r]) \in Texts
    BY <2>b, PieceTypes, TextTypes
  <2> QED BY <1>3, <1>8, <2>1 DEF ReplyWhole
<1>9. CASE ReplyFallback(r)
  BY <1>3, <1>9, TextTypes DEF ReplyFallback
<1>10. CASE Finish(r)
  BY <1>10 DEF Finish
<1> QED
  BY <1>1, <1>2, <1>4, <1>5, <1>6, <1>7, <1>8, <1>9, <1>10 DEF Gateway

LEMMA TypedSockets ==
  ASSUME Typed,
         \/ \E d \in Devices : Connect(d) \/ Close(d)
         \/ \E s \in Sockets : Break(s) \/ Unregister(s)
  PROVE  Typed'
<1> USE DEF Typed, TypeOK, Functions, netVars, phoneVars, llmVars, serverVars
<1>1. ASSUME NEW d \in Devices, Connect(d) PROVE Typed'
  <2>1. opened' \in [Devices -> Nat] /\ sock' \in [Devices -> Nat]
    BY <1>1 DEF Connect
  <2>2. /\ MaxConns[d] \in Nat /\ opened[d] \in Nat /\ opened[d] < MaxConns[d]
        /\ opened' = [opened EXCEPT ![d] = @ + 1]
        /\ sock' = [sock EXCEPT ![d] = opened'[d]]
    BY <1>1, ChatAssumption DEF Connect
  <2>3. opened[d] + 1 \in 1..MaxConns[d] /\ opened[d] + 1 \in 0..MaxConns[d]
    BY <2>2
  <2>7. \A c \in Devices : sock'[c] \in 0..opened'[c] /\ opened'[c] \in 0..MaxConns[c]
    BY <2>2, <2>3
  <2>4. sessions' \subseteq Sockets
    BY <1>1, <2>3, SocketPairs DEF Connect
  <2>5. tracked' \subseteq sessions' \X Requests
    BY <1>1 DEF Connect
  <2>6. \A r \in Requests : seen'[r] \in 0..opened'[OwnerOf[r]]
    BY <1>1, ChatAssumption DEF Connect
  <2> QED BY <1>1, <2>1, <2>7, <2>4, <2>5, <2>6 DEF Connect
<1>2. ASSUME NEW d \in Devices, Close(d) PROVE Typed'
  <2>1. wire' \in [Sockets -> Seq(Envelopes)]
    BY <1>2, EmptySeq DEF Close
  <2>2. buf' \in [Requests -> Seq(1..N)]
    BY <1>2, EmptySeq DEF Close
  <2>3. sock' \in [Devices -> Nat] /\ \A c \in Devices : sock'[c] \in 0..opened'[c]
    BY <1>2 DEF Close
  <2> QED BY <1>2, <2>1, <2>2, <2>3 DEF Close
<1>3. ASSUME NEW s \in Sockets, Break(s) PROVE Typed'
  BY <1>3 DEF Break
<1>4. ASSUME NEW s \in Sockets, Unregister(s) PROVE Typed'
  <2>1. tracked' \subseteq sessions' \X Requests
    BY <1>4 DEF Unregister
  <2> QED BY <1>4, <2>1 DEF Unregister
<1> QED BY <1>1, <1>2, <1>3, <1>4

LEMMA TypedPhone ==
  ASSUME Typed,
         \/ \E r \in Requests : Post(r) \/ ResponseLost(r)
         \/ \E d \in Devices : Deliver(d) \/ Flush(d)
  PROVE  Typed'
<1> USE DEF Typed, TypeOK, Functions, netVars, phoneVars, llmVars, serverVars
<1>1. ASSUME NEW r \in Requests, Post(r) PROVE Typed'
  <2>1. seen' \in [Requests -> Nat] /\ \A q \in Requests : seen'[q] \in 0..opened'[OwnerOf[q]]
    BY <1>1, ChatAssumption DEF Post
  <2>a. Accept(r) \/ UNCHANGED <<work, tracked>>
    BY <1>1 DEF Post
  <2>b. sessions' = sessions
    BY <1>1 DEF Post
  <2>c. tracked' \subseteq sessions' \X Requests
    BY <2>a, <2>b DEF Accept
  <2>d. work' \in [Requests -> Running \cup {"none", "done"}]
    BY <2>a DEF Accept, Running
  <2>2. /\ tracked' \subseteq sessions' \X Requests
        /\ work' \in [Requests -> Running \cup {"none", "done"}]
    BY <2>c, <2>d
  <2>3. text' \in [Requests -> Texts]
    <3>1. text' = text \/ text' = [text EXCEPT ![r] = Notice]
      BY <1>1 DEF Post
    <3>2. text \in [Requests -> Texts] /\ Notice \in Texts
      BY TextTypes
    <3> QED BY <3>1, <3>2
  <2>4. /\ status' \in [Requests -> {"none", "sending", "streaming", "done", "error"}]
        /\ lost' \subseteq Requests /\ pendingIds' \subseteq Requests
    BY <1>1 DEF Post
  <2> QED BY <1>1, <2>1, <2>2, <2>3, <2>4 DEF Post
<1>2. ASSUME NEW r \in Requests, ResponseLost(r) PROVE Typed'
  BY <1>2, TextTypes DEF ResponseLost
<1>3. ASSUME NEW d \in Devices, Deliver(d) PROVE Typed'
  <2> DEFINE s == <<d, sock[d]>>
             e == Head(wire[s])
  <2>a. MaxConns[d] \in Nat /\ sock[d] \in 0..opened[d] /\ opened[d] \in 0..MaxConns[d]
        /\ sock[d] # 0
    BY <1>3, ChatAssumption DEF Deliver
  <2>b. sock[d] \in 1..MaxConns[d]
    BY <2>a
  <2>1. s \in Sockets /\ wire[s] # <<>> /\ wire' = [wire EXCEPT ![s] = Tail(@)]
    BY <1>3, <2>b, SocketPairs DEF Deliver
  <2>2. e \in Envelopes /\ Tail(wire[s]) \in Seq(Envelopes)
    BY <2>1, HeadTailProperties
  <2>3. wire' \in [Sockets -> Seq(Envelopes)]
    BY <2>1, <2>2
  <2>4. SeesTyping(e) \/ SeesToken(e) \/ SeesComplete(e) \/ SeesError(e)
    BY <1>3 DEF Deliver
  <2> HIDE DEF e, s
  <2>5. /\ e.req \in Requests
        /\ e.type = "TOKEN_STREAM" => e.token \in 1..N
        /\ e.type = "TASK_COMPLETE" => e.text \in Texts
    BY <2>2 DEF Envelopes
  <2>6. buf' \in [Requests -> Seq(1..N)]
    <3>1. CASE SeesToken(e)
      <4>1. Append(buf[e.req], e.token) \in Seq(1..N)
        BY <2>5, <3>1 DEF SeesToken
      <4> QED BY <3>1, <4>1 DEF SeesToken
    <3>2. CASE SeesComplete(e)
      BY <3>2, EmptySeq DEF SeesComplete
    <3> QED BY <2>4, <3>1, <3>2 DEF SeesTyping, SeesError
  <2>7. text' \in [Requests -> Texts]
    <3>1. CASE SeesComplete(e)
      <4>1. buf[e.req] \in Texts /\ e.text \in Texts /\ text[e.req] \in Texts
        BY <2>5, <3>1, TextTypes DEF SeesComplete
      <4> QED BY <3>1, <4>1 DEF SeesComplete
    <3>2. CASE SeesError(e)
      BY <3>2, TextTypes DEF SeesError
    <3> QED BY <2>4, <3>1, <3>2 DEF SeesTyping, SeesToken
  <2>8. /\ status' \in [Requests -> {"none", "sending", "streaming", "done", "error"}]
        /\ pendingIds' \subseteq Requests
    BY <2>4, <2>5 DEF SeesTyping, SeesToken, SeesComplete, SeesError
  <2> QED BY <1>3, <2>3, <2>6, <2>7, <2>8 DEF Deliver
<1>4. ASSUME NEW d \in Devices, Flush(d) PROVE Typed'
  <2>1. buf' \in [Requests -> Seq(1..N)]
    BY <1>4, EmptySeq DEF Flush
  <2>2. text' \in [Requests -> Texts]
    BY <1>4, TextTypes DEF Flush
  <2> QED BY <1>4, <2>1, <2>2 DEF Flush
<1> QED BY <1>1, <1>2, <1>3, <1>4

LEMMA TypedInit == Init => Typed
<1> SUFFICES ASSUME Init PROVE Typed
  OBVIOUS
<1>1. N \in Nat /\ Spares \in Nat /\ 0 \in 0..N /\ 0 \in 0..Spares
  BY ChatAssumption
<1>2. \A d \in Devices : 0 \in 0..MaxConns[d]
  BY ChatAssumption
<1> QED BY <1>1, <1>2, EmptySeq, TextTypes, ChatAssumption DEF Init, Typed, TypeOK, Functions

LEMMA TypedStep == Typed /\ [Next]_vars => Typed'
<1>1. Typed /\ UNCHANGED vars => Typed'
  BY DEF Typed, TypeOK, Functions, vars, netVars, serverVars, phoneVars, llmVars
<1>2. Typed /\ Next => Typed'
  BY TypedGateway, TypedSockets, TypedPhone DEF Next
<1> QED BY <1>1, <1>2

\* The variables of every reachable state have their types, for any phones,
\* requests, sockets, fallback providers and length of the replies.
THEOREM TypeCorrect == Spec => []TypeOK
<1>1. Spec => []Typed
  BY TypedInit, TypedStep, PTL DEF Spec
<1>2. Typed => TypeOK
  BY DEF Typed
<1> QED BY <1>1, <1>2, PTL

(***************************************************************************)
(* Controllers.                                                            *)
(***************************************************************************)
LEMMA TrackedStep ==
  ASSUME Typed, TrackedIsRunning, [Next]_vars
  PROVE  TrackedIsRunning'
<1> USE DEF Typed, TypeOK, TrackedIsRunning, Running
<1>1. ASSUME UNCHANGED <<tracked, work>> PROVE TrackedIsRunning'
  BY <1>1
<1>2. ASSUME NEW r \in Requests, Gateway(r) PROVE TrackedIsRunning'
  <2>1. CASE Fails(r) \/ Finish(r)
    <3>1. tracked' = {t \in tracked : t[2] # r}
      BY <2>1 DEF Fails, Finish
    <3>2. \A t \in tracked' : t \in tracked /\ t[2] # r /\ t[2] \in Requests
      BY <3>1
    <3>3. \A q \in Requests : q # r => work'[q] = work[q]
      BY <2>1 DEF Fails, Finish, Serve
    <3> QED BY <3>2, <3>3
  <2>2. CASE ~(Fails(r) \/ Finish(r))
    <3>1. tracked' = tracked
      BY <1>2, <2>2 DEF Gateway, Typing, ReplyPlain, Synthesize, Token, Restart,
                        ReplyWhole, ReplyFallback, Complete
    <3>2. \/ work' = work
          \/ \E w \in Running : work' = [work EXCEPT ![r] = w]
      BY <1>2, <2>2 DEF Gateway, Typing, ReplyPlain, Synthesize, Token, Restart,
                        ReplyWhole, ReplyFallback, Serve
    <3>3. \A t \in tracked : t[2] \in Requests
      OBVIOUS
    <3> QED BY <3>1, <3>2, <3>3
  <2> QED BY <2>1, <2>2
<1>3. ASSUME NEW r \in Requests, Post(r) PROVE TrackedIsRunning'
  <2>1. CASE UNCHANGED <<work, tracked>>
    BY <2>1
  <2>2. CASE Accept(r)
    <3>1. \A t \in tracked' : t \in tracked \/ t[2] = r
      BY <2>2 DEF Accept
    <3>2. work'[r] \in Running /\ \A q \in Requests : q # r => work'[q] = work[q]
      BY <2>2 DEF Accept
    <3>3. \A t \in tracked : t[2] \in Requests
      OBVIOUS
    <3> QED BY <3>1, <3>2, <3>3
  <2> QED BY <1>3, <2>1, <2>2 DEF Post
<1>4. ASSUME NEW s \in Sockets, Unregister(s) PROVE TrackedIsRunning'
  <2>1. tracked' \subseteq tracked /\ work' = work
    BY <1>4 DEF Unregister
  <2> QED BY <2>1
<1>5. ASSUME NEW s \in Sockets, Break(s) PROVE TrackedIsRunning'
  BY <1>1, <1>5 DEF Break, serverVars
<1>6. ASSUME NEW r \in Requests, ResponseLost(r) PROVE TrackedIsRunning'
  BY <1>1, <1>6 DEF ResponseLost, serverVars
<1>7. ASSUME NEW d \in Devices, Connect(d) \/ Close(d) \/ Deliver(d) \/ Flush(d)
      PROVE  TrackedIsRunning'
  BY <1>1, <1>7 DEF Connect, Close, Deliver, Flush, serverVars
<1>8. CASE UNCHANGED vars
  BY <1>1, <1>8 DEF vars, serverVars
<1> QED BY <1>2, <1>3, <1>4, <1>5, <1>6, <1>7, <1>8 DEF Next

\* A disconnect never aborts a request that is over, and what an open socket
\* tracks does not pile up.
THEOREM NoStaleController == Spec => []TrackedIsRunning
<1>1. Init => TrackedIsRunning
  BY DEF Init, TrackedIsRunning
<1> QED BY <1>1, TypedInit, TypedStep, TrackedStep, PTL DEF Spec

(***************************************************************************)
(* What pushing and delivering do to the tokens on one wire.               *)
(***************************************************************************)
LEMMA EmptyWire ==
  ASSUME NEW r \in Requests, NEW n \in Nat
  PROVE  Tokens(<<>>, r) = {} /\ Rises(<<>>, r, n) /\ Reaches(<<>>, r, n)
<1>1. Tokens(<<>>, r) = {}
  BY DEF Tokens
<1>2. Rising(<<>>, r)
  BY DEF Rising
<1> QED BY <1>1, <1>2 DEF Rises, Reaches

LEMMA PushOther ==
  ASSUME NEW w \in Seq(Envelopes), NEW e \in Envelopes, NEW r \in Requests,
         NEW n \in Nat, ~IsToken(e, r), Rises(w, r, n)
  PROVE  /\ Rises(Append(w, e), r, n)
         /\ Reaches(w, r, n) => Reaches(Append(w, e), r, n)
         /\ Tokens(Append(w, e), r) = Tokens(w, r)
<1>1. Tokens(Append(w, e), r) = Tokens(w, r)
  BY AppendTokens
<1>2. Rising(Append(w, e), r)
  BY AppendRising DEF Rises
<1> QED BY <1>1, <1>2 DEF Rises, Reaches

LEMMA PushToken ==
  ASSUME NEW w \in Seq(Envelopes), NEW e \in Envelopes, NEW r \in Requests,
         NEW n \in Nat, IsToken(e, r), e.token = n + 1,
         Rises(w, r, n), Reaches(w, r, n)
  PROVE  /\ Rises(Append(w, e), r, n + 1)
         /\ Reaches(Append(w, e), r, n + 1)
         /\ Tokens(Append(w, e), r) = Tokens(w, r) \cup {n + 1}
<1> DEFINE T == Tokens(w, r)
           U == Tokens(Append(w, e), r)
<1>1. U = T \cup {n + 1}
  BY AppendTokens
<1>2. T \subseteq Nat /\ \A t \in T : t <= n
  <2>1. T \subseteq 1..N
    BY TokenInRange
  <2> QED BY <2>1, ChatAssumption DEF Rises
<1>3. Rising(Append(w, e), r)
  BY <1>2, AppendRising DEF Rises
<1>4. /\ \A t \in T : t..n \subseteq T
      /\ \A t, u \in T : t..u \subseteq T
  BY DEF Rises, Reaches
<1> HIDE DEF T, U
<1>5. \A t \in U : t <= n + 1
  BY <1>1, <1>2
<1>6. \A t \in U : t..(n + 1) \subseteq U
  <2>1. SUFFICES ASSUME NEW t \in U, NEW k \in t..(n + 1) PROVE k \in U
    OBVIOUS
  <2>2. CASE t = n + 1
    BY <1>1, <2>1, <2>2
  <2>3. CASE t \in T
    <3>1. k \in t..n \/ k = n + 1
      BY <1>2, <2>1, <2>3
    <3> QED BY <1>1, <1>4, <2>3, <3>1
  <2> QED BY <1>1, <2>2, <2>3
<1>7. \A t, u \in U : t..u \subseteq U
  <2>1. SUFFICES ASSUME NEW t \in U, NEW u \in U, NEW k \in t..u PROVE k \in U
    OBVIOUS
  <2>2. k \in t..(n + 1)
    BY <1>1, <1>2, <1>5, <2>1
  <2> QED BY <1>6, <2>1, <2>2
<1> QED BY <1>1, <1>3, <1>5, <1>6, <1>7 DEF Rises, Reaches, T, U

LEMMA MoreStreamed ==
  ASSUME NEW w \in Seq(Envelopes), NEW r \in Requests, NEW n \in Nat, Rises(w, r, n)
  PROVE  Rises(w, r, n + 1)
<1>1. Tokens(w, r) \subseteq 1..N
  BY TokenInRange
<1> QED BY <1>1, ChatAssumption DEF Rises

LEMMA Popped ==
  ASSUME NEW w \in Seq(Envelopes), w # <<>>, NEW r \in Requests, NEW n \in Nat,
         Rises(w, r, n)
  PROVE  /\ Rises(Tail(w), r, n)
         /\ Reaches(w, r, n) => Reaches(Tail(w), r, n)
<1> DEFINE T == Tokens(w, r)
           U == Tokens(Tail(w), r)
<1>1. Rising(Tail(w), r)
  BY TailTokens DEF Rises
<1>2. CASE ~IsToken(Head(w), r)
  BY <1>1, <1>2, TailTokens DEF Rises, Reaches
<1>3. CASE IsToken(Head(w), r)
  <2> DEFINE h == Head(w).token
  <2>1. h \in T /\ U = T \ {h} /\ \A t \in U : h < t
    BY <1>3, TailTokens DEF Rises
  <2>2. T \subseteq Nat
    <3>1. T \subseteq 1..N
      BY TokenInRange
    <3> QED BY <3>1, ChatAssumption
  <2>3. /\ \A t \in T : t <= n
        /\ \A t, u \in T : t..u \subseteq T
        /\ Reaches(w, r, n) => \A t \in T : t..n \subseteq T
    BY DEF Rises, Reaches
  <2> HIDE DEF T, U, h
  <2>4. \A t, u \in U : t..u \subseteq U
    <3>1. SUFFICES ASSUME NEW t \in U, NEW u \in U, NEW k \in t..u PROVE k \in U
      OBVIOUS
    <3>2. k \in T /\ h < k
      BY <2>1, <2>2, <2>3, <3>1
    <3> QED BY <2>1, <2>2, <3>2
  <2>5. Reaches(w, r, n) => \A t \in U : t..n \subseteq U
    <3>1. SUFFICES ASSUME Reaches(w, r, n), NEW t \in U, NEW k \in t..n PROVE k \in U
      OBVIOUS
    <3>2. k \in T /\ h < k
      BY <2>1, <2>2, <2>3, <3>1
    <3> QED BY <2>1, <2>2, <3>2
  <2> QED BY <1>1, <2>1, <2>3, <2>4, <2>5 DEF Rises, Reaches, T, U
<1> QED BY <1>2, <1>3

(***************************************************************************)
(* The wires.                                                              *)
(***************************************************************************)
WireInv == SocketsKnown /\ Addressed /\ WiresStream

\* Pushing what is no token.
LEMMA WirePush ==
  ASSUME Typed, WireInv, NEW r \in Requests, NEW e \in Envelopes, Push(r, e),
         e.req = r, e.type # "TOKEN_STREAM",
         UNCHANGED <<sock, opened, broken, sessions, streamed>>
  PROVE  WireInv'
<1> USE DEF Typed, TypeOK, WireInv
<1>1. \A s \in Sockets :
        \/ wire'[s] = wire[s]
        \/ wire'[s] = Append(wire[s], e) /\ s[1] = OwnerOf[r] /\ Live(s)
  BY DEF Push, Live
<1>2. SocketsKnown'
  BY <1>1 DEF SocketsKnown, Live
<1>3. Addressed'
  <2>1. SUFFICES ASSUME NEW s \in Sockets, NEW i \in 1..Len(wire'[s])
                 PROVE  OwnerOf[wire'[s][i].req] = s[1]
    BY DEF Addressed
  <2>2. CASE wire'[s] = wire[s]
    BY <2>1, <2>2 DEF Addressed
  <2>3. CASE wire'[s] = Append(wire[s], e) /\ s[1] = OwnerOf[r]
    <3>1. /\ wire[s] \in Seq(Envelopes)
          /\ (i \in 1..Len(wire[s]) /\ wire'[s][i] = wire[s][i]) \/ wire'[s][i] = e
      BY <2>1, <2>3
    <3> QED BY <2>3, <3>1 DEF Addressed
  <2> QED BY <1>1, <2>2, <2>3
<1>4. WiresStream'
  <2>1. SUFFICES ASSUME NEW s \in Sockets, NEW q \in Requests
                 PROVE  /\ Rises(wire'[s], q, streamed[q])
                        /\ Live(s) => Reaches(wire'[s], q, streamed[q])
    BY DEF WiresStream, Live
  <2>2. /\ wire[s] \in Seq(Envelopes) /\ streamed[q] \in Nat
        /\ Rises(wire[s], q, streamed[q])
        /\ Live(s) => Reaches(wire[s], q, streamed[q])
    BY ChatAssumption DEF WiresStream
  <2>3. ~IsToken(e, q)
    BY DEF IsToken
  <2>4. /\ Rises(Append(wire[s], e), q, streamed[q])
        /\ Reaches(wire[s], q, streamed[q]) => Reaches(Append(wire[s], e), q, streamed[q])
    BY <2>2, <2>3, PushOther
  <2> QED BY <1>1, <2>2, <2>4
<1> QED BY <1>2, <1>3, <1>4

LEMMA WireToken ==
  ASSUME Typed, WireInv, NEW r \in Requests, Token(r)
  PROVE  WireInv'
<1> USE DEF Typed, TypeOK, WireInv
<1> DEFINE n == streamed[r]
           e == [type |-> "TOKEN_STREAM", req |-> r, token |-> n + 1]
<1>1. /\ n \in Nat /\ n + 1 \in 1..N
      /\ streamed' = [streamed EXCEPT ![r] = n + 1]
      /\ Push(r, [type |-> "TOKEN_STREAM", req |-> r, token |-> streamed'[r]])
      /\ UNCHANGED <<sock, opened, broken, sessions>>
  BY ChatAssumption DEF Token, netVars
<1>2. streamed'[r] = n + 1 /\ \A q \in Requests : q # r => streamed'[q] = streamed[q]
  BY <1>1
<1>3. e \in Envelopes /\ e.req = r /\ IsToken(e, r) /\ e.token = n + 1
  BY <1>1, SomeEnvelopes DEF IsToken
<1>4. \A s \in Sockets :
        \/ wire'[s] = wire[s] /\ (~Live(s) \/ s[1] # OwnerOf[r])
        \/ wire'[s] = Append(wire[s], e) /\ s[1] = OwnerOf[r] /\ Live(s)
  BY <1>1, <1>2 DEF Push, Live
<1> HIDE DEF e, n
<1>5. SocketsKnown'
  BY <1>1, <1>4 DEF SocketsKnown, Live
<1>6. Addressed'
  <2>1. SUFFICES ASSUME NEW s \in Sockets, NEW i \in 1..Len(wire'[s])
                 PROVE  OwnerOf[wire'[s][i].req] = s[1]
    BY DEF Addressed
  <2>2. CASE wire'[s] = wire[s]
    BY <2>1, <2>2 DEF Addressed
  <2>3. CASE wire'[s] = Append(wire[s], e) /\ s[1] = OwnerOf[r]
    <3>1. /\ wire[s] \in Seq(Envelopes)
          /\ (i \in 1..Len(wire[s]) /\ wire'[s][i] = wire[s][i]) \/ wire'[s][i] = e
      BY <2>1, <2>3, <1>3
    <3> QED BY <1>3, <2>3, <3>1 DEF Addressed
  <2> QED BY <1>4, <2>2, <2>3
<1>7. WiresStream'
  <2>1. SUFFICES ASSUME NEW s \in Sockets, NEW q \in Requests
                 PROVE  /\ Rises(wire'[s], q, streamed'[q])
                        /\ Live(s) => Reaches(wire'[s], q, streamed'[q])
    BY <1>1 DEF WiresStream, Live
  <2>2. /\ wire[s] \in Seq(Envelopes) /\ streamed[q] \in Nat
        /\ Rises(wire[s], q, streamed[q])
        /\ Live(s) => Reaches(wire[s], q, streamed[q])
    BY ChatAssumption DEF WiresStream
  <2>3. CASE q # r
    <3>1. ~IsToken(e, q)
      BY <1>3, <2>3 DEF IsToken
    <3>2. /\ Rises(Append(wire[s], e), q, streamed[q])
          /\ Reaches(wire[s], q, streamed[q]) => Reaches(Append(wire[s], e), q, streamed[q])
      BY <1>3, <2>2, <3>1, PushOther
    <3> QED BY <1>2, <1>4, <2>2, <2>3, <3>2
  <2>4. CASE q = r /\ wire'[s] = Append(wire[s], e) /\ Live(s)
    <3>1. Rises(Append(wire[s], e), r, n + 1) /\ Reaches(Append(wire[s], e), r, n + 1)
      BY <1>1, <1>3, <2>2, <2>4, PushToken DEF n
    <3> QED BY <1>2, <2>4, <3>1
  <2>5. CASE q = r /\ wire'[s] = wire[s] /\ ~Live(s)
    <3>1. Rises(wire[s], r, n + 1)
      BY <2>2, <2>5, MoreStreamed DEF n
    <3> QED BY <1>2, <2>5, <3>1
  <2>6. CASE q = r /\ wire'[s] = wire[s] /\ s[1] # OwnerOf[r]
    <3>1. Tokens(wire[s], r) = {}
      BY <2>6 DEF Tokens, IsToken, Addressed
    <3>2. Rises(wire[s], r, n + 1)
      BY <2>2, <2>6, MoreStreamed DEF n
    <3> QED BY <1>2, <2>6, <3>1, <3>2 DEF Reaches
  <2> QED BY <1>4, <2>3, <2>4, <2>5, <2>6
<1> QED BY <1>5, <1>6, <1>7

\* Sockets open, break and close; what is on a wire at most disappears.
LEMMA WireSockets ==
  ASSUME Typed, WireInv,
         \/ \E d \in Devices : Connect(d) \/ Close(d)
         \/ \E s \in Sockets : Break(s) \/ Unregister(s)
  PROVE  WireInv'
<1> USE DEF Typed, TypeOK, Functions, WireInv
<1>1. ASSUME NEW d \in Devices, Connect(d) PROVE WireInv'
  <2> DEFINE k == opened[d] + 1
  <2>a. MaxConns[d] \in Nat /\ opened[d] \in Nat
    BY ChatAssumption
  <2>b. /\ opened[d] < MaxConns[d] /\ sock[d] = 0 /\ opened' = [opened EXCEPT ![d] = k]
        /\ sock' = [sock EXCEPT ![d] = opened'[d]]
        /\ sessions' = sessions \cup {<<d, opened'[d]>>}
        /\ UNCHANGED <<broken, wire, streamed>>
    BY <1>1 DEF Connect, llmVars
  <2>c. opened'[d] = k
    BY <2>b
  <2>1. /\ k \in Nat /\ k > opened[d] /\ sock[d] = 0
        /\ opened' = [opened EXCEPT ![d] = k] /\ sock' = [sock EXCEPT ![d] = k]
        /\ sessions' = sessions \cup {<<d, k>>} /\ broken' = broken
        /\ wire' = wire /\ streamed' = streamed
        /\ k <= MaxConns[d] /\ MaxConns[d] \in Nat
    BY <2>a, <2>b, <2>c
  <2>2. k \in 1..MaxConns[d]
    BY <2>1
  <2>3. <<d, k>> \in Sockets /\ wire[<<d, k>>] = <<>>
    BY <2>1, <2>2, SocketPairs DEF SocketsKnown
  <2> HIDE DEF k
  <2>4. \A s \in Sockets : s \in sessions' \ broken' => Live(s) \/ s = <<d, k>>
    BY <2>1 DEF Live
  <2>5. \A s \in Sockets : s[1] = d => ~Live(s)
    <3>1. \A s \in Sockets : s[2] # 0
      BY SocketPairs
    <3> QED BY <2>1, <3>1 DEF SocketsKnown
  <2>6. SocketsKnown'
    <3>1. ASSUME NEW s \in Sockets, s[2] > opened'[s[1]]
          PROVE  wire'[s] = <<>> /\ s \notin sessions'
      <4>1. s[1] \in Devices /\ s[2] \in Nat
        BY SocketPairs, ChatAssumption
      <4>2. s[2] > opened[s[1]]
        BY <2>1, <3>1, <4>1
      <4>3. s # <<d, k>>
        BY <2>1, <3>1, <4>1
      <4> QED BY <2>1, <4>2, <4>3 DEF SocketsKnown
    <3>2. ASSUME NEW s \in Sockets, s \in sessions' \ broken'
          PROVE  sock'[s[1]] = s[2]
      <4>1. s[1] \in Devices
        BY SocketPairs
      <4> QED BY <2>1, <2>4, <2>5, <3>2, <4>1 DEF SocketsKnown
    <3> QED BY <3>1, <3>2 DEF SocketsKnown, Live
  <2>7. Addressed'
    BY <2>1 DEF Addressed
  <2>8. WiresStream'
    <3>1. SUFFICES ASSUME NEW s \in Sockets, NEW q \in Requests
                   PROVE  /\ Rises(wire[s], q, streamed[q])
                          /\ s \in sessions' \ broken' => Reaches(wire[s], q, streamed[q])
      BY <2>1 DEF WiresStream, Live
    <3>2. CASE s = <<d, k>>
      BY <2>3, <3>2, EmptyWire, ChatAssumption
    <3>3. CASE s # <<d, k>>
      BY <2>4, <3>3 DEF WiresStream
    <3> QED BY <3>2, <3>3
  <2> QED BY <2>6, <2>7, <2>8
<1>2. ASSUME NEW d \in Devices, Close(d) PROVE WireInv'
  <2> DEFINE c == <<d, sock[d]>>
  <2>1. /\ c \in broken /\ c \in Sockets /\ sock' = [sock EXCEPT ![d] = 0]
        /\ wire' = [wire EXCEPT ![c] = <<>>]
        /\ UNCHANGED <<opened, broken, sessions, streamed>>
    BY <1>2 DEF Close, serverVars, llmVars
  <2>2. \A s \in Sockets : Live(s) => s[1] # d
    <3>1. SUFFICES ASSUME NEW s \in Sockets, Live(s), s[1] = d PROVE FALSE
      OBVIOUS
    <3>2. s = <<d, s[2]>> /\ sock[d] = s[2]
      BY <3>1, SocketPairs DEF SocketsKnown
    <3> QED BY <2>1, <3>1, <3>2 DEF Live
  <2> HIDE DEF c
  <2>3. \A s \in Sockets : wire'[s] = wire[s] \/ wire'[s] = <<>>
    BY <2>1
  <2>4. SocketsKnown'
    <3>1. \A s \in Sockets : s[1] # d => sock'[s[1]] = sock[s[1]]
      BY <2>1, SocketPairs
    <3> QED BY <2>1, <2>2, <2>3, <3>1 DEF SocketsKnown, Live
  <2>5. Addressed'
    <3>1. SUFFICES ASSUME NEW s \in Sockets, NEW i \in 1..Len(wire'[s])
                   PROVE  OwnerOf[wire'[s][i].req] = s[1]
      BY DEF Addressed
    <3>2. wire'[s] # <<>>
      BY <3>1
    <3> QED BY <2>3, <3>1, <3>2 DEF Addressed
  <2>6. WiresStream'
    <3>1. SUFFICES ASSUME NEW s \in Sockets, NEW q \in Requests
                   PROVE  /\ Rises(wire'[s], q, streamed[q])
                          /\ Live(s) => Reaches(wire'[s], q, streamed[q])
      BY <2>1 DEF WiresStream, Live
    <3>2. streamed[q] \in Nat
      BY ChatAssumption
    <3> QED BY <2>3, <3>2, EmptyWire DEF WiresStream
  <2> QED BY <2>4, <2>5, <2>6
<1>3. ASSUME NEW s \in Sockets, Break(s) \/ Unregister(s) PROVE WireInv'
  <2>1. /\ UNCHANGED <<sock, opened, wire, streamed>>
        /\ sessions' \subseteq sessions /\ broken \subseteq broken'
    BY <1>3 DEF Break, Unregister, netVars, serverVars, llmVars
  <2>2. SocketsKnown'
    BY <2>1 DEF SocketsKnown, Live
  <2>3. Addressed'
    BY <2>1 DEF Addressed
  <2>4. WiresStream'
    BY <2>1 DEF WiresStream, Live
  <2> QED BY <2>2, <2>3, <2>4
<1> QED BY <1>1, <1>2, <1>3

\* A phone takes the head of the wire it reads.
Head1(d) == Head(wire[<<d, sock[d]>>])

LEMMA DeliverTakes ==
  ASSUME Typed, NEW d \in Devices, Deliver(d)
  PROVE  LET s == <<d, sock[d]>>
         IN /\ s \in Sockets /\ wire[s] # <<>> /\ wire[s] \in Seq(Envelopes)
            /\ wire' = [wire EXCEPT ![s] = Tail(@)]
            /\ Head1(d) \in Envelopes /\ Head1(d) = wire[s][1] /\ 1 \in 1..Len(wire[s])
            /\ Tail(wire[s]) \in Seq(Envelopes)
            /\ \A i \in 1..Len(Tail(wire[s])) :
                 i + 1 \in 1..Len(wire[s]) /\ Tail(wire[s])[i] = wire[s][i + 1]
<1> USE DEF Typed, TypeOK, Functions
<1> DEFINE s == <<d, sock[d]>>
<1>1. /\ MaxConns[d] \in Nat /\ sock[d] \in 0..opened[d] /\ opened[d] \in 0..MaxConns[d]
      /\ sock[d] # 0
  BY ChatAssumption DEF Deliver
<1>2. sock[d] \in 1..MaxConns[d]
  BY <1>1
<1>3. /\ s \in Sockets /\ wire[s] # <<>> /\ wire' = [wire EXCEPT ![s] = Tail(@)]
      /\ wire[s] \in Seq(Envelopes)
  BY <1>2, SocketPairs DEF Deliver
<1> HIDE DEF s
<1>4. /\ Head(wire[s]) \in Envelopes /\ Tail(wire[s]) \in Seq(Envelopes)
      /\ Len(Tail(wire[s])) = Len(wire[s]) - 1 /\ Len(wire[s]) \in Nat \ {0}
      /\ \A i \in 1..Len(Tail(wire[s])) : Tail(wire[s])[i] = wire[s][i + 1]
  BY <1>3, HeadTailProperties, EmptySeq
<1>5. Head(wire[s]) = wire[s][1] /\ 1 \in 1..Len(wire[s])
  BY <1>3, <1>4
<1>6. \A i \in 1..Len(Tail(wire[s])) : i + 1 \in 1..Len(wire[s])
  BY <1>4
<1> QED BY <1>3, <1>4, <1>5, <1>6 DEF Head1, s

LEMMA WireDeliver ==
  ASSUME Typed, WireInv, NEW d \in Devices, Deliver(d)
  PROVE  WireInv'
<1> USE DEF Typed, TypeOK, Functions, WireInv
<1> DEFINE c == <<d, sock[d]>>
<1>1. /\ c \in Sockets /\ wire[c] # <<>> /\ wire[c] \in Seq(Envelopes)
      /\ wire' = [wire EXCEPT ![c] = Tail(@)]
      /\ \A i \in 1..Len(Tail(wire[c])) :
           i + 1 \in 1..Len(wire[c]) /\ Tail(wire[c])[i] = wire[c][i + 1]
  BY DeliverTakes
<1>2. UNCHANGED <<sock, opened, broken, sessions, streamed>>
  BY DEF Deliver, netVars, serverVars, llmVars
<1> HIDE DEF c
<1>3. wire'[c] = Tail(wire[c]) /\ \A s \in Sockets : s # c => wire'[s] = wire[s]
  BY <1>1
<1>4. SocketsKnown'
  BY <1>1, <1>2, <1>3 DEF SocketsKnown, Live
<1>5. Addressed'
  <2>1. SUFFICES ASSUME NEW s \in Sockets, NEW i \in 1..Len(wire'[s])
                 PROVE  OwnerOf[wire'[s][i].req] = s[1]
    BY DEF Addressed
  <2>2. CASE s # c
    BY <1>3, <2>1, <2>2 DEF Addressed
  <2>3. CASE s = c
    <3>1. /\ i \in 1..Len(Tail(wire[c])) /\ wire'[s][i] = Tail(wire[c])[i]
      BY <1>3, <2>1, <2>3
    <3>2. i + 1 \in 1..Len(wire[c]) /\ wire'[s][i] = wire[c][i + 1]
      BY <1>1, <3>1
    <3> QED BY <1>1, <2>3, <3>2 DEF Addressed
  <2> QED BY <2>2, <2>3
<1>6. WiresStream'
  <2>1. SUFFICES ASSUME NEW s \in Sockets, NEW q \in Requests
                 PROVE  /\ Rises(wire'[s], q, streamed[q])
                        /\ Live(s) => Reaches(wire'[s], q, streamed[q])
    BY <1>2 DEF WiresStream, Live
  <2>2. /\ streamed[q] \in Nat
        /\ Rises(wire[s], q, streamed[q])
        /\ Live(s) => Reaches(wire[s], q, streamed[q])
    BY ChatAssumption DEF WiresStream
  <2>3. CASE s = c
    <3>1. /\ Rises(Tail(wire[c]), q, streamed[q])
          /\ Reaches(wire[c], q, streamed[q]) => Reaches(Tail(wire[c]), q, streamed[q])
      BY <1>1, <2>2, <2>3, Popped
    <3> QED BY <1>3, <2>2, <2>3, <3>1
  <2> QED BY <1>3, <2>2, <2>3
<1> QED BY <1>4, <1>5, <1>6

\* What a step of the gateway pushes: a token, something else, or nothing.
LEMMA GatewayPushes ==
  ASSUME Typed, NEW r \in Requests, Gateway(r)
  PROVE  \/ Token(r)
         \/ UNCHANGED <<wire, streamed>>
         \/ /\ UNCHANGED streamed
            /\ \E e \in Envelopes :
                 /\ Push(r, e) /\ e.req = r /\ e.type # "TOKEN_STREAM"
                 /\ e.type = "TASK_COMPLETE" => Sayable(e.text, r)
<1> USE DEF Typed, TypeOK, Functions
<1>1. ASSUME NEW x \in Texts, Complete(r, x), Sayable(x, r)
      PROVE  /\ UNCHANGED streamed
             /\ \E e \in Envelopes :
                  /\ Push(r, e) /\ e.req = r /\ e.type # "TOKEN_STREAM"
                  /\ e.type = "TASK_COMPLETE" => Sayable(e.text, r)
  <2> DEFINE e == [type |-> "TASK_COMPLETE", req |-> r, text |-> x]
  <2>1. e \in Envelopes /\ Push(r, e) /\ streamed' = streamed
    BY <1>1, SomeEnvelopes DEF Complete, llmVars
  <2>2. e.req = r /\ e.type # "TOKEN_STREAM" /\ e.text = x
    OBVIOUS
  <2> QED BY <1>1, <2>1, <2>2
<1>2. CASE Typing(r) \/ Fails(r)
  <2>1. \E e \in Envelopes : Push(r, e) /\ e.req = r /\ e.type \in {"AGENT_TYPING", "ERROR"}
    BY <1>2, SomeEnvelopes DEF Typing, Fails
  <2>2. streamed' = streamed
    BY <1>2 DEF Typing, Fails, llmVars
  <2> QED BY <2>1, <2>2
<1>3. CASE ReplyPlain(r)
  BY <1>1, <1>3, TextTypes DEF ReplyPlain, Sayable
<1>4. CASE ReplyFallback(r)
  <2>1. <<>> = Piece(0, 0)
    <3>1. Piece(0, 0) \in Seq(1..N) /\ Len(Piece(0, 0)) = 0
      BY PieceTypes, ChatAssumption
    <3> QED BY <3>1, EmptySeq
  <2>2. 0 \in 0..streamed[r]
    BY ChatAssumption
  <2>3. Sayable(<<>>, r)
    BY <2>1, <2>2 DEF Sayable
  <2>4. Sayable(AgentsText, r)
    BY DEF Sayable
  <2> QED BY <1>1, <1>4, <2>3, <2>4, TextTypes DEF ReplyFallback
<1>5. CASE ReplyWhole(r)
  <2> DEFINE x == Piece(began[r], streamed[r])
  <2>1. /\ began[r] \in Nat /\ streamed[r] \in Nat /\ began[r] <= streamed[r]
        /\ streamed[r] <= N
    BY ChatAssumption
  <2>2. x \in Texts
    BY <2>1, PieceTypes, TextTypes
  <2>3. began[r] \in 0..streamed[r] /\ streamed[r] \in 0..streamed[r]
    BY <2>1
  <2>4. Sayable(x, r)
    BY <2>3 DEF Sayable
  <2>5. Complete(r, x)
    BY <1>5 DEF ReplyWhole
  <2> HIDE DEF x
  <2> QED BY <1>1, <2>2, <2>4, <2>5
<1>6. CASE Synthesize(r) \/ Restart(r) \/ Finish(r)
  BY <1>6 DEF Synthesize, Restart, Finish, llmVars
<1> QED BY <1>2, <1>3, <1>4, <1>5, <1>6 DEF Gateway

LEMMA GatewayKeepsSockets ==
  ASSUME NEW r \in Requests, Gateway(r)
  PROVE  UNCHANGED <<sock, opened, broken, sessions, buf, text>>
BY DEF Gateway, Typing, Fails, ReplyPlain, Complete, Synthesize, Token, Restart,
       ReplyWhole, ReplyFallback, Finish, netVars, phoneVars

LEMMA WireStep == ASSUME Typed, WireInv, [Next]_vars PROVE WireInv'
<1>1. ASSUME UNCHANGED <<sock, opened, broken, sessions, wire, streamed>> PROVE WireInv'
  BY <1>1 DEF WireInv, SocketsKnown, Addressed, WiresStream, Live
<1>2. ASSUME NEW r \in Requests, Gateway(r) PROVE WireInv'
  BY <1>1, <1>2, GatewayPushes, GatewayKeepsSockets, WirePush, WireToken
<1>3. ASSUME NEW r \in Requests, Post(r) \/ ResponseLost(r) PROVE WireInv'
  BY <1>1, <1>3 DEF Post, ResponseLost, netVars, serverVars, llmVars
<1>4. ASSUME NEW d \in Devices, Flush(d) PROVE WireInv'
  BY <1>1, <1>4 DEF Flush, netVars, serverVars, llmVars
<1>5. CASE UNCHANGED vars
  BY <1>1, <1>5 DEF vars, netVars, serverVars, llmVars
<1> QED BY <1>2, <1>3, <1>4, <1>5, WireSockets, WireDeliver DEF Next

(***************************************************************************)
(* The buffers.                                                            *)
(***************************************************************************)
LEMMA TakesToken ==
  ASSUME NEW b \in Seq(1..N), NEW w \in Seq(Envelopes), w # <<>>, NEW r \in Requests,
         NEW n \in Nat, Rises(w, r, n), IsToken(Head(w), r),
         b # <<>> => Continues(b, w, r, n)
  PROVE  LET c == Append(b, Head(w).token)
         IN /\ Continues(c, Tail(w), r, n)
            /\ Reaches(w, r, n) => (Last(c) + 1)..n \subseteq Tokens(Tail(w), r)
<1> DEFINE t == Head(w).token
           c == Append(b, t)
           T == Tokens(w, r)
           U == Tokens(Tail(w), r)
<1>1. t \in T /\ U = T \ {t} /\ \A u \in U : t < u
  BY TailTokens DEF Rises
<1>2. T \subseteq 1..N /\ N \in Nat
  BY TokenInRange, ChatAssumption
<1>3. /\ \A u \in T : u <= n
      /\ \A u, v \in T : u..v \subseteq T
      /\ Reaches(w, r, n) => \A u \in T : u..n \subseteq T
  BY DEF Rises, Reaches
<1>4. /\ Len(c) = Len(b) + 1 /\ c[Len(b) + 1] = t /\ Len(b) \in Nat
      /\ \A k \in 1..Len(b) : c[k] = b[k]
  OBVIOUS
<1>5. b # <<>> =>
        /\ Len(b) > 0 /\ \A k \in 1..Len(b) : b[k] = b[1] + k - 1
        /\ \A u \in T : Last(b) < u /\ (Last(b) + 1)..u \subseteq T
        /\ Last(b) \in 1..N /\ b[1] \in 1..N /\ Last(b) = b[1] + Len(b) - 1
  <2>1. SUFFICES ASSUME b # <<>>
                 PROVE  /\ Len(b) > 0 /\ \A k \in 1..Len(b) : b[k] = b[1] + k - 1
                        /\ \A u \in T : Last(b) < u /\ (Last(b) + 1)..u \subseteq T
                        /\ Last(b) \in 1..N /\ b[1] \in 1..N /\ Last(b) = b[1] + Len(b) - 1
    OBVIOUS
  <2>2. Len(b) \in Nat \ {0}
    BY <2>1, EmptySeq
  <2>3. 1 \in 1..Len(b) /\ Len(b) \in 1..Len(b)
    BY <2>2
  <2>4. b[1] \in 1..N /\ b[Len(b)] \in 1..N
    BY <2>3, ElementOfSeq
  <2>5. /\ \A k \in 1..Len(b) : b[k] = b[1] + k - 1
        /\ \A u \in T : Last(b) < u /\ (Last(b) + 1)..u \subseteq T
    BY <2>1 DEF Continues
  <2> QED BY <2>2, <2>3, <2>4, <2>5 DEF Last
<1>6. Last(c) = t
  BY <1>4 DEF Last
<1> HIDE DEF c, t, T, U
<1>7. b # <<>> => t = Last(b) + 1
  <2>1. SUFFICES ASSUME b # <<>> PROVE t = Last(b) + 1
    OBVIOUS
  <2>2. /\ t \in Int /\ Last(b) \in Int /\ Last(b) < t
        /\ (Last(b) + 1)..t \subseteq T
    BY <1>1, <1>2, <1>5, <2>1
  <2>3. Last(b) + 1 \in T
    BY <2>2
  <2>4. Last(b) + 1 = t \/ t < Last(b) + 1
    BY <1>1, <2>2, <2>3
  <2> QED BY <2>2, <2>4
<1>8. ASSUME NEW k \in 1..Len(c) PROVE c[k] = c[1] + k - 1
  <2>1. CASE b = <<>>
    <3>1. Len(b) = 0
      BY <2>1
    <3> QED BY <1>1, <1>2, <1>4, <1>8, <3>1
  <2>2. CASE b # <<>>
    <3>1. c[1] = b[1]
      BY <1>4, <1>5, <2>2
    <3>2. CASE k \in 1..Len(b)
      BY <1>4, <1>5, <2>2, <3>1, <3>2
    <3>3. CASE k = Len(b) + 1
      BY <1>4, <1>5, <1>7, <2>2, <3>1, <3>3
    <3> QED BY <1>4, <1>8, <3>2, <3>3
  <2> QED BY <2>1, <2>2
<1>9. \A u \in U : t < u /\ (t + 1)..u \subseteq U
  <2>1. SUFFICES ASSUME NEW u \in U, NEW v \in (t + 1)..u PROVE v \in U
    BY <1>1
  <2>2. v \in t..u /\ v # t
    BY <1>1, <1>2, <2>1
  <2> QED BY <1>1, <1>3, <2>1, <2>2
<1>10. Reaches(w, r, n) => (t + 1)..n \subseteq U
  <2>1. SUFFICES ASSUME Reaches(w, r, n), NEW v \in (t + 1)..n PROVE v \in U
    OBVIOUS
  <2>2. v \in t..n /\ v # t
    BY <1>1, <1>2, <2>1
  <2> QED BY <1>1, <1>3, <2>1, <2>2
<1>11. t <= n
  BY <1>1, <1>3
<1> QED BY <1>6, <1>8, <1>9, <1>10, <1>11 DEF Continues, c, t, U

\* Nothing changes for a buffer if its wire keeps its tokens and no more socket lives.
LEMMA BufferKept ==
  ASSUME NEW r \in Requests, BufferOf(r), UNCHANGED <<buf[r], streamed[r], ReadBy(r)>>,
         buf[r] # <<>> => Tokens(wire'[ReadBy(r)], r) = Tokens(wire[ReadBy(r)], r),
         Live(ReadBy(r))' => Live(ReadBy(r))
  PROVE  BufferOf(r)'
<1>1. CASE buf[r] = <<>>
  BY <1>1 DEF BufferOf
<1>2. CASE buf[r] # <<>>
  <2> DEFINE s == ReadBy(r)
  <2>1. /\ s \in Sockets /\ s' = s
        /\ Continues(buf[r], wire[s], r, streamed[r])
        /\ Live(s) => (Last(buf[r]) + 1)..streamed[r] \subseteq Tokens(wire[s], r)
        /\ Tokens(wire'[s], r) = Tokens(wire[s], r)
    BY <1>2 DEF BufferOf
  <2>2. /\ Continues(buf[r], wire'[s], r, streamed[r])
        /\ Live(s)' => (Last(buf[r]) + 1)..streamed[r] \subseteq Tokens(wire'[s], r)
    BY <2>1 DEF Continues
  <2> HIDE DEF s
  <2>3. wire'[s'] = wire'[s]
    BY <2>1
  <2> QED BY <1>2, <2>1, <2>2, <2>3 DEF BufferOf, s
<1> QED BY <1>1, <1>2

LEMMA BufferGateway ==
  ASSUME Typed, WireInv, BuffersRun, NEW q \in Requests, Gateway(q)
  PROVE  BuffersRun'
<1>0. /\ N \in Nat /\ streamed \in [Requests -> 0..N]
      /\ buf \in [Requests -> Seq(1..N)] /\ wire \in [Sockets -> Seq(Envelopes)]
  BY ChatAssumption DEF Typed, TypeOK
<1>1. UNCHANGED <<sock, broken, sessions, buf>>
  BY GatewayKeepsSockets
<1>2. SUFFICES ASSUME NEW r \in Requests, buf[r] # <<>> PROVE BufferOf(r)'
  BY <1>1 DEF BuffersRun, BufferOf
<1> DEFINE s == ReadBy(r)
<1>3. s' = s /\ (Live(s)' <=> Live(s))
  BY <1>1 DEF ReadBy, Live
<1>4. /\ BufferOf(r) /\ s \in Sockets /\ s[1] = OwnerOf[r]
      /\ wire[s] \in Seq(Envelopes) /\ streamed[r] \in Nat
      /\ Rises(wire[s], r, streamed[r])
      /\ Live(s) => Reaches(wire[s], r, streamed[r])
  <2>1. BufferOf(r) /\ s \in Sockets
    BY <1>2 DEF BuffersRun, BufferOf
  <2>2. s[1] = OwnerOf[r]
    BY DEF ReadBy
  <2> HIDE DEF s
  <2>3. /\ Rises(wire[s], r, streamed[r])
        /\ Live(s) => Reaches(wire[s], r, streamed[r])
    BY <2>1 DEF WireInv, WiresStream
  <2> QED BY <1>0, <2>1, <2>2, <2>3
<1> HIDE DEF s
<1>5. ASSUME streamed'[r] = streamed[r], Tokens(wire'[s], r) = Tokens(wire[s], r)
      PROVE  BufferOf(r)'
  BY <1>1, <1>3, <1>4, <1>5, BufferKept DEF s
<1>6. CASE UNCHANGED <<wire, streamed>>
  BY <1>5, <1>6
<1>7. ASSUME NEW e \in Envelopes, Push(q, e), e.type # "TOKEN_STREAM", UNCHANGED streamed
      PROVE  BufferOf(r)'
  <2>1. wire'[s] \in {wire[s], Append(wire[s], e)}
    BY <1>4, <1>7 DEF Push
  <2>2. Tokens(Append(wire[s], e), r) = Tokens(wire[s], r)
    BY <1>4, <1>7, AppendTokens DEF IsToken
  <2> QED BY <1>5, <1>7, <2>1, <2>2
<1>8. CASE Token(q)
  <2> DEFINE n == streamed[q]
             e == [type |-> "TOKEN_STREAM", req |-> q, token |-> n + 1]
  <2>1. /\ n \in Nat /\ n + 1 \in 1..N
        /\ streamed' = [streamed EXCEPT ![q] = n + 1]
        /\ Push(q, [type |-> "TOKEN_STREAM", req |-> q, token |-> streamed'[q]])
    <3>1. n < N /\ streamed' = [streamed EXCEPT ![q] = n + 1]
      BY <1>8 DEF Token
    <3>2. n \in 0..N
      BY <1>0
    <3> HIDE DEF n
    <3>3. n \in Nat /\ n + 1 \in 1..N
      BY <1>0, <3>1, <3>2
    <3> QED BY <1>8, <3>1, <3>3 DEF Token
  <2>2. streamed'[q] = n + 1 /\ \A p \in Requests : p # q => streamed'[p] = streamed[p]
    BY <1>0, <2>1
  <2>3. e \in Envelopes /\ e.req = q /\ IsToken(e, q) /\ e.token = n + 1
    BY <2>1, SomeEnvelopes DEF IsToken
  <2>4. /\ s[1] = OwnerOf[q] /\ Live(s) => wire'[s] = Append(wire[s], e)
        /\ ~(s[1] = OwnerOf[q] /\ Live(s)) => wire'[s] = wire[s]
    BY <1>4, <2>1, <2>2 DEF Push, Live
  <2> HIDE DEF e, n
  <2>5. CASE r # q
    <3>1. ~IsToken(e, r)
      BY <2>3, <2>5 DEF IsToken
    <3>2. Tokens(Append(wire[s], e), r) = Tokens(wire[s], r)
      BY <1>4, <2>3, <3>1, AppendTokens
    <3> QED BY <1>5, <2>2, <2>4, <2>5, <3>2
  <2>6. CASE r = q
    <3> DEFINE b == buf[r]
               T == Tokens(wire[s], r)
               U == Tokens(wire'[s], r)
    <3>1. /\ \A k \in 1..Len(b) : b[k] = b[1] + k - 1
          /\ Last(b) <= n
          /\ \A t \in T : Last(b) < t /\ (Last(b) + 1)..t \subseteq T
          /\ Live(s) => (Last(b) + 1)..n \subseteq T
      BY <1>2, <1>4, <2>6 DEF BufferOf, Continues, s, n
    <3>2. Last(b) \in Nat
      <4>1. b \in Seq(1..N) /\ b # <<>>
        BY <1>0, <1>2
      <4> HIDE DEF b
      <4>2. Len(b) \in Nat \ {0}
        BY <4>1, EmptySeq
      <4>3. Len(b) \in 1..Len(b)
        BY <4>2
      <4>4. b[Len(b)] \in 1..N
        BY <4>1, <4>3, ElementOfSeq
      <4> QED BY <1>0, <4>4 DEF Last
    <3>3. Live(s) => U = T \cup {n + 1}
      <4>1. ASSUME Live(s) PROVE Tokens(Append(wire[s], e), q) = Tokens(wire[s], q) \cup {n + 1}
        BY <1>4, <2>1, <2>3, <2>6, <4>1, PushToken DEF n
      <4>2. s[1] = OwnerOf[q]
        BY <1>4, <2>6
      <4> QED BY <2>4, <2>6, <4>1, <4>2
    <3>4. ~Live(s) => U = T
      BY <2>4
    <3> HIDE DEF b, T, U
    <3>5. \A t \in U : Last(b) < t /\ (Last(b) + 1)..t \subseteq U
      <4>1. CASE Live(s)
        <5>1. ASSUME NEW t \in U, NEW v \in (Last(b) + 1)..t PROVE v \in U
          <6>1. CASE t \in T
            BY <3>1, <3>3, <4>1, <5>1, <6>1
          <6>2. CASE t = n + 1
            <7>1. v \in (Last(b) + 1)..n \/ v = n + 1
              BY <2>1, <3>2, <5>1, <6>2
            <7> QED BY <3>1, <3>3, <4>1, <7>1
          <6> QED BY <3>3, <4>1, <5>1, <6>1, <6>2
        <5>2. \A t \in U : Last(b) < t
          BY <2>1, <3>1, <3>2, <3>3, <4>1
        <5> QED BY <5>1, <5>2
      <4>2. CASE ~Live(s)
        BY <3>1, <3>4, <4>2
      <4> QED BY <4>1, <4>2
    <3>6. Live(s) => (Last(b) + 1)..(n + 1) \subseteq U
      <4>1. SUFFICES ASSUME Live(s), NEW v \in (Last(b) + 1)..(n + 1) PROVE v \in U
        OBVIOUS
      <4>2. v \in (Last(b) + 1)..n \/ v = n + 1
        BY <2>1, <3>2, <4>1
      <4> QED BY <3>1, <3>3, <4>1, <4>2
    <3>7. Last(b) <= n + 1
      BY <2>1, <3>1, <3>2
    <3>8. Continues(b, wire'[s], r, n + 1)
      BY <3>1, <3>5, <3>7 DEF Continues, U
    <3>9. b = buf[r] /\ b' = buf'[r] /\ b' = b
      BY <1>1 DEF b
    <3>10. streamed'[r] = n + 1
      BY <2>2, <2>6
    <3>11. ReadBy(r)' = s /\ (Live(s)' <=> Live(s))
      BY <1>3 DEF s
    <3>12. Live(ReadBy(r))' => Live(s)
      BY <1>1, <1>3 DEF Live, s
    <3> QED BY <1>4, <3>6, <3>8, <3>9, <3>10, <3>11, <3>12 DEF BufferOf, U
  <2> QED BY <2>5, <2>6
<1> QED BY <1>6, <1>7, <1>8, GatewayPushes

LEMMA BufferSockets ==
  ASSUME Typed, WireInv, BuffersRun,
         \/ \E d \in Devices : Connect(d) \/ Close(d)
         \/ \E s \in Sockets : Break(s) \/ Unregister(s)
  PROVE  BuffersRun'
<1> SUFFICES ASSUME NEW r \in Requests PROVE BufferOf(r)'
  BY DEF BuffersRun
<1>0. /\ BufferOf(r) /\ OwnerOf[r] \in Devices
      /\ sock \in [Devices -> Nat] /\ wire \in [Sockets -> Seq(Envelopes)]
      /\ buf[r] # <<>> => ReadBy(r) \in Sockets
  BY ChatAssumption DEF BuffersRun, BufferOf, Typed, TypeOK, Functions
<1>1. ASSUME NEW d \in Devices, Connect(d) PROVE BufferOf(r)'
  <2>1. /\ sock[d] = 0 /\ sock' = [sock EXCEPT ![d] = opened'[d]]
        /\ sessions' = sessions \cup {<<d, opened'[d]>>}
        /\ UNCHANGED <<broken, wire, streamed, buf>>
    BY <1>1 DEF Connect, llmVars, phoneVars
  <2>2. CASE buf[r] = <<>>
    BY <2>1, <2>2 DEF BufferOf
  <2>3. CASE buf[r] # <<>>
    <3>1. sock[OwnerOf[r]] # 0
      <4>1. ReadBy(r)[2] \in 1..MaxConns[ReadBy(r)[1]]
        BY <1>0, <2>3, SocketPairs
      <4>2. ReadBy(r)[2] # 0
        BY <4>1
      <4> QED BY <4>2 DEF ReadBy
    <3>2. OwnerOf[r] # d /\ ReadBy(r)' = ReadBy(r)
      BY <1>0, <2>1, <3>1 DEF ReadBy
    <3>3. ReadBy(r) # <<d, opened'[d]>>
      BY <3>2 DEF ReadBy
    <3>4. Live(ReadBy(r))' => Live(ReadBy(r))
      BY <2>1, <3>2, <3>3 DEF Live
    <3>5. buf'[r] = buf[r] /\ streamed'[r] = streamed[r] /\ wire' = wire
      BY <2>1
    <3> QED BY <1>0, <3>2, <3>4, <3>5, BufferKept
  <2> QED BY <2>2, <2>3
<1>2. ASSUME NEW d \in Devices, Close(d) PROVE BufferOf(r)'
  <2>1. /\ sock' = [sock EXCEPT ![d] = 0]
        /\ wire' = [wire EXCEPT ![<<d, sock[d]>>] = <<>>]
        /\ buf' = [q \in Requests |-> IF OwnerOf[q] = d THEN <<>> ELSE buf[q]]
        /\ UNCHANGED <<broken, sessions, streamed>>
    BY <1>2 DEF Close, llmVars, serverVars
  <2>2. CASE OwnerOf[r] = d
    <3>1. buf'[r] = <<>>
      BY <2>1, <2>2
    <3> QED BY <3>1 DEF BufferOf
  <2>3. CASE OwnerOf[r] # d
    <3>1. buf'[r] = buf[r] /\ streamed'[r] = streamed[r]
      BY <2>1, <2>3
    <3>2. ReadBy(r)' = ReadBy(r) /\ ReadBy(r) # <<d, sock[d]>>
      BY <1>0, <2>1, <2>3 DEF ReadBy
    <3>3. buf[r] # <<>> => wire'[ReadBy(r)] = wire[ReadBy(r)]
      BY <1>0, <2>1, <3>2
    <3>4. Live(ReadBy(r))' => Live(ReadBy(r))
      BY <2>1, <3>2 DEF Live
    <3> QED BY <1>0, <3>1, <3>2, <3>3, <3>4, BufferKept
  <2> QED BY <2>2, <2>3
<1>3. ASSUME NEW s \in Sockets, Break(s) \/ Unregister(s) PROVE BufferOf(r)'
  <2>1. /\ UNCHANGED <<sock, wire, streamed, buf>>
        /\ sessions' \subseteq sessions /\ broken \subseteq broken'
    BY <1>3 DEF Break, Unregister, netVars, serverVars, llmVars, phoneVars
  <2>2. ReadBy(r)' = ReadBy(r)
    BY <2>1 DEF ReadBy
  <2>3. Live(ReadBy(r))' => Live(ReadBy(r))
    BY <2>1, <2>2 DEF Live
  <2>4. buf'[r] = buf[r] /\ streamed'[r] = streamed[r] /\ wire' = wire
    BY <2>1
  <2> QED BY <1>0, <2>2, <2>3, <2>4, BufferKept
<1> QED BY <1>1, <1>2, <1>3

\* Steps that neither push nor take anything leave a buffer or empty it.
LEMMA BufferOrEmpty ==
  ASSUME BuffersRun, UNCHANGED <<sock, broken, sessions, wire, streamed>>,
         \A r \in Requests : buf'[r] \in {buf[r], <<>>}
  PROVE  BuffersRun'
<1> SUFFICES ASSUME NEW r \in Requests, buf'[r] # <<>> PROVE BufferOf(r)'
  BY DEF BuffersRun, BufferOf
<1>1. BufferOf(r) /\ buf'[r] = buf[r] /\ streamed'[r] = streamed[r]
  BY DEF BuffersRun
<1>2. ReadBy(r)' = ReadBy(r)
  BY DEF ReadBy
<1>3. Live(ReadBy(r))' => Live(ReadBy(r))
  BY <1>2 DEF Live
<1> QED BY <1>1, <1>2, <1>3, BufferKept

LEMMA BufferDeliver ==
  ASSUME Typed, WireInv, BuffersRun, NEW d \in Devices, Deliver(d)
  PROVE  BuffersRun'
<1> SUFFICES ASSUME NEW r \in Requests, buf'[r] # <<>> PROVE BufferOf(r)'
  BY DEF BuffersRun, BufferOf
<1> DEFINE c == <<d, sock[d]>>
           e == Head1(d)
<1>1. /\ c \in Sockets /\ wire[c] # <<>> /\ wire[c] \in Seq(Envelopes)
      /\ wire' = [wire EXCEPT ![c] = Tail(@)]
      /\ e \in Envelopes /\ e = wire[c][1] /\ 1 \in 1..Len(wire[c]) /\ e = Head(wire[c])
  BY DeliverTakes DEF Head1
<1>2. OwnerOf[e.req] = d
  <2>1. OwnerOf[wire[c][1].req] = c[1]
    BY <1>1 DEF WireInv, Addressed
  <2> QED BY <1>1, <2>1
<1>3. UNCHANGED <<sock, broken, sessions, streamed>>
  BY DEF Deliver, netVars, serverVars, llmVars
<1>4. SeesTyping(e) \/ SeesToken(e) \/ SeesComplete(e) \/ SeesError(e)
  BY DEF Deliver, Head1
<1>5. /\ N \in Nat /\ streamed \in [Requests -> 0..N]
      /\ buf \in [Requests -> Seq(1..N)] /\ wire \in [Sockets -> Seq(Envelopes)]
      /\ sock \in [Devices -> Nat]
  BY ChatAssumption DEF Typed, TypeOK, Functions
<1>6. /\ ReadBy(r)' = ReadBy(r) /\ (Live(ReadBy(r))' => Live(ReadBy(r)))
      /\ streamed'[r] = streamed[r]
  BY <1>3 DEF ReadBy, Live
<1>7. BufferOf(r) /\ streamed[r] \in Nat
  BY <1>5 DEF BuffersRun
<1>8. Rises(wire[c], r, streamed[r]) /\ (Live(c) => Reaches(wire[c], r, streamed[r]))
  BY <1>1 DEF WireInv, WiresStream
<1>9. wire'[c] = Tail(wire[c]) /\ \A s \in Sockets : s # c => wire'[s] = wire[s]
  BY <1>1, <1>5
<1> HIDE DEF e
<1>10. CASE IsToken(e, r)
  <2>1. buf'[r] = Append(buf[r], e.token)
    BY <1>4, <1>5, <1>10 DEF IsToken, SeesTyping, SeesToken, SeesComplete, SeesError
  <2>2. ReadBy(r) = c
    BY <1>2, <1>10 DEF IsToken, ReadBy
  <2>3. buf[r] # <<>> => Continues(buf[r], wire[c], r, streamed[r])
    BY <1>7, <2>2 DEF BufferOf
  <2>4. /\ Continues(buf'[r], Tail(wire[c]), r, streamed[r])
        /\ Reaches(wire[c], r, streamed[r]) =>
             (Last(buf'[r]) + 1)..streamed[r] \subseteq Tokens(Tail(wire[c]), r)
    <3>1. buf[r] \in Seq(1..N)
      BY <1>5
    <3> HIDE DEF c
    <3> QED BY <1>1, <1>7, <1>8, <1>10, <2>1, <2>3, <3>1, TakesToken
  <2>5. ReadBy(r)' = c /\ (Live(ReadBy(r))' => Live(c))
    BY <1>6, <2>2
  <2> HIDE DEF c
  <2> QED BY <1>1, <1>6, <1>8, <1>9, <2>4, <2>5 DEF BufferOf
<1>11. CASE ~IsToken(e, r)
  <2>1. buf'[r] = buf[r]
    BY <1>4, <1>5, <1>11 DEF IsToken, SeesTyping, SeesToken, SeesComplete, SeesError
  <2>2. Tokens(Tail(wire[c]), r) = Tokens(wire[c], r)
    <3> HIDE DEF c
    <3> QED BY <1>1, <1>8, <1>11, TailTokens DEF Rises
  <2>3. buf[r] # <<>> => ReadBy(r) \in Sockets
    BY <1>7 DEF BufferOf
  <2>4. buf[r] # <<>> => Tokens(wire'[ReadBy(r)], r) = Tokens(wire[ReadBy(r)], r)
    BY <1>9, <2>2, <2>3
  <2> QED BY <1>6, <1>7, <2>1, <2>4, BufferKept
<1> QED BY <1>10, <1>11

LEMMA BufferStep ==
  ASSUME Typed, WireInv, BuffersRun, [Next]_vars
  PROVE  BuffersRun'
<1>1. ASSUME NEW r \in Requests, Post(r) \/ ResponseLost(r) PROVE BuffersRun'
  BY <1>1, BufferOrEmpty DEF Post, ResponseLost, netVars, serverVars, llmVars
<1>2. ASSUME NEW d \in Devices, Flush(d) PROVE BuffersRun'
  <2>1. /\ UNCHANGED <<sock, broken, sessions, wire, streamed>>
        /\ \A r \in Requests : buf'[r] \in {buf[r], <<>>}
    BY <1>2 DEF Flush, netVars, serverVars, llmVars
  <2> QED BY <2>1, BufferOrEmpty
<1>3. CASE UNCHANGED vars
  BY <1>3, BufferOrEmpty DEF vars, netVars, serverVars, llmVars, phoneVars
<1> QED BY <1>1, <1>2, <1>3, BufferGateway, BufferSockets, BufferDeliver DEF Next

(***************************************************************************)
(* The texts.                                                              *)
(***************************************************************************)
LEMMA BufferSayable ==
  ASSUME Typed, BuffersRun, NEW r \in Requests, buf[r] # <<>>
  PROVE  Sayable(buf[r], r)
<1> DEFINE b == buf[r]
           i == b[1] - 1
           j == Last(b)
<1>1. /\ N \in Nat /\ streamed[r] \in 0..N /\ b \in Seq(1..N) /\ b # <<>>
      /\ \A k \in 1..Len(b) : b[k] = b[1] + k - 1
      /\ Last(b) <= streamed[r]
  BY ChatAssumption DEF Typed, TypeOK, BuffersRun, BufferOf, Continues
<1> HIDE DEF b
<1>2. Len(b) \in Nat \ {0}
  BY <1>1, EmptySeq
<1>3. 1 \in 1..Len(b) /\ Len(b) \in 1..Len(b)
  BY <1>2
<1>4. b[1] \in 1..N
  BY <1>1, <1>3, ElementOfSeq
<1>5. j = b[1] + Len(b) - 1
  BY <1>1, <1>3 DEF Last
<1>a. j <= streamed[r] /\ streamed[r] \in Nat /\ streamed[r] <= N /\ N \in Nat
  BY <1>1
<1>b. i \in Nat /\ j \in Nat /\ i <= j /\ j - i = Len(b)
  BY <1>2, <1>4, <1>5
<1> HIDE DEF j
<1>6. /\ i \in 0..streamed[r] /\ j \in 0..streamed[r] /\ i \in Nat /\ j \in Nat
      /\ i <= j /\ j <= N /\ j - i = Len(b)
  <2> HIDE DEF i
  <2> QED BY <1>a, <1>b
<1> HIDE DEF i, j
<1>7. Piece(i, j) \in Seq(1..N) /\ Len(Piece(i, j)) = Len(b)
  BY <1>6, PieceTypes
<1>8. \A k \in 1..Len(b) : b[k] = Piece(i, j)[k]
  <2>1. SUFFICES ASSUME NEW k \in 1..Len(b) PROVE b[k] = Piece(i, j)[k]
    OBVIOUS
  <2>2. Piece(i, j)[k] = i + k
    BY <1>6, <2>1 DEF Piece
  <2>3. b[k] = b[1] + k - 1 /\ i = b[1] - 1
    BY <1>1, <2>1 DEF i
  <2> QED BY <1>2, <1>4, <2>1, <2>2, <2>3
<1>9. b = Piece(i, j)
  BY <1>1, <1>7, <1>8, SeqEqual
<1> QED BY <1>6, <1>9 DEF Sayable, b

\* What could be said can be said when more has been streamed.
LEMMA StillSayable ==
  ASSUME Typed, NEW r \in Requests, NEW x, Sayable(x, r),
         streamed'[r] \in Nat, streamed'[r] >= streamed[r]
  PROVE  Sayable(x, r)'
<1>1. streamed[r] \in Nat
  BY ChatAssumption DEF Typed, TypeOK
<1>2. 0..streamed[r] \subseteq 0..streamed'[r]
  BY <1>1
<1> QED BY <1>2 DEF Sayable

TextInv == RepliesSayable /\ TextsSayable

ChatInv == Typed /\ WireInv /\ BuffersRun /\ TextInv

LEMMA StreamedGrows ==
  ASSUME Typed, [Next]_vars, NEW r \in Requests
  PROVE  streamed'[r] \in Nat /\ streamed'[r] >= streamed[r]
<1>1. streamed \in [Requests -> 0..N] /\ N \in Nat
  BY ChatAssumption DEF Typed, TypeOK
<1>2. ASSUME UNCHANGED streamed
      PROVE  streamed'[r] \in Nat /\ streamed'[r] >= streamed[r]
  BY <1>1, <1>2
<1>3. ASSUME NEW q \in Requests, Gateway(q)
      PROVE  streamed'[r] \in Nat /\ streamed'[r] >= streamed[r]
  <2>1. CASE Token(q)
    <3>1. streamed' = [streamed EXCEPT ![q] = streamed[q] + 1]
      BY <2>1 DEF Token
    <3>2. streamed[r] \in Nat /\ streamed'[r] \in {streamed[r], streamed[r] + 1}
      BY <1>1, <3>1
    <3> QED BY <3>2
  <2> QED BY <1>2, <1>3, <2>1, GatewayPushes
<1>4. ASSUME \/ UNCHANGED vars
             \/ \E d \in Devices : Connect(d) \/ Close(d) \/ Deliver(d) \/ Flush(d)
             \/ \E s \in Sockets : Break(s) \/ Unregister(s)
             \/ \E q \in Requests : Post(q) \/ ResponseLost(q)
      PROVE  UNCHANGED streamed
  BY <1>4 DEF vars, Connect, Close, Deliver, Flush, Break, Unregister, Post, ResponseLost,
              netVars, serverVars, llmVars, phoneVars
<1> QED BY <1>2, <1>3, <1>4 DEF Next

\* The replies on the wires: each was there before, or can be said.
LEMMA RepliesKept ==
  ASSUME Typed, RepliesSayable, [Next]_vars,
         \A s \in Sockets : \A i \in 1..Len(wire'[s]) :
           \/ \E j \in 1..Len(wire[s]) : wire'[s][i] = wire[s][j]
           \/ wire'[s][i].type = "TASK_COMPLETE" =>
                wire'[s][i].req \in Requests /\ Sayable(wire'[s][i].text, wire'[s][i].req)
  PROVE  RepliesSayable'
<1> SUFFICES ASSUME NEW s \in Sockets, NEW i \in 1..Len(wire'[s]),
                    wire'[s][i].type = "TASK_COMPLETE"
             PROVE  Sayable(wire[s][i].text, wire[s][i].req)'
  BY DEF RepliesSayable
<1> DEFINE e == wire'[s][i]
<1>1. e.req \in Requests /\ Sayable(e.text, e.req)
  <2>1. CASE \E j \in 1..Len(wire[s]) : wire'[s][i] = wire[s][j]
    <3>1. PICK j \in 1..Len(wire[s]) : e = wire[s][j]
      BY <2>1
    <3>2. wire[s] \in Seq(Envelopes)
      BY DEF Typed, TypeOK
    <3>3. wire[s][j] \in Envelopes
      BY <3>2
    <3>4. e.req \in Requests
      BY <3>1, <3>3 DEF Envelopes
    <3> QED BY <3>1, <3>4 DEF RepliesSayable
  <2> QED BY <2>1
<1>2. streamed'[e.req] \in Nat /\ streamed'[e.req] >= streamed[e.req]
  BY <1>1, StreamedGrows
<1> HIDE DEF e
<1>3. 0..streamed[e.req] \subseteq 0..streamed'[e.req]
  BY <1>1, <1>2, ChatAssumption DEF Typed, TypeOK
<1> QED BY <1>1, <1>3 DEF Sayable, e

LEMMA RepliesStep ==
  ASSUME Typed, RepliesSayable, [Next]_vars
  PROVE  RepliesSayable'
<1>0. wire \in [Sockets -> Seq(Envelopes)]
  BY DEF Typed, TypeOK
<1>1. ASSUME UNCHANGED wire PROVE RepliesSayable'
  BY <1>1, RepliesKept
<1>2. ASSUME NEW q \in Requests, NEW e \in Envelopes, Push(q, e), e.req = q,
             e.type = "TASK_COMPLETE" => Sayable(e.text, q)
      PROVE  RepliesSayable'
  <2>1. ASSUME NEW s \in Sockets, NEW i \in 1..Len(wire'[s])
        PROVE  (\E j \in 1..Len(wire[s]) : wire'[s][i] = wire[s][j]) \/ wire'[s][i] = e
    <3>1. wire'[s] \in {wire[s], Append(wire[s], e)} /\ wire[s] \in Seq(Envelopes)
      BY <1>0, <1>2 DEF Push
    <3>2. CASE wire'[s] = wire[s]
      BY <2>1, <3>2
    <3>3. CASE wire'[s] = Append(wire[s], e)
      <4>1. /\ Len(Append(wire[s], e)) = Len(wire[s]) + 1
            /\ Append(wire[s], e)[Len(wire[s]) + 1] = e
            /\ \A k \in 1..Len(wire[s]) : Append(wire[s], e)[k] = wire[s][k]
        BY <3>1
      <4>2. i \in 1..Len(wire[s]) \/ i = Len(wire[s]) + 1
        BY <2>1, <3>1, <3>3, <4>1
      <4> QED BY <3>3, <4>1, <4>2
    <3> QED BY <3>1, <3>2, <3>3
  <2> QED BY <1>2, <2>1, RepliesKept
<1>3. ASSUME NEW q \in Requests, Gateway(q) PROVE RepliesSayable'
  <2>1. CASE Token(q)
    <3>1. Push(q, [type |-> "TOKEN_STREAM", req |-> q, token |-> streamed'[q]])
      BY <2>1 DEF Token
    <3>2. streamed'[q] \in 1..N
      BY <2>1, ChatAssumption DEF Token, Typed, TypeOK
    <3> QED BY <1>2, <3>1, <3>2, SomeEnvelopes
  <2> QED BY <1>1, <1>2, <1>3, <2>1, GatewayPushes
<1>4. ASSUME NEW d \in Devices, Close(d) PROVE RepliesSayable'
  <2>1. ASSUME NEW s \in Sockets, NEW i \in 1..Len(wire'[s]) PROVE wire'[s] = wire[s]
    <3>1. wire'[s] \in {wire[s], <<>>}
      BY <1>0, <1>4 DEF Close
    <3> QED BY <2>1, <3>1
  <2> QED BY <2>1, RepliesKept
<1>5. ASSUME NEW d \in Devices, Deliver(d) PROVE RepliesSayable'
  <2> DEFINE c == <<d, sock[d]>>
  <2>1. /\ wire' = [wire EXCEPT ![c] = Tail(@)]
        /\ \A i \in 1..Len(Tail(wire[c])) :
             i + 1 \in 1..Len(wire[c]) /\ Tail(wire[c])[i] = wire[c][i + 1]
    BY <1>5, DeliverTakes
  <2> HIDE DEF c
  <2>2. ASSUME NEW s \in Sockets, NEW i \in 1..Len(wire'[s])
        PROVE  \E j \in 1..Len(wire[s]) : wire'[s][i] = wire[s][j]
    <3>1. CASE s = c
      <4>1. wire'[s] = Tail(wire[c])
        BY <1>0, <2>1, <3>1
      <4> QED BY <2>1, <2>2, <3>1, <4>1
    <3>2. CASE s # c
      BY <1>0, <2>1, <2>2, <3>2
    <3> QED BY <3>1, <3>2
  <2> QED BY <2>2, RepliesKept
<1>6. ASSUME \/ UNCHANGED vars
             \/ \E d \in Devices : Connect(d) \/ Flush(d)
             \/ \E s \in Sockets : Break(s) \/ Unregister(s)
             \/ \E q \in Requests : Post(q) \/ ResponseLost(q)
      PROVE  UNCHANGED wire
  BY <1>6 DEF vars, Connect, Flush, Break, Unregister, Post, ResponseLost
<1> QED BY <1>1, <1>3, <1>4, <1>5, <1>6 DEF Next

\* A bubble keeps its text, or shows a notice, its buffer or the reply that came.
LEMMA TextsKept ==
  ASSUME Typed, BuffersRun, TextsSayable, [Next]_vars,
         \A r \in Requests :
           \/ text'[r] \in {text[r], Notice}
           \/ buf[r] # <<>> /\ text'[r] = buf[r]
           \/ Sayable(text'[r], r)
  PROVE  TextsSayable'
<1> SUFFICES ASSUME NEW r \in Requests PROVE Sayable(text[r], r)'
  BY DEF TextsSayable
<1>1. Sayable(text'[r], r)
  <2>1. Sayable(text[r], r) /\ Sayable(Notice, r)
    BY DEF TextsSayable, Sayable
  <2> QED BY <2>1, BufferSayable
<1>2. 0..streamed[r] \subseteq 0..streamed'[r]
  <2>1. streamed[r] \in Nat
    BY ChatAssumption DEF Typed, TypeOK
  <2>2. streamed'[r] \in Nat /\ streamed'[r] >= streamed[r]
    BY StreamedGrows
  <2> QED BY <2>1, <2>2
<1> QED BY <1>1, <1>2 DEF Sayable

LEMMA TextsStep ==
  ASSUME Typed, BuffersRun, TextInv, [Next]_vars
  PROVE  TextsSayable'
<1>0. text \in [Requests -> Texts] /\ TextsSayable
  BY DEF Typed, TypeOK, TextInv
<1>1. ASSUME UNCHANGED text PROVE TextsSayable'
  BY <1>0, <1>1, TextsKept
<1>2. ASSUME NEW q \in Requests, Post(q) \/ ResponseLost(q) PROVE TextsSayable'
  <2>1. \A r \in Requests : text'[r] \in {text[r], Notice}
    BY <1>0, <1>2 DEF Post, ResponseLost
  <2> QED BY <1>0, <2>1, TextsKept
<1>3. ASSUME NEW d \in Devices, Flush(d) PROVE TextsSayable'
  <2>1. \A r \in Requests : text'[r] = text[r] \/ (buf[r] # <<>> /\ text'[r] = buf[r])
    BY <1>3 DEF Flush
  <2> QED BY <1>0, <2>1, TextsKept
<1>4. ASSUME NEW d \in Devices, Deliver(d) PROVE TextsSayable'
  <2> DEFINE c == <<d, sock[d]>>
             e == Head1(d)
  <2>1. /\ c \in Sockets /\ e \in Envelopes /\ e = wire[c][1] /\ 1 \in 1..Len(wire[c])
    BY <1>4, DeliverTakes
  <2>2. e.type = "TASK_COMPLETE" => Sayable(e.text, e.req)
    BY <2>1 DEF TextInv, RepliesSayable
  <2>3. SeesTyping(e) \/ SeesToken(e) \/ SeesComplete(e) \/ SeesError(e)
    BY <1>4 DEF Deliver, Head1
  <2> HIDE DEF e, c
  <2>4. \A r \in Requests :
           \/ text'[r] \in {text[r], Notice}
           \/ buf[r] # <<>> /\ text'[r] = buf[r]
           \/ Sayable(text'[r], r)
    <3>1. CASE UNCHANGED text
      BY <3>1
    <3>2. CASE SeesError(e)
      BY <1>0, <3>2 DEF SeesError
    <3>3. CASE SeesComplete(e)
      <4>1. /\ e.type = "TASK_COMPLETE"
            /\ text' = [text EXCEPT ![e.req] =
                 IF buf[e.req] # <<>> THEN buf[e.req]
                 ELSE IF e.text # <<>> THEN e.text ELSE text[e.req]]
        BY <3>3 DEF SeesComplete
      <4> QED BY <1>0, <2>2, <4>1
    <3> QED BY <2>3, <3>1, <3>2, <3>3 DEF SeesTyping, SeesToken
  <2> QED BY <1>0, <2>4, TextsKept
<1>5. ASSUME NEW q \in Requests, Gateway(q) PROVE UNCHANGED text
  BY <1>5, GatewayKeepsSockets
<1>6. ASSUME \/ UNCHANGED vars
             \/ \E d \in Devices : Connect(d) \/ Close(d)
             \/ \E s \in Sockets : Break(s) \/ Unregister(s)
      PROVE  UNCHANGED text
  BY <1>6 DEF vars, phoneVars, Connect, Close, Break, Unregister
<1> QED BY <1>1, <1>2, <1>3, <1>4, <1>5, <1>6 DEF Next

LEMMA ChatInvInit == Init => ChatInv
<1> SUFFICES ASSUME Init PROVE ChatInv
  OBVIOUS
<1>1. /\ \A s \in Sockets : wire[s] = <<>> /\ s \notin sessions
      /\ \A r \in Requests : streamed[r] = 0 /\ buf[r] = <<>> /\ text[r] = <<>>
  BY DEF Init
<1>2. SocketsKnown /\ Addressed /\ RepliesSayable
  BY <1>1 DEF SocketsKnown, Addressed, RepliesSayable, Live
<1>3. WiresStream
  BY <1>1, EmptyWire DEF WiresStream
<1>4. BuffersRun
  BY <1>1 DEF BuffersRun, BufferOf
<1>5. TextsSayable
  <2>1. 0 \in Nat /\ 0 <= 0 /\ 0 <= N /\ 0 - 0 = 0
    BY ChatAssumption
  <2>2. Piece(0, 0) \in Seq(1..N) /\ Len(Piece(0, 0)) = 0
    BY <2>1, PieceTypes
  <2>3. Piece(0, 0) = <<>>
    BY <2>2, EmptySeq
  <2> QED BY <1>1, <2>3 DEF TextsSayable, Sayable
<1> QED BY <1>2, <1>3, <1>4, <1>5, TypedInit DEF ChatInv, WireInv, TextInv

LEMMA ChatInvStep == ChatInv /\ [Next]_vars => ChatInv'
<1> SUFFICES ASSUME ChatInv, [Next]_vars PROVE ChatInv'
  OBVIOUS
<1> USE DEF ChatInv
<1>1. Typed'
  BY TypedStep
<1>2. WireInv'
  BY WireStep
<1>3. BuffersRun'
  BY BufferStep
<1>4. RepliesSayable'
  BY RepliesStep DEF TextInv
<1>5. TextsSayable'
  BY TextsStep
<1> QED BY <1>1, <1>2, <1>3, <1>4, <1>5 DEF TextInv

\* What a bubble shows is one unbroken piece of what was streamed for it, the
\* agents' own words or a notice: however the flushes, the breaks of sockets and
\* the reconnects fall between the tokens, no text with a hole is shown.
THEOREM PiecesOnly == Spec => []ShownIsAPiece
<1>1. ChatInv => ShownIsAPiece
  BY DEF ChatInv, TextInv, TextsSayable, Sayable, ShownIsAPiece
<1> QED BY <1>1, ChatInvInit, ChatInvStep, PTL DEF Spec
================================================================================
