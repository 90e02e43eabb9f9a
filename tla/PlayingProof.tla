---------------------------- MODULE PlayingProof ----------------------------
(* Proofs about Playing, for any phones, casts, retry counts and faults.     *)
EXTENDS Playing, TLAPS, FiniteSetTheorems

-----------------------------------------------------------------------------
(* Queues of messages, and tables of them                                    *)

LEMMA Appended ==
  ASSUME NEW S, NEW q \in Seq(S), NEW x \in S
  PROVE  /\ Append(q, x) \in Seq(S)
         /\ DOMAIN q = 1 .. Len(q) /\ DOMAIN Append(q, x) = 1 .. Len(q) + 1
         /\ Len(q) \in Nat
         /\ Append(q, x)[Len(q) + 1] = x
         /\ \A k \in DOMAIN q : Append(q, x)[k] = q[k]
OBVIOUS

LEMMA Headed ==
  ASSUME NEW S, NEW q \in Seq(S), q # <<>>
  PROVE  /\ Head(q) \in S /\ 1 \in DOMAIN q /\ q[1] = Head(q)
         /\ Tail(q) \in Seq(S)
         /\ DOMAIN q = 1 .. Len(q) /\ DOMAIN Tail(q) = 1 .. Len(q) - 1
         /\ Len(q) \in Nat
         /\ \A k \in DOMAIN Tail(q) : k + 1 \in DOMAIN q /\ Tail(q)[k] = q[k + 1]
OBVIOUS

LEMMA Fronted ==
  ASSUME NEW S, NEW q \in Seq(S), q # <<>>
  PROVE  /\ Last(q) \in S /\ Len(q) \in DOMAIN q /\ q[Len(q)] = Last(q)
         /\ Front(q) \in Seq(S)
         /\ DOMAIN q = 1 .. Len(q) /\ DOMAIN Front(q) = 1 .. Len(q) - 1
         /\ Len(q) \in Nat \ {0}
         /\ \A k \in DOMAIN Front(q) : k \in DOMAIN q /\ Front(q)[k] = q[k]
<1>1. Len(q) \in Nat \ {0} /\ DOMAIN q = 1 .. Len(q)
  OBVIOUS
<1>2. Len(q) \in DOMAIN q /\ q[Len(q)] \in S
  BY <1>1
<1> DEFINE n == Len(q) - 1
<1>3. n \in Nat /\ n <= Len(q)
  BY <1>1
<1>4. SubSeq(q, 1, n) \in Seq(S)
  BY <1>3
<1>5. Len(SubSeq(q, 1, n)) = n
  BY <1>1, <1>3
<1>6. \A k \in 1 .. n : SubSeq(q, 1, n)[k] = q[k]
  BY <1>1, <1>3
<1>7. DOMAIN SubSeq(q, 1, n) = 1 .. n
  BY <1>4, <1>5
<1>8. 1 .. n \subseteq DOMAIN q
  BY <1>1
<1>9. Front(q) = SubSeq(q, 1, n)
  BY DEF Front
<1> HIDE DEF n
<1>10. Front(q) \in Seq(S) /\ DOMAIN Front(q) = 1 .. n
       /\ \A k \in DOMAIN Front(q) : k \in DOMAIN q /\ Front(q)[k] = q[k]
  BY <1>4, <1>6, <1>7, <1>8, <1>9
<1>11. Last(q) = q[Len(q)]
  BY DEF Last
<1>12. QED
  BY <1>1, <1>2, <1>10, <1>11 DEF n

(* A change of one entry of a table of queues. *)
LEMMA Put ==
  ASSUME NEW S, NEW f \in [Node -> [Node -> S]], NEW x \in S, NEW n \in Node, NEW p \in Node
  PROVE  /\ [f EXCEPT ![n][p] = x] \in [Node -> [Node -> S]]
         /\ [f EXCEPT ![n][p] = x][n][p] = x
         /\ \A m, q \in Node : m # n \/ q # p => [f EXCEPT ![n][p] = x][m][q] = f[m][q]
OBVIOUS

LEMMA Nested ==
  ASSUME NEW S, NEW f \in [Node -> [Node -> S]], NEW n \in Node, NEW p \in Node
  PROVE  f[n][p] \in S
OBVIOUS

-----------------------------------------------------------------------------
(* What is known of the messages in motion: the requests they are about, and *)
(* the throws whose results they carry, have been made.                      *)

Known(m) == m.of \in DOMAIN kind /\ (m.type = "response" => m.serial \in DOMAIN thrown)

AllKnown(table) ==
  \A n, p \in Node : \A k \in DOMAIN table[n][p] : Known(table[n][p][k])

AskKnown(a) == a = NoAsk \/ a.of \in DOMAIN kind

MessagesKnown ==
  /\ \A n \in Node : \A s \in sends[n] : Known(s.message) /\ AskKnown(s.ask)
  /\ \A n \in Node : \A a \in timers[n] : a.of \in DOMAIN kind
  /\ AllKnown(queued) /\ AllKnown(wire)

TInv == TypeOK /\ MessagesKnown

LEMMA Values ==
  /\ \A r, i \in Nat : /\ Request(r, i) \in Message /\ Request(r, i).of = r
                       /\ Request(r, i).serial = i /\ Request(r, i).type = "request"
                       /\ Response(r, i) \in Message /\ Response(r, i).of = r
                       /\ Response(r, i).serial = i /\ Response(r, i).type = "response"
  /\ \A r \in Nat, i \in 0 .. REQUEST_ATTEMPTS :
       AskFor(r, i) \in Ask /\ AskFor(r, i).of = r /\ AskFor(r, i).attempt = i
  /\ NoAsk \in Ask /\ NoAsk.of = 0
  /\ \A p \in Node, m \in Message, a \in Ask :
       /\ NewSend(p, m, a) \in Sending /\ NewSend(p, m, a).to = p
       /\ NewSend(p, m, a).message = m /\ NewSend(p, m, a).ask = a
BY CountAssumption DEF Request, Response, Message, AskFor, NoAsk, Ask, NewSend, Sending

LEMMA Fields ==
  /\ \A s \in Sending : /\ s.to \in Node /\ s.message \in Message /\ s.ask \in Ask
                        /\ s.left \in 1 .. RETRY_COUNT
  /\ \A a \in Ask : a.of \in Nat /\ a.attempt \in 0 .. REQUEST_ATTEMPTS
  /\ \A m \in Message : m.of \in Nat /\ m.serial \in Nat /\ m.type \in {"request", "response"}
BY DEF Sending, Ask, Message

(* The first attempt of a request. *)
LEMMA FirstRequest ==
  ASSUME NEW r \in Nat
  PROVE  /\ Request(r, REQUEST_ATTEMPTS) \in Message /\ Request(r, REQUEST_ATTEMPTS).of = r
         /\ Request(r, REQUEST_ATTEMPTS).type = "request"
         /\ Request(r, REQUEST_ATTEMPTS).serial = REQUEST_ATTEMPTS
         /\ AskFor(r, REQUEST_ATTEMPTS) \in Ask /\ AskFor(r, REQUEST_ATTEMPTS).of = r
         /\ AskFor(r, REQUEST_ATTEMPTS).attempt = REQUEST_ATTEMPTS
         /\ NoAsk \in Ask
<1>1. REQUEST_ATTEMPTS \in Nat /\ REQUEST_ATTEMPTS \in 0 .. REQUEST_ATTEMPTS
  BY CountAssumption
<1>2. QED
  BY <1>1, Values

LEMMA TypeFacts ==
  ASSUME TypeOK
  PROVE  /\ stage \in [Node -> Stage] /\ kind \in Seq(Kind)
         /\ pending \in [Node -> DOMAIN kind \cup {NoRequest}]
         /\ awaiting \in [Node -> BOOLEAN] /\ sends \in [Node -> SUBSET Sending]
         /\ timers \in [Node -> SUBSET Ask]
         /\ queued \in [Node -> [Node -> Seq(Message)]]
         /\ connected \in [Node -> SUBSET Node]
         /\ wire \in [Node -> [Node -> Seq(Message)]]
         /\ thrown \in Seq(DOMAIN kind)
         /\ shown \in [Node -> SUBSET DOMAIN thrown]
         /\ counted \in [Node -> SUBSET DOMAIN thrown]
         /\ dropped \subseteq [to : Node, message : Message]
         /\ faults \in 0 .. Budget /\ reported \subseteq Node
         /\ Len(kind) \in Nat /\ DOMAIN kind = 1 .. Len(kind)
         /\ Len(thrown) \in Nat /\ DOMAIN thrown = 1 .. Len(thrown)
BY DEF TypeOK

LEMMA InitType == Init => TInv
<1>1. SUFFICES ASSUME Init PROVE TInv
  OBVIOUS
<1>2. TypeOK
  BY <1>1, CountAssumption DEF Init, TypeOK, Stage, Others
<1>3. MessagesKnown
  BY <1>1 DEF Init, MessagesKnown, AllKnown
<1>4. QED
  BY <1>2, <1>3 DEF TInv

(* A step that throws no dice and makes no request keeps what is known. *)
LEMMA StillKnown ==
  ASSUME NEW m, Known(m), DOMAIN kind \subseteq DOMAIN kind', DOMAIN thrown \subseteq DOMAIN thrown'
  PROVE  Known(m)'
BY DEF Known

(* The variables a step may not touch if it only moves messages. *)
Stands == UNCHANGED <<kind, thrown>>

LEMMA LeavingType ==
  ASSUME TypeOK, NEW n \in Node
  PROVE  (Leaving(n) \/ UNCHANGED stage) => stage' \in [Node -> Stage]
BY DEF Leaving, TypeOK, Stage

LEMMA SpentType ==
  ASSUME TypeOK, Spent < Budget
  PROVE  faults + 1 \in 0 .. Budget
<1>1. Len(kind) \in Nat /\ faults \in Nat /\ Budget \in Nat
  BY TypeFacts, CountAssumption
<1>2. QED
  BY <1>1 DEF Spent

LEMMA EndSendType ==
  ASSUME TInv, NEW n \in Node, NEW s \in sends[n], EndSend(n, s), Stands
  PROVE  /\ sends' \in [Node -> SUBSET Sending] /\ timers' \in [Node -> SUBSET Ask]
         /\ \A m \in Node : \A t \in sends'[m] : Known(t.message)' /\ AskKnown(t.ask)'
         /\ \A m \in Node : \A a \in timers'[m] : a.of \in DOMAIN kind'
<1>1. s \in Sending /\ s.ask \in Ask /\ AskKnown(s.ask)
  BY TypeFacts, Fields DEF TInv, MessagesKnown
<1>2. /\ sends \in [Node -> SUBSET Sending] /\ timers \in [Node -> SUBSET Ask]
  BY TypeFacts DEF TInv
<1>3. /\ \A m \in Node : sends'[m] \subseteq sends[m]
      /\ \A m \in Node : \A a \in timers'[m] : a \in timers[m] \/ (a = s.ask /\ a # NoAsk)
      /\ sends' \in [Node -> SUBSET Sending] /\ timers' \in [Node -> SUBSET Ask]
  BY <1>1, <1>2 DEF EndSend
<1>4. kind' = kind /\ thrown' = thrown
  BY DEF Stands
<1>5. QED
  BY <1>1, <1>3, <1>4 DEF TInv, MessagesKnown, Known, AskKnown

LEMMA ContinueSendType ==
  ASSUME TInv, NEW n \in Node, NEW s \in sends[n], NEW next \in Sending,
         ContinueSend(n, s, next), Known(next.message), next.ask = s.ask, Stands
  PROVE  /\ sends' \in [Node -> SUBSET Sending] /\ timers' = timers
         /\ \A m \in Node : \A t \in sends'[m] : Known(t.message)' /\ AskKnown(t.ask)'
<1>1. s \in Sending /\ AskKnown(s.ask)
  BY TypeFacts DEF TInv, MessagesKnown
<1>2. sends \in [Node -> SUBSET Sending]
  BY TypeFacts DEF TInv
<1>3. /\ \A m \in Node : sends'[m] \subseteq sends[m] \cup {next}
      /\ sends' \in [Node -> SUBSET Sending] /\ timers' = timers
  BY <1>1, <1>2 DEF ContinueSend
<1>4. kind' = kind /\ thrown' = thrown
  BY DEF Stands
<1>5. QED
  BY <1>1, <1>3, <1>4 DEF TInv, MessagesKnown, Known, AskKnown

LEMMA PutKnown ==
  ASSUME NEW f \in [Node -> [Node -> Seq(Message)]], AllKnown(f),
         NEW n \in Node, NEW p \in Node, NEW q \in Seq(Message), \A k \in DOMAIN q : Known(q[k])
  PROVE  /\ [f EXCEPT ![n][p] = q] \in [Node -> [Node -> Seq(Message)]]
         /\ AllKnown([f EXCEPT ![n][p] = q])
<1> DEFINE g == [f EXCEPT ![n][p] = q]
<1>1. /\ g \in [Node -> [Node -> Seq(Message)]] /\ g[n][p] = q
      /\ \A m, r \in Node : m # n \/ r # p => g[m][r] = f[m][r]
  BY Put
<1> HIDE DEF g
<1>2. AllKnown(g)
  <2>1. ASSUME NEW m \in Node, NEW r \in Node, NEW k \in DOMAIN g[m][r]
        PROVE  Known(g[m][r][k])
    <3>1. CASE m = n /\ r = p
      BY <1>1, <2>1, <3>1
    <3>2. CASE m # n \/ r # p
      <4>1. g[m][r] = f[m][r]
        BY <1>1, <3>2
      <4>2. k \in DOMAIN f[m][r]
        BY <2>1, <4>1
      <4>3. QED
        BY <4>1, <4>2 DEF AllKnown
    <3>3. QED
      BY <3>1, <3>2
  <2>2. QED
    BY <2>1 DEF AllKnown
<1>3. QED
  BY <1>1, <1>2 DEF g

LEMMA AppendKnown ==
  ASSUME NEW q \in Seq(Message), \A k \in DOMAIN q : Known(q[k]), NEW m \in Message, Known(m)
  PROVE  Append(q, m) \in Seq(Message) /\ \A k \in DOMAIN Append(q, m) : Known(Append(q, m)[k])
<1>1. /\ Append(q, m) \in Seq(Message) /\ Len(q) \in Nat
      /\ DOMAIN q = 1 .. Len(q) /\ DOMAIN Append(q, m) = 1 .. Len(q) + 1
      /\ Append(q, m)[Len(q) + 1] = m
      /\ \A k \in DOMAIN q : Append(q, m)[k] = q[k]
  BY Appended
<1>2. \A k \in DOMAIN Append(q, m) : k \in DOMAIN q \/ k = Len(q) + 1
  BY <1>1
<1>3. QED
  BY <1>1, <1>2

LEMMA RestKnown ==
  ASSUME NEW q \in Seq(Message), \A k \in DOMAIN q : Known(q[k]), q # <<>>
  PROVE  /\ Head(q) \in Message /\ Known(Head(q)) /\ Last(q) \in Message /\ Known(Last(q))
         /\ Tail(q) \in Seq(Message) /\ \A k \in DOMAIN Tail(q) : Known(Tail(q)[k])
         /\ Front(q) \in Seq(Message) /\ \A k \in DOMAIN Front(q) : Known(Front(q)[k])
<1>1. /\ Head(q) \in Message /\ 1 \in DOMAIN q /\ q[1] = Head(q) /\ Tail(q) \in Seq(Message)
      /\ \A k \in DOMAIN Tail(q) : k + 1 \in DOMAIN q /\ Tail(q)[k] = q[k + 1]
  BY Headed
<1>2. /\ Last(q) \in Message /\ Len(q) \in DOMAIN q /\ q[Len(q)] = Last(q)
      /\ Front(q) \in Seq(Message)
      /\ \A k \in DOMAIN Front(q) : k \in DOMAIN q /\ Front(q)[k] = q[k]
  BY Fronted
<1>3. QED
  BY <1>1, <1>2

(* Java delivers the message of a send. *)
LEMMA DeliverType ==
  ASSUME TInv, NEW n \in Node, NEW s \in sends[n], Deliver(n, s) \/ UNCHANGED wire
  PROVE  wire' \in [Node -> [Node -> Seq(Message)]] /\ AllKnown(wire')
<1>1. /\ wire \in [Node -> [Node -> Seq(Message)]] /\ AllKnown(wire)
      /\ s.to \in Node /\ s.message \in Message /\ Known(s.message)
  BY TypeFacts, Fields DEF TInv, MessagesKnown
<1>2. CASE wire' = wire
  BY <1>1, <1>2
<1>3. CASE wire' = [wire EXCEPT ![n][s.to] = Append(wire[n][s.to], s.message)]
  <2>1. wire[n][s.to] \in Seq(Message) /\ \A k \in DOMAIN wire[n][s.to] : Known(wire[n][s.to][k])
    BY <1>1 DEF AllKnown
  <2> DEFINE q == Append(wire[n][s.to], s.message)
  <2>2. q \in Seq(Message) /\ \A k \in DOMAIN q : Known(q[k])
    BY <1>1, <2>1, AppendKnown
  <2> HIDE DEF q
  <2>3. wire' = [wire EXCEPT ![n][s.to] = q]
    BY <1>3 DEF q
  <2>4. QED
    BY <1>1, <2>2, <2>3, PutKnown
<1>4. QED
  BY <1>2, <1>3 DEF Deliver

(* Known is the same before and after, if nothing is requested or thrown. *)
LEMMA SameKnown ==
  ASSUME Stands
  PROVE  /\ \A table : AllKnown(table) => (\A n, p \in Node : \A k \in DOMAIN table[n][p] :
                                             Known(table[n][p][k])')
         /\ Len(kind') = Len(kind)
BY DEF Stands, AllKnown, Known, AskKnown

-----------------------------------------------------------------------------
(* Type correctness, action by action                                        *)

LEMMA SendSucceedsType ==
  ASSUME TInv, NEW n \in Node, NEW s \in sends[n], SendSucceeds(n, s)
  PROVE  TInv'
<1> DEFINE queue == queued[n][s.to]
           next  == NewSend(s.to, Last(queue), s.ask)
<1>1. Stands /\ kind' = kind /\ thrown' = thrown
  BY DEF SendSucceeds, Stands
<1>2. wire' \in [Node -> [Node -> Seq(Message)]] /\ AllKnown(wire')
  BY DeliverType DEF SendSucceeds
<1>3. s.to \in Node /\ s.ask \in Ask /\ queue \in Seq(Message) /\ \A k \in DOMAIN queue : Known(queue[k])
  BY TypeFacts, Fields, Nested DEF TInv, MessagesKnown, AllKnown
<1>4. /\ queued' \in [Node -> [Node -> Seq(Message)]] /\ AllKnown(queued')
      /\ sends' \in [Node -> SUBSET Sending] /\ timers' \in [Node -> SUBSET Ask]
      /\ \A m \in Node : \A t \in sends'[m] : Known(t.message)' /\ AskKnown(t.ask)'
      /\ \A m \in Node : \A a \in timers'[m] : a.of \in DOMAIN kind'
  <2>1. CASE EndSend(n, s) /\ UNCHANGED queued
    BY <1>1, <2>1, EndSendType, TypeFacts DEF TInv, MessagesKnown
  <2>2. CASE queue # <<>> /\ queued' = [queued EXCEPT ![n][s.to] = Front(queue)]
             /\ ContinueSend(n, s, next)
    <3>1. /\ Last(queue) \in Message /\ Known(Last(queue)) /\ Front(queue) \in Seq(Message)
          /\ \A k \in DOMAIN Front(queue) : Known(Front(queue)[k])
      BY <1>3, <2>2, RestKnown
    <3>2. next \in Sending /\ next.message = Last(queue) /\ next.ask = s.ask
      BY <1>3, <3>1, Values
    <3> DEFINE q == Front(queue)
    <3>3. queued' = [queued EXCEPT ![n][s.to] = q]
      BY <2>2
    <3> HIDE DEF q
    <3>4. queued \in [Node -> [Node -> Seq(Message)]] /\ AllKnown(queued)
      BY TypeFacts DEF TInv, MessagesKnown
    <3>5. queued' \in [Node -> [Node -> Seq(Message)]] /\ AllKnown(queued')
      BY <1>3, <3>1, <3>3, <3>4, PutKnown DEF q
    <3>6. Known(next.message) /\ ContinueSend(n, s, next)
      BY <2>2, <3>1, <3>2
    <3> HIDE DEF next
    <3>7. /\ sends' \in [Node -> SUBSET Sending] /\ timers' = timers
          /\ \A m \in Node : \A t \in sends'[m] : Known(t.message)' /\ AskKnown(t.ask)'
      BY <1>1, <3>2, <3>6, ContinueSendType
    <3>8. QED
      BY <1>1, <3>5, <3>7, TypeFacts DEF TInv, MessagesKnown
  <2>3. QED
    BY <2>1, <2>2 DEF SendSucceeds
<1>5. /\ UNCHANGED <<stage, pending, awaiting, shown, counted, dropped, faults, reported>>
      /\ connected' \in [Node -> SUBSET Node]
  <2>1. UNCHANGED <<stage, pending, awaiting, shown, counted, dropped, faults, reported>>
        /\ connected' = [connected EXCEPT ![n] = @ \cup {s.to}]
    BY DEF SendSucceeds
  <2>2. QED
    BY <1>3, <2>1, TypeFacts DEF TInv
<1>6. TypeOK'
  BY <1>1, <1>2, <1>4, <1>5, TypeFacts DEF TInv, TypeOK
<1>7. MessagesKnown'
  BY <1>1, <1>2, <1>4, SameKnown DEF MessagesKnown, AllKnown, Known, AskKnown
<1>8. QED
  BY <1>6, <1>7 DEF TInv

LEMMA SendRefusedType ==
  ASSUME TInv, NEW n \in Node, NEW s \in sends[n], SendRefused(n, s)
  PROVE  TInv'
<1> DEFINE next == [s EXCEPT !.left = @ - 1]
<1>1. Stands /\ kind' = kind /\ thrown' = thrown
  BY DEF SendRefused, Stands
<1>2. s \in Sending /\ s.to \in Node /\ s.message \in Message /\ Known(s.message)
      /\ s.left \in 1 .. RETRY_COUNT
  BY TypeFacts, Fields DEF TInv, MessagesKnown
<1>3. /\ sends' \in [Node -> SUBSET Sending] /\ timers' \in [Node -> SUBSET Ask]
      /\ \A m \in Node : \A t \in sends'[m] : Known(t.message)' /\ AskKnown(t.ask)'
      /\ \A m \in Node : \A a \in timers'[m] : a.of \in DOMAIN kind'
      /\ dropped' \subseteq [to : Node, message : Message]
  <2>1. CASE EndSend(n, s) /\ dropped' = dropped \cup {[to |-> s.to, message |-> s.message]}
    <3>1. [to |-> s.to, message |-> s.message] \in [to : Node, message : Message]
      BY <1>2
    <3>2. dropped' \subseteq [to : Node, message : Message]
      BY <2>1, <3>1, TypeFacts DEF TInv
    <3>3. QED
      BY <1>1, <2>1, <3>2, EndSendType
  <2>2. CASE s.left > 1 /\ ContinueSend(n, s, next) /\ UNCHANGED dropped
    <3>1. next \in Sending /\ next.message = s.message /\ next.ask = s.ask
      BY <1>2, <2>2, CountAssumption DEF Sending
    <3>2. Known(next.message) /\ ContinueSend(n, s, next)
      BY <1>2, <2>2, <3>1
    <3> HIDE DEF next
    <3>3. /\ sends' \in [Node -> SUBSET Sending] /\ timers' = timers
          /\ \A m \in Node : \A t \in sends'[m] : Known(t.message)' /\ AskKnown(t.ask)'
      BY <1>1, <3>1, <3>2, ContinueSendType
    <3>4. QED
      BY <1>1, <2>2, <3>3, TypeFacts DEF TInv, MessagesKnown
  <2>3. QED
    BY <2>1, <2>2 DEF SendRefused
<1>4. UNCHANGED <<stage, pending, awaiting, queued, connected, wire, shown, counted, reported>>
      /\ faults' \in 0 .. Budget
  BY SpentType DEF SendRefused, TInv
<1>5. TypeOK'
  BY <1>1, <1>3, <1>4, TypeFacts DEF TInv, TypeOK
<1>6. MessagesKnown'
  BY <1>1, <1>3, <1>4 DEF TInv, MessagesKnown, AllKnown, Known, AskKnown
<1>7. QED
  BY <1>5, <1>6 DEF TInv

LEMMA SendBreaksType ==
  ASSUME TInv, NEW n \in Node, NEW s \in sends[n], SendBreaks(n, s)
  PROVE  TInv'
<1> DEFINE queue == queued[n][s.to]
           q     == Append(queue, s.message)
<1>1. Stands /\ kind' = kind /\ thrown' = thrown
  BY DEF SendBreaks, Stands
<1>2. /\ s.to \in Node /\ s.message \in Message /\ Known(s.message)
      /\ queue \in Seq(Message) /\ \A k \in DOMAIN queue : Known(queue[k])
  BY TypeFacts, Fields, Nested DEF TInv, MessagesKnown, AllKnown
<1>3. q \in Seq(Message) /\ \A k \in DOMAIN q : Known(q[k])
  BY <1>2, AppendKnown
<1>4. queued' = [queued EXCEPT ![n][s.to] = q]
  BY DEF SendBreaks
<1> HIDE DEF q
<1>5. queued' \in [Node -> [Node -> Seq(Message)]] /\ AllKnown(queued')
  BY <1>2, <1>3, <1>4, PutKnown, TypeFacts DEF TInv, MessagesKnown
<1>6. /\ sends' \in [Node -> SUBSET Sending] /\ timers' \in [Node -> SUBSET Ask]
      /\ \A m \in Node : \A t \in sends'[m] : Known(t.message)' /\ AskKnown(t.ask)'
      /\ \A m \in Node : \A a \in timers'[m] : a.of \in DOMAIN kind'
  BY <1>1, EndSendType DEF SendBreaks
<1>7. /\ UNCHANGED <<pending, awaiting, wire, shown, counted, dropped, reported>>
      /\ connected' \in [Node -> SUBSET Node] /\ stage' \in [Node -> Stage]
      /\ faults' \in 0 .. Budget
  BY <1>2, SpentType, LeavingType, TypeFacts DEF SendBreaks, TInv
<1>8. TypeOK'
  BY <1>1, <1>5, <1>6, <1>7, TypeFacts DEF TInv, TypeOK
<1>9. MessagesKnown'
  BY <1>1, <1>5, <1>6, <1>7 DEF TInv, MessagesKnown, AllKnown, Known, AskKnown
<1>10. QED
  BY <1>8, <1>9 DEF TInv

LEMMA SendOrphanedType ==
  ASSUME TInv, NEW n \in Node, NEW s \in sends[n], SendOrphaned(n, s)
  PROVE  TInv'
<1>1. Stands /\ kind' = kind /\ thrown' = thrown
  BY DEF SendOrphaned, Stands
<1>2. wire' \in [Node -> [Node -> Seq(Message)]] /\ AllKnown(wire')
  BY DeliverType DEF SendOrphaned
<1>3. /\ UNCHANGED <<stage, pending, awaiting, timers, queued, connected, shown, counted,
                     dropped, faults, reported>>
      /\ sends' \in [Node -> SUBSET Sending] /\ \A m \in Node : sends'[m] \subseteq sends[m]
  BY TypeFacts DEF SendOrphaned, TInv
<1>4. TypeOK'
  BY <1>1, <1>2, <1>3, TypeFacts DEF TInv, TypeOK
<1>5. MessagesKnown'
  BY <1>1, <1>2, <1>3 DEF TInv, MessagesKnown, AllKnown, Known, AskKnown
<1>6. QED
  BY <1>4, <1>5 DEF TInv

LEMMA AskTimerType ==
  ASSUME TInv, NEW n \in Node, NEW a \in timers[n], AskTimer(n, a)
  PROVE  TInv'
<1> DEFINE next == AskFor(a.of, a.attempt - 1)
           send == NewSend(Gen, Request(a.of, a.attempt - 1), next)
<1>1. /\ kind' = kind /\ thrown' = thrown
      /\ UNCHANGED <<pending, awaiting, queued, connected, wire, shown, counted, dropped,
                     faults, reported>>
  BY DEF AskTimer
<1>2. /\ a \in Ask /\ a.of \in DOMAIN kind /\ a.attempt \in 0 .. REQUEST_ATTEMPTS
      /\ Gen \in Node
  BY TypeFacts, Fields, PlayersAssumption DEF TInv, MessagesKnown
<1>3. /\ stage' \in [Node -> Stage] /\ sends' \in [Node -> SUBSET Sending]
      /\ \A m \in Node : \A t \in sends'[m] : Known(t.message)' /\ AskKnown(t.ask)'
  <2>1. CASE UNCHANGED sends
    BY <1>1, <2>1, LeavingType, TypeFacts DEF AskTimer, TInv, MessagesKnown, Known, AskKnown
  <2>2. CASE a.attempt > 1 /\ sends' = [sends EXCEPT ![n] = @ \cup {send}] /\ UNCHANGED stage
    <3>1. a.attempt - 1 \in 0 .. REQUEST_ATTEMPTS /\ a.attempt - 1 \in Nat /\ a.of \in Nat
      BY <1>2, <2>2, CountAssumption, Fields
    <3>2. /\ next \in Ask /\ next.of = a.of
          /\ Request(a.of, a.attempt - 1) \in Message
          /\ Request(a.of, a.attempt - 1).of = a.of
          /\ Request(a.of, a.attempt - 1).type = "request"
      BY <3>1, Values
    <3>3. /\ send \in Sending /\ send.ask = next
          /\ send.message = Request(a.of, a.attempt - 1)
      BY <1>2, <3>2, Values
    <3> HIDE DEF next, send
    <3>4. Known(send.message) /\ AskKnown(send.ask)
      BY <1>2, <3>2, <3>3 DEF Known, AskKnown
    <3>5. /\ sends' \in [Node -> SUBSET Sending]
          /\ \A m \in Node : sends'[m] \subseteq sends[m] \cup {send}
      BY <2>2, <3>3, TypeFacts DEF TInv
    <3>6. QED
      BY <1>1, <2>2, <3>4, <3>5, TypeFacts DEF TInv, MessagesKnown, Known, AskKnown
  <2>3. QED
    BY <2>1, <2>2 DEF AskTimer
<1>4. timers' \in [Node -> SUBSET Ask] /\ \A m \in Node : timers'[m] \subseteq timers[m]
  BY TypeFacts DEF AskTimer, TInv
<1>5. TypeOK'
  BY <1>1, <1>3, <1>4, TypeFacts DEF TInv, TypeOK
<1>6. MessagesKnown'
  BY <1>1, <1>3, <1>4 DEF TInv, MessagesKnown, AllKnown, Known
<1>7. QED
  BY <1>5, <1>6 DEF TInv

(* A throw for request r; what is sent along is known. *)
LEMMA ThrowType ==
  ASSUME TInv, NEW n \in Node, NEW r \in DOMAIN kind', NEW k \in Kind, NEW requests \in SUBSET Sending,
         \A s \in requests : Known(s.message)' /\ AskKnown(s.ask)',
         kind' \in Seq(Kind), DOMAIN kind \subseteq DOMAIN kind', Throw(n, k, r, requests)
  PROVE  /\ thrown' \in Seq(DOMAIN kind') /\ DOMAIN thrown' = 1 .. Len(thrown) + 1
         /\ DOMAIN thrown \subseteq DOMAIN thrown'
         /\ thrown'[Len(thrown) + 1] = r /\ \A t \in DOMAIN thrown : thrown'[t] = thrown[t]
         /\ shown' \in [Node -> SUBSET DOMAIN thrown']
         /\ sends' \in [Node -> SUBSET Sending]
         /\ \A m \in Node : \A s \in sends'[m] : Known(s.message)' /\ AskKnown(s.ask)'
<1> DEFINE t == Len(thrown) + 1
<1>1. thrown \in Seq(DOMAIN kind') /\ Len(thrown) \in Nat /\ DOMAIN thrown = 1 .. Len(thrown)
  <2>1. thrown \in Seq(DOMAIN kind) /\ Len(thrown) \in Nat /\ DOMAIN thrown = 1 .. Len(thrown)
    BY TypeFacts DEF TInv
  <2>2. QED
    BY <2>1
<1>2. thrown' = Append(thrown, r)
  BY DEF Throw
<1>3. /\ thrown' \in Seq(DOMAIN kind') /\ DOMAIN thrown' = 1 .. t
      /\ thrown'[t] = r /\ \A i \in DOMAIN thrown : thrown'[i] = thrown[i]
  BY <1>1, <1>2
<1>4. DOMAIN thrown \subseteq DOMAIN thrown' /\ t \in DOMAIN thrown'
  BY <1>1, <1>3
<1>5. shown' \in [Node -> SUBSET DOMAIN thrown']
  <2>1. shown \in [Node -> SUBSET DOMAIN thrown]
    BY TypeFacts DEF TInv
  <2>2. shown' = [shown EXCEPT ![n] = IF k \in Showable THEN @ \cup {t} ELSE @]
    BY DEF Throw
  <2> HIDE DEF t
  <2>3. QED
    BY <1>4, <2>1, <2>2
<1>6. r \in Nat /\ t \in Nat
  <2>1. DOMAIN kind' = 1 .. Len(kind') /\ Len(kind') \in Nat
    OBVIOUS
  <2>2. QED
    BY <1>1, <2>1
<1>7. ASSUME NEW s \in Responses(n, k, r, t)
      PROVE  s \in Sending /\ Known(s.message)' /\ AskKnown(s.ask)'
  <2>1. PICK p \in Node : s = NewSend(p, Response(r, t), NoAsk)
    BY DEF Responses, Others
  <2>2. /\ Response(r, t) \in Message /\ Response(r, t).of = r
        /\ Response(r, t).serial = t /\ NoAsk \in Ask
    BY <1>6, Values
  <2>3. s \in Sending /\ s.message = Response(r, t) /\ s.ask = NoAsk
    BY <2>1, <2>2, Values
  <2>4. Known(s.message)'
    BY <1>4, <2>2, <2>3 DEF Known
  <2>5. QED
    BY <2>3, <2>4 DEF AskKnown
<1>8. sends' = [sends EXCEPT ![n] = @ \cup requests \cup Responses(n, k, r, t)]
  BY DEF Throw
<1>9. sends \in [Node -> SUBSET Sending]
  BY TypeFacts DEF TInv
<1>10. /\ sends' \in [Node -> SUBSET Sending]
       /\ \A m \in Node : \A s \in sends'[m] :
             s \in sends[m] \/ s \in requests \/ s \in Responses(n, k, r, t)
  BY <1>7, <1>8, <1>9
<1>11. ASSUME NEW m \in Node, NEW s \in sends[m]
       PROVE  Known(s.message)' /\ AskKnown(s.ask)'
  BY <1>4 DEF TInv, MessagesKnown, Known, AskKnown
<1>12. \A m \in Node : \A s \in sends'[m] : Known(s.message)' /\ AskKnown(s.ask)'
  BY <1>7, <1>10, <1>11
<1>13. QED
  BY <1>3, <1>4, <1>5, <1>10, <1>12

(* What is known stays known when more is requested and thrown. *)
LEMMA MoreKnown ==
  ASSUME DOMAIN kind \subseteq DOMAIN kind', DOMAIN thrown \subseteq DOMAIN thrown', MessagesKnown
  PROVE  /\ \A n \in Node : \A s \in sends[n] : Known(s.message)' /\ AskKnown(s.ask)'
         /\ \A n \in Node : \A a \in timers[n] : a.of \in DOMAIN kind'
         /\ \A n, p \in Node : \A k \in DOMAIN queued[n][p] : \A m : m = queued[n][p][k] => Known(m)'
         /\ \A n, p \in Node : \A k \in DOMAIN wire[n][p] : \A m : m = wire[n][p][k] => Known(m)'
<1>1. \A m : Known(m) => Known(m)'
  BY DEF Known
<1>2. /\ \A n \in Node : \A s \in sends[n] : Known(s.message) /\ AskKnown(s.ask)
      /\ \A n \in Node : \A a \in timers[n] : a.of \in DOMAIN kind
      /\ \A n, p \in Node : \A k \in DOMAIN queued[n][p] : Known(queued[n][p][k])
      /\ \A n, p \in Node : \A k \in DOMAIN wire[n][p] : Known(wire[n][p][k])
  BY DEF MessagesKnown, AllKnown
<1>3. \A n \in Node : \A s \in sends[n] : Known(s.message)' /\ AskKnown(s.ask)'
  BY <1>2, StillKnown DEF AskKnown
<1>4. \A n, p \in Node : \A k \in DOMAIN queued[n][p] : \A m : m = queued[n][p][k] => Known(m)'
  BY <1>1, <1>2
<1>5. \A n, p \in Node : \A k \in DOMAIN wire[n][p] : \A m : m = wire[n][p][k] => Known(m)'
  BY <1>1, <1>2
<1>6. QED
  BY <1>2, <1>3, <1>4, <1>5

LEMMA CastType ==
  ASSUME TInv, NEW n \in Node, NEW k \in Kind, Cast(n, k)
  PROVE  TInv'
<1> DEFINE r        == Len(kind) + 1
           ask      == AskFor(r, REQUEST_ATTEMPTS)
           requests == {NewSend(p, Request(r, REQUEST_ATTEMPTS),
                                IF p = Gen THEN ask ELSE NoAsk) : p \in Others(n)}
<1>1. /\ kind' = Append(kind, k) /\ kind \in Seq(Kind) /\ Len(kind) \in Nat
      /\ DOMAIN kind = 1 .. Len(kind)
  BY TypeFacts DEF Cast, TInv
<1>2. /\ kind' \in Seq(Kind) /\ DOMAIN kind' = 1 .. r /\ DOMAIN kind \subseteq DOMAIN kind'
      /\ r \in DOMAIN kind' /\ r \in Nat
  BY <1>1
<1>3. UNCHANGED <<stage, timers, queued, connected, wire, counted, dropped, faults, reported>>
  BY DEF Cast
<1>4. ASSUME NEW s \in requests
      PROVE  s \in Sending /\ Known(s.message)' /\ AskKnown(s.ask)'
  <2>1. PICK p \in Node : s = NewSend(p, Request(r, REQUEST_ATTEMPTS),
                                      IF p = Gen THEN ask ELSE NoAsk)
    BY DEF Others
  <2>2. /\ Request(r, REQUEST_ATTEMPTS) \in Message /\ Request(r, REQUEST_ATTEMPTS).of = r
        /\ Request(r, REQUEST_ATTEMPTS).type = "request"
        /\ ask \in Ask /\ ask.of = r /\ NoAsk \in Ask
    BY <1>2, FirstRequest
  <2> HIDE DEF ask
  <2>3. /\ s \in Sending /\ s.message = Request(r, REQUEST_ATTEMPTS)
        /\ s.ask = ask \/ s.ask = NoAsk
    <3>1. CASE p = Gen
      BY <2>1, <2>2, <3>1, Values
    <3>2. CASE p # Gen
      BY <2>1, <2>2, <3>2, Values
    <3>3. QED
      BY <3>1, <3>2
  <2>4. Known(s.message)'
    BY <1>2, <2>2, <2>3 DEF Known
  <2>5. QED
    BY <1>2, <2>2, <2>3, <2>4 DEF AskKnown
<1> HIDE DEF requests
<1>5. /\ thrown' \in Seq(DOMAIN kind') /\ DOMAIN thrown \subseteq DOMAIN thrown'
      /\ shown' \in [Node -> SUBSET DOMAIN thrown']
      /\ sends' \in [Node -> SUBSET Sending]
      /\ \A m \in Node : \A s \in sends'[m] : Known(s.message)' /\ AskKnown(s.ask)'
  <2>1. CASE n = Gen
    <3>1. Throw(n, k, r, requests)
      BY <2>1 DEF Cast, requests
    <3>2. requests \in SUBSET Sending
      BY <1>4
    <3>3. \A s \in requests : Known(s.message)' /\ AskKnown(s.ask)'
      BY <1>4
    <3>4. QED
      BY <1>2, <3>1, <3>2, <3>3, ThrowType
  <2>2. CASE n # Gen
    <3>1. thrown' = thrown /\ shown' = shown /\ sends' = [sends EXCEPT ![n] = @ \cup requests]
      BY <2>2 DEF Cast, requests
    <3>2. thrown \in Seq(DOMAIN kind')
      <4>1. thrown \in Seq(DOMAIN kind)
        BY TypeFacts DEF TInv
      <4>2. QED
        BY <1>2, <4>1
    <3>3. /\ sends' \in [Node -> SUBSET Sending]
          /\ \A m \in Node : \A s \in sends'[m] : s \in sends[m] \/ s \in requests
      BY <1>4, <3>1, TypeFacts DEF TInv
    <3>4. \A m \in Node : \A s \in sends[m] : Known(s.message)' /\ AskKnown(s.ask)'
      BY <1>2, <3>1, MoreKnown DEF TInv
    <3>5. QED
      BY <1>4, <3>1, <3>2, <3>3, <3>4, TypeFacts DEF TInv
  <2>3. QED
    BY <2>1, <2>2
<1>6. pending' \in [Node -> DOMAIN kind' \cup {NoRequest}] /\ awaiting' \in [Node -> BOOLEAN]
  <2>1. /\ pending \in [Node -> DOMAIN kind \cup {NoRequest}] /\ awaiting \in [Node -> BOOLEAN]
        /\ pending' = pending \/ pending' = [pending EXCEPT ![n] = r]
        /\ awaiting' = awaiting \/ awaiting' = [awaiting EXCEPT ![n] = TRUE]
    BY TypeFacts DEF Cast, TInv
  <2> HIDE DEF r
  <2>2. QED
    BY <1>2, <2>1
<1>7. counted' \in [Node -> SUBSET DOMAIN thrown']
  BY <1>3, <1>5, TypeFacts DEF TInv
<1>8. TypeOK'
  BY <1>2, <1>3, <1>5, <1>6, <1>7, TypeFacts DEF TInv, TypeOK
<1>9. MessagesKnown'
  <2>1. MessagesKnown
    BY DEF TInv
  <2>2. QED
    BY <1>2, <1>3, <1>5, <2>1, MoreKnown DEF MessagesKnown, AllKnown
<1>10. QED
  BY <1>8, <1>9 DEF TInv

LEMMA ConsumeType ==
  ASSUME TInv, NEW n \in Node, NEW p \in Node, wire[p][n] # <<>>, Consume(n, p)
  PROVE  /\ wire' \in [Node -> [Node -> Seq(Message)]] /\ AllKnown(wire')
         /\ Head(wire[p][n]) \in Message /\ Known(Head(wire[p][n]))
<1>1. /\ wire[p][n] \in Seq(Message) /\ \A k \in DOMAIN wire[p][n] : Known(wire[p][n][k])
      /\ wire \in [Node -> [Node -> Seq(Message)]] /\ AllKnown(wire)
  BY TypeFacts, Nested DEF TInv, MessagesKnown, AllKnown
<1> DEFINE q == Tail(wire[p][n])
<1>2. /\ q \in Seq(Message) /\ \A k \in DOMAIN q : Known(q[k])
      /\ Head(wire[p][n]) \in Message /\ Known(Head(wire[p][n]))
  BY <1>1, RestKnown
<1>3. wire' = [wire EXCEPT ![p][n] = q]
  BY DEF Consume
<1> HIDE DEF q
<1>4. QED
  BY <1>1, <1>2, <1>3, PutKnown

LEMMA ReceptionType ==
  ASSUME TInv, NEW n \in Node, NEW p \in Node, NEW still, ReceptionSuccess(n, p, still)
  PROVE  connected' \in [Node -> SUBSET Node] /\ awaiting' \in [Node -> BOOLEAN]
BY TypeFacts DEF TInv, ReceptionSuccess

LEMMA ReceiveRequestType ==
  ASSUME TInv, NEW n \in Node, NEW p \in Node, ReceiveRequest(n, p)
  PROVE  TInv'
<1> DEFINE message == Head(wire[p][n])
<1>1. /\ wire' \in [Node -> [Node -> Seq(Message)]] /\ AllKnown(wire')
      /\ message \in Message /\ Known(message)
  BY ConsumeType DEF ReceiveRequest
<1>2. connected' \in [Node -> SUBSET Node] /\ awaiting' \in [Node -> BOOLEAN]
  BY ReceptionType DEF ReceiveRequest
<1>3. UNCHANGED <<stage, kind, pending, timers, queued, counted, dropped, faults, reported>>
  BY DEF ReceiveRequest
<1>4. message.of \in DOMAIN kind /\ kind[message.of] \in Kind
  <2>1. message.of \in DOMAIN kind /\ kind \in Seq(Kind)
    BY <1>1, TypeFacts DEF TInv, Known
  <2> HIDE DEF message
  <2>2. QED
    BY <2>1
<1>5. /\ thrown' \in Seq(DOMAIN kind') /\ DOMAIN thrown \subseteq DOMAIN thrown'
      /\ shown' \in [Node -> SUBSET DOMAIN thrown']
      /\ sends' \in [Node -> SUBSET Sending]
      /\ \A m \in Node : \A s \in sends'[m] : Known(s.message)' /\ AskKnown(s.ask)'
  <2>1. CASE n = Gen
    <3>1. Throw(n, kind[message.of], message.of, {})
      BY <2>1 DEF ReceiveRequest
    <3> HIDE DEF message
    <3>2. kind' \in Seq(Kind) /\ DOMAIN kind \subseteq DOMAIN kind' /\ message.of \in DOMAIN kind'
      BY <1>3, <1>4, TypeFacts DEF TInv
    <3>3. PICK r \in DOMAIN kind', k \in Kind : r = message.of /\ k = kind[message.of]
      BY <1>4, <3>2
    <3>4. Throw(n, k, r, {})
      BY <3>1, <3>3
    <3>5. QED
      BY <3>2, <3>4, ThrowType
  <2>2. CASE n # Gen
    BY <1>3, <2>2, TypeFacts DEF ReceiveRequest, TInv, MessagesKnown, Known, AskKnown
  <2>3. QED
    BY <2>1, <2>2
<1>6. counted' \in [Node -> SUBSET DOMAIN thrown']
  BY <1>3, <1>5, TypeFacts DEF TInv
<1>7. TypeOK'
  BY <1>1, <1>2, <1>3, <1>5, <1>6, TypeFacts DEF TInv, TypeOK
<1>8. MessagesKnown'
  <2>1. MessagesKnown /\ DOMAIN kind \subseteq DOMAIN kind'
    BY <1>3 DEF TInv
  <2>2. AllKnown(wire)'
    BY <1>1, <1>3, <1>5 DEF AllKnown, Known
  <2>3. QED
    BY <1>3, <1>5, <2>1, <2>2, MoreKnown DEF MessagesKnown, AllKnown
<1>9. QED
  BY <1>7, <1>8 DEF TInv

LEMMA ReceiveResponseType ==
  ASSUME TInv, NEW n \in Node, NEW p \in Node, ReceiveResponse(n, p)
  PROVE  TInv'
<1> DEFINE message == Head(wire[p][n])
<1>1. /\ wire' \in [Node -> [Node -> Seq(Message)]] /\ AllKnown(wire')
      /\ message \in Message /\ Known(message)
  BY ConsumeType DEF ReceiveResponse
<1>2. connected' \in [Node -> SUBSET Node] /\ awaiting' \in [Node -> BOOLEAN]
  BY ReceptionType DEF ReceiveResponse
<1>3. UNCHANGED <<stage, kind, sends, timers, queued, thrown, counted, dropped, faults, reported>>
  BY DEF ReceiveResponse
<1>4. message.serial \in DOMAIN thrown
  BY <1>1 DEF Known, ReceiveResponse
<1>5. shown' \in [Node -> SUBSET DOMAIN thrown]
  <2>1. shown' = [shown EXCEPT ![n] = @ \cup {message.serial}]
    BY DEF ReceiveResponse
  <2> HIDE DEF message
  <2>2. QED
    BY <1>4, <2>1, TypeFacts DEF TInv
<1>6. pending' \in [Node -> DOMAIN kind \cup {NoRequest}]
  <2>1. \/ pending' = [pending EXCEPT ![n] = NoRequest]
        \/ pending' = [pending EXCEPT ![n] = pending[n]]
    BY DEF ReceiveResponse
  <2>2. QED
    BY <2>1, TypeFacts DEF TInv
<1>7. TypeOK'
  BY <1>1, <1>2, <1>3, <1>5, <1>6, TypeFacts DEF TInv, TypeOK
<1>8. MessagesKnown'
  BY <1>1, <1>3 DEF TInv, MessagesKnown, AllKnown, Known, AskKnown
<1>9. QED
  BY <1>7, <1>8 DEF TInv

LEMMA ResponseShownType ==
  ASSUME TInv, NEW n \in Node, NEW t \in shown[n], ResponseShown(n, t)
  PROVE  TInv'
<1>1. /\ UNCHANGED <<kind, pending, awaiting, sends, timers, queued, connected, wire, thrown,
                     shown, dropped, faults, reported>>
      /\ stage' \in [Node -> Stage]
  BY LeavingType DEF ResponseShown, TInv
<1>2. counted' \in [Node -> SUBSET DOMAIN thrown]
  <2>1. /\ shown \in [Node -> SUBSET DOMAIN thrown] /\ counted \in [Node -> SUBSET DOMAIN thrown]
        /\ counted' = counted \/ counted' = [counted EXCEPT ![n] = @ \cup {t}]
    BY TypeFacts DEF ResponseShown, TInv
  <2>2. QED
    BY <2>1
<1>3. TypeOK'
  BY <1>1, <1>2, TypeFacts DEF TInv, TypeOK
<1>4. MessagesKnown'
  BY <1>1 DEF TInv, MessagesKnown, AllKnown, Known, AskKnown
<1>5. QED
  BY <1>3, <1>4 DEF TInv

LEMMA ReadFailureType ==
  ASSUME TInv, NEW n \in Node, NEW p \in Node, ReadFailure(n, p)
  PROVE  TInv'
<1>1. /\ UNCHANGED <<kind, pending, awaiting, sends, timers, queued, thrown, shown, counted,
                     reported>>
      /\ connected' \in [Node -> SUBSET Node] /\ stage' \in [Node -> Stage]
      /\ faults' \in 0 .. Budget
  BY LeavingType, SpentType, TypeFacts DEF ReadFailure, TInv
<1>2. /\ wire \in [Node -> [Node -> Seq(Message)]] /\ AllKnown(wire)
      /\ wire[p][n] \in Seq(Message)
  BY TypeFacts DEF TInv, MessagesKnown
<1>3. wire' \in [Node -> [Node -> Seq(Message)]] /\ AllKnown(wire')
  <2>1. <<>> \in Seq(Message) /\ \A k \in DOMAIN <<>> : FALSE
    OBVIOUS
  <2>2. PICK q \in Seq(Message) : q = <<>> /\ \A k \in DOMAIN q : Known(q[k])
    BY <2>1
  <2>3. wire' = [wire EXCEPT ![p][n] = q]
    BY <2>2 DEF ReadFailure
  <2>4. QED
    BY <1>2, <2>2, <2>3, PutKnown
<1>4. dropped' \subseteq [to : Node, message : Message]
  <2>1. \A k \in DOMAIN wire[p][n] : wire[p][n][k] \in Message
    BY <1>2
  <2>2. \A k \in DOMAIN wire[p][n] :
          [to |-> n, message |-> wire[p][n][k]] \in [to : Node, message : Message]
    BY <2>1
  <2>3. QED
    BY <2>2, TypeFacts DEF ReadFailure, TInv
<1>5. TypeOK'
  BY <1>1, <1>3, <1>4, TypeFacts DEF TInv, TypeOK
<1>6. MessagesKnown'
  BY <1>1, <1>3 DEF TInv, MessagesKnown, AllKnown, Known, AskKnown
<1>7. QED
  BY <1>5, <1>6 DEF TInv

LEMMA GoneType ==
  ASSUME TInv, NEW n \in Node, Gone(n)
  PROVE  TInv'
<1>1. UNCHANGED <<kind, sends, thrown, dropped, faults, reported>>
  BY DEF Gone
<1>2. /\ stage' \in [Node -> Stage] /\ pending' \in [Node -> DOMAIN kind \cup {NoRequest}]
      /\ awaiting' \in [Node -> BOOLEAN]
      /\ connected' \in [Node -> SUBSET Node]
      /\ shown' \in [Node -> SUBSET DOMAIN thrown] /\ counted' \in [Node -> SUBSET DOMAIN thrown]
  BY TypeFacts DEF Gone, TInv, Stage
<1>3. timers' \in [Node -> SUBSET Ask] /\ \A m \in Node : timers'[m] \subseteq timers[m]
  BY TypeFacts DEF Gone, TInv
<1>4. /\ queued \in [Node -> [Node -> Seq(Message)]] /\ wire \in [Node -> [Node -> Seq(Message)]]
      /\ AllKnown(queued) /\ AllKnown(wire)
  BY TypeFacts DEF TInv, MessagesKnown
<1>5. <<>> \in Seq(Message) /\ DOMAIN <<>> = {}
  OBVIOUS
<1>6. /\ queued' \in [Node -> [Node -> Seq(Message)]]
      /\ \A m, p \in Node : queued'[m][p] = queued[m][p] \/ queued'[m][p] = <<>>
  BY <1>4, <1>5 DEF Gone
<1>7. /\ wire' \in [Node -> [Node -> Seq(Message)]]
      /\ \A m, p \in Node : wire'[m][p] = wire[m][p] \/ wire'[m][p] = <<>>
  <2>1. wire' = [p \in Node |-> [wire[p] EXCEPT ![n] = <<>>]]
    BY DEF Gone
  <2>2. \A p \in Node : [wire[p] EXCEPT ![n] = <<>>] \in [Node -> Seq(Message)]
    BY <1>4, <1>5
  <2>3. QED
    BY <1>4, <2>1, <2>2
<1>8. AllKnown(queued') /\ AllKnown(wire')
  <2>1. ASSUME NEW m \in Node, NEW p \in Node, NEW k \in DOMAIN queued'[m][p]
        PROVE  queued'[m][p] = queued[m][p]
    BY <1>5, <1>6, <2>1
  <2>2. ASSUME NEW m \in Node, NEW p \in Node, NEW k \in DOMAIN wire'[m][p]
        PROVE  wire'[m][p] = wire[m][p]
    BY <1>5, <1>7, <2>2
  <2>3. AllKnown(queued')
    BY <1>4, <2>1 DEF AllKnown
  <2>4. QED
    BY <1>4, <2>2, <2>3 DEF AllKnown
<1>9. TypeOK'
  BY <1>1, <1>2, <1>3, <1>6, <1>7, TypeFacts DEF TInv, TypeOK
<1>10. MessagesKnown'
  BY <1>1, <1>3, <1>8 DEF TInv, MessagesKnown, AllKnown, Known, AskKnown
<1>11. QED
  BY <1>9, <1>10 DEF TInv

LEMMA EventType ==
  ASSUME TInv, NEW n \in Node, GameStopped(n) \/ \E p \in Others(n) : DeviceConnected(n, p)
  PROVE  TInv'
<1>1. /\ UNCHANGED <<kind, pending, sends, timers, queued, wire, thrown, shown, counted, dropped>>
      /\ stage' \in [Node -> Stage] /\ faults' \in 0 .. Budget /\ reported' \subseteq Node
      /\ connected' \in [Node -> SUBSET Node] /\ awaiting' \in [Node -> BOOLEAN]
  <2>1. CASE GameStopped(n)
    BY <2>1, LeavingType, TypeFacts DEF GameStopped, TInv
  <2>2. CASE \E p \in Others(n) : DeviceConnected(n, p)
    BY <2>2, ReceptionType, SpentType, TypeFacts DEF DeviceConnected, TInv, Others
  <2>3. QED
    BY <2>1, <2>2
<1>2. TypeOK'
  BY <1>1, TypeFacts DEF TInv, TypeOK
<1>3. MessagesKnown'
  BY <1>1 DEF TInv, MessagesKnown, AllKnown, Known, AskKnown
<1>4. QED
  BY <1>2, <1>3 DEF TInv

(* The actions of a step, for the case splits below. *)
LEMMA Cases ==
  ASSUME Next
  PROVE  \E n \in Node :
           \/ \E k \in Kind : Cast(n, k)
           \/ \E s \in sends[n] : \/ SendSucceeds(n, s) \/ SendOrphaned(n, s)
                                  \/ SendRefused(n, s) \/ SendBreaks(n, s)
           \/ \E a \in timers[n] : AskTimer(n, a)
           \/ \E p \in Others(n) : \/ ReceiveRequest(n, p) \/ ReceiveResponse(n, p)
                                   \/ ReadFailure(n, p) \/ DeviceConnected(n, p)
           \/ \E t \in shown[n] : ResponseShown(n, t)
           \/ GameStopped(n) \/ Gone(n)
BY DEF Next, Play, Fault, SendStep, Receive

LEMMA NextType == TInv /\ [Next]_vars => TInv'
<1>1. SUFFICES ASSUME TInv, [Next]_vars PROVE TInv'
  OBVIOUS
<1>2. CASE UNCHANGED vars
  BY <1>1, <1>2 DEF vars, TInv, TypeOK, MessagesKnown, AllKnown, Known, AskKnown
<1>3. CASE Next
  <2>1. PICK n \in Node :
           \/ \E k \in Kind : Cast(n, k)
           \/ \E s \in sends[n] : \/ SendSucceeds(n, s) \/ SendOrphaned(n, s)
                                  \/ SendRefused(n, s) \/ SendBreaks(n, s)
           \/ \E a \in timers[n] : AskTimer(n, a)
           \/ \E p \in Others(n) : \/ ReceiveRequest(n, p) \/ ReceiveResponse(n, p)
                                   \/ ReadFailure(n, p) \/ DeviceConnected(n, p)
           \/ \E t \in shown[n] : ResponseShown(n, t)
           \/ GameStopped(n) \/ Gone(n)
    BY <1>3, Cases
  <2>2. Others(n) \subseteq Node
    BY DEF Others
  <2>3. QED
    BY <1>1, <2>1, <2>2, CastType, SendSucceedsType, SendOrphanedType, SendRefusedType,
       SendBreaksType, AskTimerType, ReceiveRequestType, ReceiveResponseType,
       ReadFailureType, ResponseShownType, GoneType, EventType
<1>4. QED
  BY <1>1, <1>2, <1>3

-----------------------------------------------------------------------------
(* The two memories of a request                                             *)

RetryInv ==
  \A n \in Node \ {Gen} :
    /\ awaiting[n] => pending[n] # NoRequest
    /\ pending[n] # NoRequest => awaiting[n] \/ n \in reported

LEMMA RetryReceives ==
  ASSUME TInv, RetryInv, NEW n \in Node, NEW p \in Node,
         ReceiveRequest(n, p) \/ ReceiveResponse(n, p) \/ DeviceConnected(n, p)
  PROVE  RetryInv'
<1>1. /\ pending \in [Node -> DOMAIN kind \cup {NoRequest}] /\ awaiting \in [Node -> BOOLEAN]
      /\ reported \subseteq Node
  BY TypeFacts DEF TInv
<1>2. CASE ReceiveRequest(n, p)
  <2>1. /\ pending' = pending /\ reported' = reported
        /\ awaiting' = [awaiting EXCEPT ![n] = @ /\ (p = Gen => pending[n] # NoRequest)]
    BY <1>2 DEF ReceiveRequest, ReceptionSuccess
  <2>2. /\ \A m \in Node \ {n} : awaiting'[m] = awaiting[m]
        /\ awaiting'[n] <=> (awaiting[n] /\ (p = Gen => pending[n] # NoRequest))
    BY <1>1, <2>1
  <2>3. QED
    BY <2>1, <2>2 DEF RetryInv
<1>3. CASE ReceiveResponse(n, p)
  <2>1. PICK left : /\ left = NoRequest \/ left = pending[n]
                    /\ pending' = [pending EXCEPT ![n] = left]
                    /\ ReceptionSuccess(n, p, left) /\ reported' = reported /\ p = Gen
    BY <1>3 DEF ReceiveResponse
  <2>2. /\ \A m \in Node \ {n} : awaiting'[m] = awaiting[m] /\ pending'[m] = pending[m]
        /\ pending'[n] = left
        /\ awaiting'[n] <=> (awaiting[n] /\ left # NoRequest)
    BY <1>1, <2>1 DEF ReceptionSuccess
  <2>3. QED
    BY <2>1, <2>2 DEF RetryInv
<1>4. CASE DeviceConnected(n, p)
  <2>1. /\ pending' = pending /\ reported' = reported \cup {n}
        /\ \A m \in Node \ {n} : awaiting'[m] = awaiting[m]
        /\ awaiting'[n] => awaiting[n]
    BY <1>1, <1>4 DEF DeviceConnected, ReceptionSuccess
  <2>2. QED
    BY <2>1 DEF RetryInv
<1>5. QED
  BY <1>2, <1>3, <1>4

LEMMA RetryStep == TInv /\ RetryInv /\ [Next]_vars => RetryInv'
<1>1. SUFFICES ASSUME TInv, RetryInv, [Next]_vars PROVE RetryInv'
  OBVIOUS
<1>2. CASE UNCHANGED <<pending, awaiting, reported>>
  BY <1>1, <1>2 DEF RetryInv
<1>3. /\ pending \in [Node -> DOMAIN kind \cup {NoRequest}] /\ awaiting \in [Node -> BOOLEAN]
      /\ Len(kind) \in Nat
  BY <1>1, TypeFacts DEF TInv
<1>4. ASSUME NEW n \in Node, NEW k \in Kind, Cast(n, k)
      PROVE  RetryInv'
  <2>1. PICK r : r = Len(kind) + 1
    OBVIOUS
  <2>2. r # NoRequest
    BY <1>3, <2>1, CountAssumption
  <2>3. CASE n = Gen
    BY <1>2, <1>4, <2>3 DEF Cast
  <2>4. CASE n # Gen
    <3>1. /\ pending' = [pending EXCEPT ![n] = r] /\ awaiting' = [awaiting EXCEPT ![n] = TRUE]
          /\ reported' = reported
      BY <1>4, <2>1, <2>4 DEF Cast
    <3>2. QED
      BY <1>1, <1>3, <2>2, <3>1 DEF RetryInv
  <2>5. QED
    BY <2>3, <2>4
<1>5. ASSUME NEW n \in Node, Gone(n)
      PROVE  RetryInv'
  <2>1. /\ pending' = [pending EXCEPT ![n] = NoRequest] /\ reported' = reported
        /\ awaiting' = [awaiting EXCEPT ![n] = FALSE]
    BY <1>5 DEF Gone
  <2>2. QED
    BY <1>1, <1>3, <2>1 DEF RetryInv
<1>6. CASE Next
  <2>1. PICK n \in Node :
           \/ \E k \in Kind : Cast(n, k)
           \/ \E s \in sends[n] : \/ SendSucceeds(n, s) \/ SendOrphaned(n, s)
                                  \/ SendRefused(n, s) \/ SendBreaks(n, s)
           \/ \E a \in timers[n] : AskTimer(n, a)
           \/ \E p \in Others(n) : \/ ReceiveRequest(n, p) \/ ReceiveResponse(n, p)
                                   \/ ReadFailure(n, p) \/ DeviceConnected(n, p)
           \/ \E t \in shown[n] : ResponseShown(n, t)
           \/ GameStopped(n) \/ Gone(n)
    BY <1>6, Cases
  <2>2. \/ \E k \in Kind : Cast(n, k)
        \/ \E p \in Node : \/ ReceiveRequest(n, p) \/ ReceiveResponse(n, p)
                           \/ DeviceConnected(n, p)
        \/ Gone(n)
        \/ UNCHANGED <<pending, awaiting, reported>>
    BY <2>1 DEF Others, SendSucceeds, SendOrphaned, SendRefused, SendBreaks, AskTimer,
       ReadFailure, ResponseShown, GameStopped
  <2>3. QED
    BY <1>1, <1>2, <1>4, <1>5, <2>2, RetryReceives
<1>7. QED
  BY <1>1, <1>2, <1>6 DEF vars

-----------------------------------------------------------------------------
(* Every throw is accounted for                                              *)

(* Where the response of throw t for phone n is. *)
Accounted(t, n) ==
  LET response == Response(thrown[t], t)
  IN \/ t \in shown[n]
     \/ \E k \in DOMAIN wire[Gen][n] : wire[Gen][n][k] = response
     \/ \E s \in sends[Gen] : s.to = n /\ s.message = response
     \/ \E k \in DOMAIN queued[Gen][n] : queued[Gen][n][k] = response
     \/ [to |-> n, message |-> response] \in dropped

Concerned(t, n) == kind[thrown[t]] \in Sendable /\ Alive(Gen) /\ Alive(n)

AccountInv ==
  \A t \in DOMAIN thrown, n \in Node \ {Gen} : Concerned(t, n) => Accounted(t, n)

(* The step leaves all these places alone, or adds to them. *)
Unmoved(t, n) ==
  /\ shown[n] \subseteq shown'[n] /\ sends[Gen] \subseteq sends'[Gen]
  /\ wire'[Gen][n] = wire[Gen][n] /\ queued'[Gen][n] = queued[Gen][n]
  /\ dropped \subseteq dropped' /\ thrown'[t] = thrown[t]

LEMMA AccountUnmoved ==
  ASSUME NEW t, NEW n, Accounted(t, n), Unmoved(t, n)
  PROVE  Accounted(t, n)'
BY DEF Accounted, Unmoved

(* Java answers a SendMessage of the generator. *)
LEMMA AccountSends ==
  ASSUME TInv, NEW t \in DOMAIN thrown, NEW n \in Node \ {Gen}, Accounted(t, n), Alive(n),
         NEW s \in sends[Gen], SendSucceeds(Gen, s) \/ SendRefused(Gen, s) \/ SendBreaks(Gen, s)
  PROVE  Accounted(t, n)'
<1> DEFINE response == Response(thrown[t], t)
           q == queued[Gen][n]
           w == wire[Gen][n]
           next == NewSend(n, Last(q), s.ask)
<1>1. /\ sends \in [Node -> SUBSET Sending] /\ queued \in [Node -> [Node -> Seq(Message)]]
      /\ wire \in [Node -> [Node -> Seq(Message)]]
      /\ Gen \in Node /\ q \in Seq(Message) /\ w \in Seq(Message)
      /\ s.to \in Node /\ s.message \in Message /\ s.ask \in Ask /\ s \in Sending
      /\ s.left \in 1 .. RETRY_COUNT
  BY TypeFacts, Fields, PlayersAssumption DEF TInv
<1>2. thrown' = thrown /\ shown' = shown /\ dropped \subseteq dropped'
  BY DEF SendSucceeds, SendRefused, SendBreaks
<1>3. \A u \in sends[Gen] : u \in sends'[Gen] \/ u = s
  BY <1>1 DEF SendSucceeds, SendRefused, SendBreaks, EndSend, ContinueSend
<1>4. CASE s.to # n
  <2>1. wire'[Gen][n] = wire[Gen][n] /\ queued'[Gen][n] = queued[Gen][n]
    <3>1. CASE SendSucceeds(Gen, s)
      <4>1. /\ \E x : wire' = wire \/ wire' = [wire EXCEPT ![Gen][s.to] = x]
            /\ \E x : queued' = queued \/ queued' = [queued EXCEPT ![Gen][s.to] = x]
        BY <3>1 DEF SendSucceeds, Deliver
      <4>2. wire'[Gen][n] = wire[Gen][n]
        <5>1. PICK x : wire' = wire \/ wire' = [wire EXCEPT ![Gen][s.to] = x]
          BY <4>1
        <5>2. CASE wire' = wire
          BY <5>2
        <5>3. CASE wire' = [wire EXCEPT ![Gen][s.to] = x]
          BY <1>1, <1>4, <5>3
        <5>4. QED
          BY <5>1, <5>2, <5>3
      <4>3. queued'[Gen][n] = queued[Gen][n]
        <5>1. PICK x : queued' = queued \/ queued' = [queued EXCEPT ![Gen][s.to] = x]
          BY <4>1
        <5>2. CASE queued' = queued
          BY <5>2
        <5>3. CASE queued' = [queued EXCEPT ![Gen][s.to] = x]
          BY <1>1, <1>4, <5>3
        <5>4. QED
          BY <5>1, <5>2, <5>3
      <4>4. QED
        BY <4>2, <4>3
    <3>2. CASE SendRefused(Gen, s)
      BY <3>2 DEF SendRefused
    <3>3. CASE SendBreaks(Gen, s)
      <4>1. wire' = wire /\ queued' = [queued EXCEPT ![Gen][s.to] = Append(@, s.message)]
        BY <3>3 DEF SendBreaks
      <4>2. QED
        BY <1>1, <1>4, <4>1
    <3>4. QED
      BY <3>1, <3>2, <3>3
  <2>2. QED
    BY <1>2, <1>3, <1>4, <2>1 DEF Accounted
<1>5. CASE s.to = n /\ SendSucceeds(Gen, s)
  <2>1. wire'[Gen][n] = Append(w, s.message)
    BY <1>1, <1>5 DEF SendSucceeds, Deliver
  <2>2. /\ Len(w) + 1 \in DOMAIN wire'[Gen][n] /\ wire'[Gen][n][Len(w) + 1] = s.message
        /\ \A k \in DOMAIN w : k \in DOMAIN wire'[Gen][n] /\ wire'[Gen][n][k] = w[k]
    <3>0. w \in Seq(Message) /\ s.message \in Message
      BY <1>1
    <3> HIDE DEF w
    <3>1. /\ DOMAIN w = 1 .. Len(w) /\ DOMAIN Append(w, s.message) = 1 .. Len(w) + 1
          /\ Len(w) \in Nat /\ Append(w, s.message)[Len(w) + 1] = s.message
          /\ \A k \in DOMAIN w : Append(w, s.message)[k] = w[k]
      BY <3>0, Appended
    <3>2. QED
      BY <2>1, <3>1
  <2>3. ASSUME NEW k \in DOMAIN q, q[k] = response
        PROVE  Accounted(t, n)'
    <3>1. CASE queued' = queued
      BY <1>2, <2>3, <3>1 DEF Accounted
    <3>2. CASE q # <<>> /\ queued'[Gen][n] = Front(q) /\ next \in sends'[Gen]
      <4>1. /\ Last(q) \in Message /\ q[Len(q)] = Last(q)
            /\ DOMAIN q = 1 .. Len(q) /\ DOMAIN Front(q) = 1 .. Len(q) - 1
            /\ Len(q) \in Nat \ {0}
            /\ \A j \in DOMAIN Front(q) : Front(q)[j] = q[j]
        BY <1>1, <3>2, Fronted
      <4>2. CASE k = Len(q)
        <5>1. n \in Node /\ s.ask \in Ask /\ Last(q) \in Message /\ Last(q) = response
          BY <1>1, <2>3, <4>1, <4>2
        <5> HIDE DEF q, response
        <5>a. next.to = n /\ next.message = response
          BY <5>1, Values
        <5> HIDE DEF next
        <5>2. QED
          BY <1>2, <3>2, <5>a DEF Accounted, response
      <4>3. CASE k # Len(q)
        <5>1. k \in DOMAIN Front(q)
          BY <2>3, <4>1, <4>3
        <5>2. k \in DOMAIN queued'[Gen][n] /\ queued'[Gen][n][k] = response
          BY <2>3, <3>2, <4>1, <5>1
        <5>3. QED
          BY <1>2, <5>2 DEF Accounted
      <4>4. QED
        BY <4>2, <4>3
    <3>3. QED
      BY <1>1, <1>5, <3>1, <3>2 DEF SendSucceeds, ContinueSend
  <2>4. QED
    BY <1>2, <1>3, <1>5, <2>2, <2>3 DEF Accounted
<1>6. CASE s.to = n /\ SendRefused(Gen, s)
  <2>1. wire' = wire /\ queued' = queued
    BY <1>6 DEF SendRefused
  <2>2. CASE dropped' = dropped \cup {[to |-> s.to, message |-> s.message]}
    BY <1>2, <1>3, <1>6, <2>1, <2>2 DEF Accounted
  <2>3. CASE s.left > 1 /\ ContinueSend(Gen, s, [s EXCEPT !.left = @ - 1])
    <3> DEFINE again == [s EXCEPT !.left = @ - 1]
    <3>1. again.to = n /\ again.message = s.message
      BY <1>1, <1>6 DEF Sending
    <3> HIDE DEF again
    <3>2. again \in sends'[Gen]
      BY <1>1, <2>3 DEF ContinueSend, again
    <3>3. QED
      BY <1>2, <1>3, <2>1, <3>1, <3>2 DEF Accounted
  <2>4. QED
    BY <1>6, <2>2, <2>3 DEF SendRefused
<1>7. CASE s.to = n /\ SendBreaks(Gen, s)
  <2>1. wire' = wire /\ queued'[Gen][n] = Append(q, s.message)
    BY <1>1, <1>7 DEF SendBreaks
  <2>2. /\ Len(q) + 1 \in DOMAIN queued'[Gen][n] /\ queued'[Gen][n][Len(q) + 1] = s.message
        /\ \A k \in DOMAIN q : k \in DOMAIN queued'[Gen][n] /\ queued'[Gen][n][k] = q[k]
    <3>0. q \in Seq(Message) /\ s.message \in Message
      BY <1>1
    <3> HIDE DEF q
    <3>1. /\ DOMAIN q = 1 .. Len(q) /\ DOMAIN Append(q, s.message) = 1 .. Len(q) + 1
          /\ Len(q) \in Nat /\ Append(q, s.message)[Len(q) + 1] = s.message
          /\ \A k \in DOMAIN q : Append(q, s.message)[k] = q[k]
      BY <3>0, Appended
    <3>2. QED
      BY <2>1, <3>1
  <2>3. QED
    BY <1>2, <1>3, <1>7, <2>1, <2>2 DEF Accounted
<1>8. QED
  BY <1>4, <1>5, <1>6, <1>7

(* Phone n hears from the generator, or loses what was on its way from there. *)
LEMMA AccountHears ==
  ASSUME TInv, NEW t \in DOMAIN thrown, NEW n \in Node \ {Gen}, Accounted(t, n),
         ReceiveRequest(n, Gen) \/ ReceiveResponse(n, Gen) \/ ReadFailure(n, Gen)
  PROVE  Accounted(t, n)'
<1> DEFINE response == Response(thrown[t], t)
           w == wire[Gen][n]
<1>1. /\ wire \in [Node -> [Node -> Seq(Message)]] /\ w \in Seq(Message)
      /\ shown \in [Node -> SUBSET DOMAIN thrown] /\ Gen \in Node
      /\ thrown[t] \in Nat /\ t \in Nat
  <2>1. /\ wire \in [Node -> [Node -> Seq(Message)]]
        /\ shown \in [Node -> SUBSET DOMAIN thrown] /\ Gen \in Node
    BY TypeFacts, PlayersAssumption DEF TInv
  <2>2. /\ thrown \in Seq(DOMAIN kind) /\ DOMAIN kind = 1 .. Len(kind)
        /\ DOMAIN thrown = 1 .. Len(thrown)
    BY TypeFacts DEF TInv
  <2>3. thrown[t] \in Nat /\ t \in Nat
    BY <2>2
  <2>4. QED
    BY <2>1, <2>3
<1>2. /\ thrown' = thrown /\ sends' = sends /\ queued' = queued
      /\ shown[n] \subseteq shown'[n] /\ dropped \subseteq dropped'
  BY <1>1 DEF ReceiveRequest, ReceiveResponse, ReadFailure
<1>3. response.type = "response" /\ response.serial = t
  BY <1>1, Values
<1>4. ASSUME NEW k \in DOMAIN w, w[k] = response
      PROVE  Accounted(t, n)'
  <2>1. CASE ReadFailure(n, Gen)
    <3>1. [to |-> n, message |-> response] \in dropped'
      BY <1>4, <2>1 DEF ReadFailure
    <3>2. QED
      BY <1>2, <3>1 DEF Accounted
  <2>2. CASE ReceiveRequest(n, Gen) \/ ReceiveResponse(n, Gen)
    <3>1. wire'[Gen][n] = Tail(w) /\ w # <<>>
      <4>1. wire' = [wire EXCEPT ![Gen][n] = Tail(@)] /\ wire[Gen][n] # <<>>
        BY <2>2 DEF ReceiveRequest, ReceiveResponse, Consume
      <4>2. QED
        BY <1>1, <4>1
    <3>0. w \in Seq(Message)
      BY <1>1
    <3> HIDE DEF w
    <3>2. /\ w[1] = Head(w) /\ DOMAIN w = 1 .. Len(w) /\ DOMAIN Tail(w) = 1 .. Len(w) - 1
          /\ Len(w) \in Nat /\ \A j \in DOMAIN Tail(w) : Tail(w)[j] = w[j + 1]
      BY <3>1, <3>0, Headed
    <3>3. CASE k = 1
      <4>1. Head(w) = response
        BY <1>4, <3>2, <3>3
      <4>2. ~ReceiveRequest(n, Gen)
        BY <1>3, <4>1 DEF ReceiveRequest, w
      <4>3. shown' = [shown EXCEPT ![n] = @ \cup {response.serial}]
        BY <2>2, <4>1, <4>2 DEF ReceiveResponse, w
      <4>4. t \in shown'[n]
        BY <1>1, <1>3, <4>3
      <4>5. QED
        BY <4>4 DEF Accounted
    <3>4. CASE k # 1
      <4>1. k - 1 \in DOMAIN Tail(w) /\ Tail(w)[k - 1] = w[k]
        BY <1>4, <3>2, <3>4
      <4>2. k - 1 \in DOMAIN wire'[Gen][n] /\ wire'[Gen][n][k - 1] = response
        BY <1>4, <3>1, <4>1
      <4>3. QED
        BY <1>2, <4>2 DEF Accounted
    <3>5. QED
      BY <3>3, <3>4
  <2>3. QED
    BY <2>1, <2>2
<1>5. QED
  BY <1>2, <1>4 DEF Accounted

(* The sends and throws of a step only add to what the generator sends. *)
LEMMA ThrowAdds ==
  ASSUME TInv, NEW n \in Node, NEW k, NEW r, NEW requests, Throw(n, k, r, requests)
  PROVE  /\ \A m \in Node : sends[m] \subseteq sends'[m] /\ shown[m] \subseteq shown'[m]
         /\ thrown' = Append(thrown, r) /\ \A t \in DOMAIN thrown : thrown'[t] = thrown[t]
<1>1. /\ sends \in [Node -> SUBSET Sending] /\ shown \in [Node -> SUBSET DOMAIN thrown]
      /\ thrown \in Seq(DOMAIN kind)
  BY TypeFacts DEF TInv
<1>2. sends' = [sends EXCEPT ![n] = @ \cup requests \cup Responses(n, k, r, Len(thrown) + 1)]
      /\ shown' = [shown EXCEPT ![n] = IF k \in Showable THEN @ \cup {Len(thrown) + 1} ELSE @]
      /\ thrown' = Append(thrown, r)
  BY DEF Throw
<1>3. \A t \in DOMAIN thrown : thrown'[t] = thrown[t]
  BY <1>1, <1>2
<1>4. QED
  BY <1>1, <1>2, <1>3

(* A throw of the generator goes out to everybody. *)
LEMMA AccountNew ==
  ASSUME TInv, NEW r \in DOMAIN kind', NEW requests, Throw(Gen, kind'[r], r, requests),
         NEW n \in Node \ {Gen}, kind'[r] \in Sendable, NEW t, t = Len(thrown) + 1
  PROVE  Accounted(t, n)'
<1> DEFINE send == NewSend(n, Response(r, t), NoAsk)
<1>1. /\ sends \in [Node -> SUBSET Sending] /\ thrown \in Seq(DOMAIN kind) /\ t \in Nat
      /\ Gen \in Node
  BY TypeFacts, PlayersAssumption DEF TInv
<1>2. thrown'[t] = r
  <2>1. thrown' = Append(thrown, r)
    BY DEF Throw
  <2>2. QED
    BY <1>1, <2>1
<1>3. send \in sends'[Gen]
  <2>1. send \in Responses(Gen, kind'[r], r, t)
    BY DEF Responses, Others
  <2>2. sends' = [sends EXCEPT ![Gen] = @ \cup requests \cup Responses(Gen, kind'[r], r, t)]
    BY DEF Throw
  <2> HIDE DEF send
  <2>3. QED
    BY <1>1, <2>1, <2>2
<1>4. send.to = n /\ send.message = Response(r, t)
  BY DEF NewSend
<1> HIDE DEF send
<1>5. QED
  BY <1>2, <1>3, <1>4 DEF Accounted

(* The object of a state that is gone does not come back. *)
LEMMA AliveBefore ==
  ASSUME TypeOK, Next, NEW m \in Node, Alive(m)'
  PROVE  Alive(m)
<1>1. stage \in [Node -> Stage]
  BY TypeFacts
<1>2. PICK n \in Node :
        \/ Alive(n) /\ (UNCHANGED stage \/ Leaving(n))
        \/ stage[n] = "playing" /\ Leaving(n)
        \/ UNCHANGED stage
        \/ stage' = [stage EXCEPT ![n] = "gone"]
  <2>1. PICK n \in Node :
           \/ \E k \in Kind : Cast(n, k)
           \/ \E s \in sends[n] : \/ SendSucceeds(n, s) \/ SendOrphaned(n, s)
                                  \/ SendRefused(n, s) \/ SendBreaks(n, s)
           \/ \E a \in timers[n] : AskTimer(n, a)
           \/ \E p \in Others(n) : \/ ReceiveRequest(n, p) \/ ReceiveResponse(n, p)
                                   \/ ReadFailure(n, p) \/ DeviceConnected(n, p)
           \/ \E t \in shown[n] : ResponseShown(n, t)
           \/ GameStopped(n) \/ Gone(n)
    BY Cases
  <2>2. CASE \/ \E s \in sends[n] : SendBreaks(n, s)
             \/ \E a \in timers[n] : AskTimer(n, a)
             \/ \E p \in Others(n) : ReadFailure(n, p)
             \/ \E t \in shown[n] : ResponseShown(n, t)
    BY <2>2 DEF SendBreaks, AskTimer, ReadFailure, ResponseShown
  <2>3. CASE GameStopped(n) \/ Gone(n)
    BY <2>3 DEF GameStopped, Gone
  <2>4. CASE \/ \E k \in Kind : Cast(n, k)
             \/ \E s \in sends[n] : \/ SendSucceeds(n, s) \/ SendOrphaned(n, s)
                                    \/ SendRefused(n, s)
             \/ \E p \in Others(n) : \/ ReceiveRequest(n, p) \/ ReceiveResponse(n, p)
                                     \/ DeviceConnected(n, p)
    <3>1. UNCHANGED stage
      BY <2>4 DEF Cast, SendSucceeds, SendOrphaned, SendRefused, ReceiveRequest,
                  ReceiveResponse, DeviceConnected
    <3>2. QED
      BY <3>1
  <2>5. QED
    BY <2>1, <2>2, <2>3, <2>4
<1>3. Leaving(n) => stage'[n] = "leaving" /\ \A q \in Node \ {n} : stage'[q] = stage[q]
  BY <1>1 DEF Leaving
<1>4. QED
  BY <1>1, <1>2, <1>3 DEF Alive

(* What is left where it is by the actions of another phone m. *)
LEMMA AccountOthers ==
  ASSUME TInv, NEW t \in DOMAIN thrown, NEW n \in Node \ {Gen}, Accounted(t, n),
         NEW m \in Node,
         \/ \E k \in Kind : Cast(m, k)
         \/ m # Gen /\ \E s \in sends[m] : \/ SendSucceeds(m, s) \/ SendRefused(m, s)
                                           \/ SendBreaks(m, s)
         \/ m # Gen /\ \E s \in sends[m] : SendOrphaned(m, s)
         \/ \E a \in timers[m] : AskTimer(m, a)
         \/ \E p \in Others(m) : /\ m # n \/ p # Gen
                                 /\ \/ ReceiveRequest(m, p) \/ ReceiveResponse(m, p)
                                    \/ ReadFailure(m, p)
         \/ \E p \in Others(m) : DeviceConnected(m, p)
         \/ \E u \in shown[m] : ResponseShown(m, u)
         \/ GameStopped(m)
         \/ m \notin {n, Gen} /\ Gone(m)
  PROVE  Accounted(t, n)'
<1>1. /\ sends \in [Node -> SUBSET Sending] /\ queued \in [Node -> [Node -> Seq(Message)]]
      /\ wire \in [Node -> [Node -> Seq(Message)]] /\ Gen \in Node
      /\ shown \in [Node -> SUBSET DOMAIN thrown]
  BY TypeFacts, PlayersAssumption DEF TInv
<1>2. CASE \E k \in Kind : Cast(m, k)
  <2>1. /\ sends[Gen] \subseteq sends'[Gen] /\ shown[n] \subseteq shown'[n]
        /\ thrown'[t] = thrown[t]
    <3>1. CASE m = Gen
      <4>1. PICK k, r, requests : Throw(m, k, r, requests)
        BY <1>2, <3>1 DEF Cast
      <4>2. QED
        BY <1>1, <4>1, ThrowAdds
    <3>2. CASE m # Gen
      BY <1>1, <1>2, <3>2 DEF Cast
    <3>3. QED
      BY <3>1, <3>2
  <2>2. QED
    BY <1>2, <2>1, AccountUnmoved DEF Cast, Unmoved
<1>3. CASE m # Gen /\ \E s \in sends[m] : \/ SendSucceeds(m, s) \/ SendRefused(m, s)
                                          \/ SendBreaks(m, s) \/ SendOrphaned(m, s)
  <2>1. /\ UNCHANGED <<thrown, shown>> /\ dropped \subseteq dropped'
        /\ sends'[Gen] = sends[Gen]
        /\ wire'[Gen] = wire[Gen] /\ queued'[Gen] = queued[Gen]
    BY <1>1, <1>3 DEF SendSucceeds, SendRefused, SendBreaks, SendOrphaned, EndSend,
                      ContinueSend, Deliver
  <2>2. QED
    BY <2>1, AccountUnmoved DEF Unmoved
<1>4. CASE \E a \in timers[m] : AskTimer(m, a)
  <2>1. /\ UNCHANGED <<thrown, shown, dropped, wire, queued>> /\ sends[Gen] \subseteq sends'[Gen]
    BY <1>1, <1>4 DEF AskTimer
  <2>2. QED
    BY <2>1, AccountUnmoved DEF Unmoved
<1>5. ASSUME NEW p \in Others(m), m # n \/ p # Gen,
             ReceiveRequest(m, p) \/ ReceiveResponse(m, p) \/ ReadFailure(m, p)
      PROVE  Accounted(t, n)'
  <2>1. queued' = queued /\ dropped \subseteq dropped'
    BY <1>5 DEF ReceiveRequest, ReceiveResponse, ReadFailure
  <2>2. wire'[Gen][n] = wire[Gen][n]
    <3>1. PICK x : wire' = [wire EXCEPT ![p][m] = x]
      BY <1>5 DEF ReceiveRequest, ReceiveResponse, ReadFailure, Consume
    <3>2. QED
      BY <1>1, <1>5, <3>1 DEF Others
  <2>3. /\ sends[Gen] \subseteq sends'[Gen] /\ shown[n] \subseteq shown'[n]
        /\ thrown'[t] = thrown[t]
    <3>1. CASE ReceiveRequest(m, p) /\ m = Gen
      <4>1. PICK k, r, requests : Throw(m, k, r, requests)
        BY <3>1 DEF ReceiveRequest
      <4>2. QED
        BY <1>1, <4>1, ThrowAdds
    <3>2. CASE ~(ReceiveRequest(m, p) /\ m = Gen)
      BY <1>1, <1>5, <3>2 DEF ReceiveRequest, ReceiveResponse, ReadFailure
    <3>3. QED
      BY <3>1, <3>2
  <2>4. QED
    BY <2>1, <2>2, <2>3, AccountUnmoved DEF Unmoved
<1>6. CASE \/ \E p \in Others(m) : DeviceConnected(m, p)
           \/ \E u \in shown[m] : ResponseShown(m, u)
           \/ GameStopped(m)
  BY <1>6, AccountUnmoved DEF Unmoved, DeviceConnected, ResponseShown, GameStopped
<1>7. CASE m \notin {n, Gen} /\ Gone(m)
  <2>1. /\ UNCHANGED <<thrown, sends, dropped>>
        /\ shown' = [shown EXCEPT ![m] = {}]
        /\ queued' = [queued EXCEPT ![m] = [p \in Node |-> <<>>]]
        /\ wire' = [p \in Node |-> [wire[p] EXCEPT ![m] = <<>>]]
    BY <1>7 DEF Gone
  <2>2. shown'[n] = shown[n] /\ queued'[Gen][n] = queued[Gen][n] /\ wire'[Gen][n] = wire[Gen][n]
    BY <1>1, <1>7, <2>1
  <2>3. QED
    BY <2>1, <2>2, AccountUnmoved DEF Unmoved
<1>8. QED
  BY <1>2, <1>3, <1>4, <1>5, <1>6, <1>7

LEMMA AccountStep == TInv /\ AccountInv /\ [Next]_vars => AccountInv'
<1>1. SUFFICES ASSUME TInv, AccountInv, [Next]_vars PROVE AccountInv'
  OBVIOUS
<1>2. CASE UNCHANGED vars
  BY <1>1, <1>2 DEF vars, AccountInv, Concerned, Accounted, Alive
<1>3. CASE Next
  <2>1. SUFFICES ASSUME NEW t \in DOMAIN thrown', NEW n \in Node \ {Gen}, Concerned(t, n)'
                 PROVE  Accounted(t, n)'
    BY DEF AccountInv
  <2>2. PICK m \in Node :
           \/ \E k \in Kind : Cast(m, k)
           \/ \E s \in sends[m] : \/ SendSucceeds(m, s) \/ SendOrphaned(m, s)
                                  \/ SendRefused(m, s) \/ SendBreaks(m, s)
           \/ \E a \in timers[m] : AskTimer(m, a)
           \/ \E p \in Others(m) : \/ ReceiveRequest(m, p) \/ ReceiveResponse(m, p)
                                   \/ ReadFailure(m, p) \/ DeviceConnected(m, p)
           \/ \E u \in shown[m] : ResponseShown(m, u)
           \/ GameStopped(m) \/ Gone(m)
    BY <1>3, Cases
  <2>3. Alive(Gen) /\ Alive(n) /\ Alive(Gen)' /\ Alive(n)' /\ Gen \in Node
    BY <1>1, <1>3, <2>1, AliveBefore, PlayersAssumption DEF Concerned, TInv
  <2>4. /\ thrown \in Seq(DOMAIN kind) /\ kind \in Seq(Kind)
        /\ Len(thrown) \in Nat /\ DOMAIN thrown = 1 .. Len(thrown)
    BY <1>1, TypeFacts DEF TInv
  <2>5. /\ \A r \in DOMAIN kind : kind'[r] = kind[r]
        /\ \A u \in DOMAIN thrown : thrown'[u] = thrown[u]
        /\ \/ thrown' = thrown
           \/ /\ thrown' \in Seq(DOMAIN kind')
              /\ \E r \in DOMAIN kind' : \E requests :
                   Throw(Gen, kind'[r], r, requests) /\ thrown' = Append(thrown, r)
    <3>1. CASE \E k \in Kind : Cast(m, k)
      <4>1. PICK k \in Kind : Cast(m, k)
        BY <3>1
      <4>2. kind' = Append(kind, k)
        BY <4>1 DEF Cast
      <4>3. PICK r : r = Len(kind) + 1
        OBVIOUS
      <4>4. r \in DOMAIN kind' /\ kind'[r] = k /\ \A i \in DOMAIN kind : kind'[i] = kind[i]
        BY <2>4, <4>2, <4>3
      <4>5. CASE m # Gen
        BY <4>1, <4>4, <4>5 DEF Cast
      <4>6. CASE m = Gen
        <5>1. PICK requests : Throw(Gen, k, r, requests)
          BY <4>1, <4>3, <4>6 DEF Cast
        <5>2. thrown' = Append(thrown, r) /\ \A u \in DOMAIN thrown : thrown'[u] = thrown[u]
          BY <1>1, <2>3, <5>1, ThrowAdds
        <5>3. TInv'
          BY <1>1, NextType
        <5>4. QED
          BY <4>4, <5>1, <5>2, <5>3, TypeFacts DEF TInv, TypeOK
      <4>7. QED
        BY <4>5, <4>6
    <3>2. CASE \E p \in Others(m) : ReceiveRequest(m, p) /\ m = Gen
      <4>1. PICK p \in Node : ReceiveRequest(Gen, p)
        BY <3>2 DEF Others
      <4>2. PICK r : r = Head(wire[p][Gen]).of
        OBVIOUS
      <4>3. kind' = kind /\ Throw(Gen, kind[r], r, {})
        BY <4>1, <4>2 DEF ReceiveRequest
      <4>4. r \in DOMAIN kind
        BY <1>1, <2>3, <4>1, <4>2, ConsumeType DEF ReceiveRequest, Known
      <4>5. thrown' = Append(thrown, r) /\ \A u \in DOMAIN thrown : thrown'[u] = thrown[u]
        BY <1>1, <2>3, <4>3, ThrowAdds
      <4>6. TInv'
        BY <1>1, NextType
      <4>7. QED
        BY <4>3, <4>4, <4>5, <4>6 DEF TInv, TypeOK
    <3>3. CASE UNCHANGED <<kind, thrown>>
      BY <3>3
    <3>4. QED
      BY <2>2, <3>1, <3>2, <3>3 DEF SendSucceeds, SendOrphaned, SendRefused, SendBreaks, AskTimer,
         ReceiveRequest, ReceiveResponse, ReadFailure, DeviceConnected, ResponseShown,
         GameStopped, Gone
  <2>6. CASE t \in DOMAIN thrown
    <3>1. thrown[t] \in DOMAIN kind
      BY <2>4, <2>6
    <3>2. Concerned(t, n)
      BY <2>1, <2>3, <2>5, <2>6, <3>1 DEF Concerned
    <3>3. Accounted(t, n)
      BY <1>1, <2>6, <3>2 DEF AccountInv
    <3>4. (m # n /\ m # Gen) \/ ~Gone(m)
      BY <1>1, <2>3, TypeFacts DEF Gone, Alive, TInv
    <3>5. m = Gen => \A s \in sends[m] : ~SendOrphaned(m, s)
      BY <2>3 DEF SendOrphaned, Alive
    <3>6. QED
      BY <1>1, <2>2, <2>3, <2>6, <3>3, <3>4, <3>5, AccountOthers, AccountSends, AccountHears
  <2>7. CASE t \notin DOMAIN thrown
    <3>1. PICK r \in DOMAIN kind' :
            \E requests : Throw(Gen, kind'[r], r, requests) /\ thrown' = Append(thrown, r)
      BY <2>1, <2>5, <2>7
    <3>2. PICK requests : Throw(Gen, kind'[r], r, requests) /\ thrown' = Append(thrown, r)
      BY <3>1
    <3>3. t = Len(thrown) + 1 /\ thrown'[t] = r
      BY <2>1, <2>4, <2>7, <3>2
    <3>4. kind'[r] \in Sendable
      BY <2>1, <3>3 DEF Concerned
    <3>5. QED
      BY <1>1, <3>2, <3>3, <3>4, AccountNew
  <2>8. QED
    BY <2>6, <2>7
<1>4. QED
  BY <1>1, <1>2, <1>3

-----------------------------------------------------------------------------
(* How often a request can reach the generator                               *)

(* A message about request r, in its i-th last attempt, is in a queue (once). *)
Has(q, r, i) == \E k \in DOMAIN q : q[k].of = r /\ q[k].serial = i
Once(q, r) ==
  \A j, k \in DOMAIN q :
    q[j].of = r /\ q[k].of = r /\ q[j].serial = q[k].serial => j = k

LEMMA HasAppended ==
  ASSUME NEW q \in Seq(Message), NEW m \in Message, NEW r
  PROVE  /\ \A i : Has(Append(q, m), r, i) <=> Has(q, r, i) \/ (m.of = r /\ m.serial = i)
         /\ Once(q, r) /\ (m.of = r => ~Has(q, r, m.serial)) => Once(Append(q, m), r)
<1> DEFINE a == Append(q, m)
<1>1. /\ DOMAIN q = 1 .. Len(q) /\ DOMAIN a = 1 .. Len(q) + 1 /\ Len(q) \in Nat
      /\ a[Len(q) + 1] = m /\ \A k \in DOMAIN q : a[k] = q[k]
  BY Appended
<1> HIDE DEF a
<1>2. \A k \in DOMAIN a : k \in DOMAIN q \/ k = Len(q) + 1
  BY <1>1
<1>3. \A k \in DOMAIN q : k \in DOMAIN a
  BY <1>1
<1>4. Len(q) + 1 \in DOMAIN a
  BY <1>1
<1>5. \A i : Has(a, r, i) <=> Has(q, r, i) \/ (m.of = r /\ m.serial = i)
  BY <1>1, <1>2, <1>3, <1>4 DEF Has
<1>6. ASSUME Once(q, r), m.of = r => ~Has(q, r, m.serial)
      PROVE  Once(a, r)
  BY <1>1, <1>2, <1>6 DEF Once, Has
<1>7. QED
  BY <1>5, <1>6 DEF a

LEMMA HasTail ==
  ASSUME NEW q \in Seq(Message), q # <<>>, NEW r
  PROVE  /\ \A i : Has(Tail(q), r, i) => Has(q, r, i)
         /\ Head(q).of = r => Has(q, r, Head(q).serial)
         /\ Once(q, r) => /\ Once(Tail(q), r)
                          /\ Head(q).of = r => ~Has(Tail(q), r, Head(q).serial)
<1> DEFINE a == Tail(q)
<1>1. /\ 1 \in DOMAIN q /\ q[1] = Head(q)
      /\ DOMAIN q = 1 .. Len(q) /\ DOMAIN a = 1 .. Len(q) - 1 /\ Len(q) \in Nat
      /\ \A k \in DOMAIN a : k + 1 \in DOMAIN q /\ a[k] = q[k + 1]
  BY Headed
<1> HIDE DEF a
<1>2. \A k \in DOMAIN a : k \in Nat /\ k + 1 # 1
  BY <1>1
<1>3. \A j, k \in DOMAIN a : j + 1 = k + 1 => j = k
  BY <1>1
<1>4. \A i : Has(a, r, i) => Has(q, r, i)
  BY <1>1 DEF Has
<1>5. Head(q).of = r => Has(q, r, Head(q).serial)
  BY <1>1 DEF Has
<1>6. ASSUME Once(q, r)
      PROVE  Once(a, r)
  <2>1. SUFFICES ASSUME NEW j \in DOMAIN a, NEW k \in DOMAIN a, a[j].of = r, a[k].of = r,
                        a[j].serial = a[k].serial
                 PROVE  j = k
    BY DEF Once
  <2>2. j + 1 = k + 1
    BY <1>1, <1>6, <2>1 DEF Once
  <2>3. QED
    BY <1>3, <2>2
<1>7. ASSUME Once(q, r), Head(q).of = r, Has(a, r, Head(q).serial)
      PROVE  FALSE
  <2>1. PICK k \in DOMAIN a : a[k].of = r /\ a[k].serial = Head(q).serial
    BY <1>7 DEF Has
  <2>2. k + 1 = 1
    BY <1>1, <1>7, <2>1 DEF Once
  <2>3. QED
    BY <1>2, <2>2
<1>8. QED
  BY <1>4, <1>5, <1>6, <1>7 DEF a

LEMMA HasFront ==
  ASSUME NEW q \in Seq(Message), q # <<>>, NEW r
  PROVE  /\ \A i : Has(Front(q), r, i) => Has(q, r, i)
         /\ Last(q).of = r => Has(q, r, Last(q).serial)
         /\ Once(q, r) => /\ Once(Front(q), r)
                          /\ Last(q).of = r => ~Has(Front(q), r, Last(q).serial)
<1> DEFINE a == Front(q)
<1>1. /\ Len(q) \in DOMAIN q /\ q[Len(q)] = Last(q)
      /\ DOMAIN q = 1 .. Len(q) /\ DOMAIN a = 1 .. Len(q) - 1 /\ Len(q) \in Nat
      /\ \A k \in DOMAIN a : k \in DOMAIN q /\ a[k] = q[k]
  BY Fronted
<1> HIDE DEF a
<1>2. \A k \in DOMAIN a : k # Len(q)
  BY <1>1
<1>3. \A i : Has(a, r, i) => Has(q, r, i)
  BY <1>1 DEF Has
<1>4. Last(q).of = r => Has(q, r, Last(q).serial)
  BY <1>1 DEF Has
<1>5. Once(q, r) => Once(a, r)
  BY <1>1 DEF Once
<1>6. ASSUME Once(q, r), Last(q).of = r, Has(a, r, Last(q).serial)
      PROVE  FALSE
  <2>1. PICK k \in DOMAIN a : a[k].of = r /\ a[k].serial = Last(q).serial
    BY <1>6 DEF Has
  <2>2. k = Len(q)
    BY <1>1, <1>6, <2>1 DEF Once
  <2>3. QED
    BY <1>2, <2>1, <2>2
<1>7. QED
  BY <1>3, <1>4, <1>5, <1>6 DEF a

LEMMA HasNothing ==
  ASSUME NEW r
  PROVE  Once(<<>>, r) /\ \A i : ~Has(<<>>, r, i)
<1>1. DOMAIN <<>> = {}
  OBVIOUS
<1>2. QED
  BY <1>1 DEF Once, Has

-----------------------------------------------------------------------------
(* A phone p sends the generator request r in its i-th last attempt, it has   *)
(* kept it for later, or it is on its way.                                   *)
ToGen(s, r) == s.to = Gen /\ s.message.of = r
Sent(p, r, i) == \E s \in sends[p] : ToGen(s, r) /\ s.message.serial = i
Kept(p, r, i) == Has(queued[p][Gen], r, i)
Wired(p, r, i) == Has(wire[p][Gen], r, i)
InFlight(p, r, i) == Sent(p, r, i) \/ Kept(p, r, i) \/ Wired(p, r, i)

(* Each attempt in one copy at most. *)
CopiedOnce(p, r) ==
  /\ \A s, u \in sends[p] : ToGen(s, r) /\ ToGen(u, r) /\ s.message.serial = u.message.serial => s = u
  /\ Once(queued[p][Gen], r) /\ Once(wire[p][Gen], r)
  /\ \A i : /\ InFlight(p, r, i) => i \in 1 .. REQUEST_ATTEMPTS
            /\ ~(Sent(p, r, i) /\ Kept(p, r, i))
            /\ ~(Sent(p, r, i) /\ Wired(p, r, i))
            /\ ~(Kept(p, r, i) /\ Wired(p, r, i))

(* SendRequestToGenerator of r waits for Java or for its timer, in p. *)
Asking(p, r, a) == a.of = r /\ (a \in timers[p] \/ \E s \in sends[p] : s.ask = a)

(* There is one such coroutine at most. *)
AskedOnce(p, r) ==
  /\ \A s, u \in sends[p] : s.ask.of = r /\ u.ask.of = r => s = u
  /\ \A s \in sends[p], a \in timers[p] : ~(s.ask.of = r /\ a.of = r)
  /\ \A a, b \in timers[p] : a.of = r /\ b.of = r => a = b

(* The attempts that may still make the generator throw. *)
Open(p, r) == {i \in 1 .. REQUEST_ATTEMPTS :
                 InFlight(p, r, i) \/ \E a : Asking(p, r, a) /\ i < a.attempt}
Throws(r) == {t \in DOMAIN thrown : thrown[t] = r}

(***************************************************************************)
(* Phone n has made request r: nobody else asks for it, attempts are made   *)
(* in descending order, and each of them costs at most one throw.           *)
(***************************************************************************)
MadeBy(n, r) ==
  /\ AskedOnce(n, r) /\ CopiedOnce(n, r)
  /\ \A a, i : Asking(n, r, a) /\ InFlight(n, r, i) => a.attempt <= i
  /\ \A p \in Node \ {n} : \A a : ~Asking(p, r, a) /\ ~InFlight(p, r, a)
  /\ Cardinality(Throws(r)) + Cardinality(Open(n, r)) <= REQUEST_ATTEMPTS

RequestInv == \A r \in DOMAIN kind : \E n \in Node : MadeBy(n, r)

(* What most steps do for request r at phone p: they start nothing new. *)
KeepsAsks(p, r) ==
  AskedOnce(p, r) => AskedOnce(p, r)' /\ \A a : Asking(p, r, a)' => Asking(p, r, a)
KeepsCopies(p, r) ==
  CopiedOnce(p, r) => CopiedOnce(p, r)' /\ \A i : InFlight(p, r, i)' => InFlight(p, r, i)
Keeps(p, r) == KeepsAsks(p, r) /\ KeepsCopies(p, r)

LEMMA Nobody ==
  ASSUME NEW n \in Node, NEW r, MadeBy(n, r), NEW p \in Node
  PROVE  AskedOnce(p, r) /\ CopiedOnce(p, r)
<1>1. CASE p = n
  BY <1>1 DEF MadeBy
<1>2. CASE p # n
  <2>1. \A a : ~Asking(p, r, a) /\ ~InFlight(p, r, a)
    BY <1>2 DEF MadeBy
  <2>2. \A i : ~Sent(p, r, i) /\ ~Kept(p, r, i) /\ ~Wired(p, r, i)
    BY <2>1 DEF InFlight
  <2>3. CopiedOnce(p, r)
    BY <2>1, <2>2 DEF CopiedOnce, Sent, Kept, Wired, Has, Once
  <2>4. AskedOnce(p, r)
    BY <2>1 DEF AskedOnce, Asking
  <2>5. QED
    BY <2>3, <2>4
<1>3. QED
  BY <1>1, <1>2

LEMMA Finite ==
  ASSUME TInv, NEW p, NEW r
  PROVE  /\ IsFiniteSet(Throws(r)) /\ Cardinality(Throws(r)) \in Nat
         /\ IsFiniteSet(Open(p, r)) /\ Cardinality(Open(p, r)) \in Nat
<1>1. Len(thrown) \in Nat /\ DOMAIN thrown = 1 .. Len(thrown) /\ REQUEST_ATTEMPTS \in Nat
  BY TypeFacts, CountAssumption DEF TInv
<1>2. IsFiniteSet(1 .. Len(thrown)) /\ IsFiniteSet(1 .. REQUEST_ATTEMPTS)
  BY <1>1, FS_Interval
<1>3. Throws(r) \in SUBSET (1 .. Len(thrown)) /\ Open(p, r) \in SUBSET (1 .. REQUEST_ATTEMPTS)
  BY <1>1 DEF Throws, Open
<1>4. IsFiniteSet(Throws(r)) /\ IsFiniteSet(Open(p, r))
  BY <1>2, <1>3, FS_Subset
<1>5. QED
  BY <1>4, FS_CardinalityType

(* A step that starts nothing new and throws nothing for r. *)
LEMMA OldRequest ==
  ASSUME TInv, NEW n \in Node, NEW r, MadeBy(n, r), \A p \in Node : Keeps(p, r),
         Throws(r)' = Throws(r)
  PROVE  MadeBy(n, r)'
<1>1. \A p \in Node : /\ AskedOnce(p, r)' /\ CopiedOnce(p, r)'
                      /\ \A a : Asking(p, r, a)' => Asking(p, r, a)
                      /\ \A i : InFlight(p, r, i)' => InFlight(p, r, i)
  BY Nobody DEF Keeps, KeepsAsks, KeepsCopies
<1>2. Open(n, r)' \subseteq Open(n, r)
  BY <1>1 DEF Open
<1>3. /\ Cardinality(Open(n, r)') <= Cardinality(Open(n, r))
      /\ IsFiniteSet(Open(n, r)')
  BY <1>2, Finite, FS_Subset
<1>4. /\ Cardinality(Throws(r)) \in Nat /\ Cardinality(Open(n, r)) \in Nat
      /\ Cardinality(Open(n, r)') \in Nat /\ REQUEST_ATTEMPTS \in Nat
  BY <1>3, Finite, CountAssumption, FS_CardinalityType
<1>5. Cardinality(Throws(r)') + Cardinality(Open(n, r)') <= REQUEST_ATTEMPTS
  BY <1>3, <1>4 DEF MadeBy
<1>6. QED
  BY <1>1, <1>5 DEF MadeBy

-----------------------------------------------------------------------------
(* The steps of the coroutines and of Java, for one request and one phone    *)

LEMMA Queues ==
  ASSUME TInv, NEW p \in Node
  PROVE  /\ queued[p][Gen] \in Seq(Message) /\ wire[p][Gen] \in Seq(Message)
         /\ sends[p] \subseteq Sending /\ timers[p] \subseteq Ask
BY TypeFacts, PlayersAssumption DEF TInv

(* No coroutine starts to ask. *)
LEMMA AsksFade ==
  ASSUME NEW p \in Node, NEW r, timers'[p] \subseteq timers[p],
         \A s \in sends'[p] : s.ask.of = r => s \in sends[p]
  PROVE  KeepsAsks(p, r)
BY DEF KeepsAsks, AskedOnce, Asking

LEMMA AsksEnd ==
  ASSUME TInv, NEW p \in Node, NEW r \in DOMAIN kind, NEW s \in sends[p], EndSend(p, s)
  PROVE  KeepsAsks(p, r)
<1>1. /\ sends'[p] = sends[p] \ {s}
      /\ timers'[p] = IF s.ask = NoAsk THEN timers[p] ELSE timers[p] \cup {s.ask}
  BY TypeFacts DEF TInv, EndSend
<1>2. QED
  BY <1>1 DEF KeepsAsks, AskedOnce, Asking

LEMMA AsksContinue ==
  ASSUME TInv, NEW p \in Node, NEW r, NEW s \in sends[p], NEW next,
         ContinueSend(p, s, next), next.ask = s.ask
  PROVE  KeepsAsks(p, r)
<1>1. sends'[p] = (sends[p] \ {s}) \cup {next} /\ timers' = timers
  BY TypeFacts DEF TInv, ContinueSend
<1>2. QED
  BY <1>1 DEF KeepsAsks, AskedOnce, Asking

(* Messages are lost, arrive or stay. *)
LEMMA CopiesFade ==
  ASSUME TInv, NEW p \in Node, NEW r, \A s \in sends'[p] : ToGen(s, r) => s \in sends[p],
         queued'[p][Gen] \in {queued[p][Gen], <<>>},
         \/ wire'[p][Gen] \in {wire[p][Gen], <<>>}
         \/ wire[p][Gen] # <<>> /\ wire'[p][Gen] = Tail(wire[p][Gen])
  PROVE  KeepsCopies(p, r)
<1>1. \A i : Sent(p, r, i)' => Sent(p, r, i)
  BY DEF Sent
<1>2. /\ \A i : Kept(p, r, i)' => Kept(p, r, i)
      /\ Once(queued[p][Gen], r) => Once(queued'[p][Gen], r)
  BY HasNothing DEF Kept
<1>3. /\ \A i : Wired(p, r, i)' => Wired(p, r, i)
      /\ Once(wire[p][Gen], r) => Once(wire'[p][Gen], r)
  <2>1. wire[p][Gen] \in Seq(Message)
    BY Queues
  <2>2. CASE wire'[p][Gen] \in {wire[p][Gen], <<>>}
    BY <2>2, HasNothing DEF Wired
  <2>3. CASE wire[p][Gen] # <<>> /\ wire'[p][Gen] = Tail(wire[p][Gen])
    <3>1. PICK q \in Seq(Message) : q = wire[p][Gen]
      BY <2>1
    <3>2. /\ \A i : Has(Tail(q), r, i) => Has(q, r, i)
          /\ Once(q, r) => Once(Tail(q), r)
      BY <2>3, <3>1, HasTail
    <3>3. QED
      BY <2>3, <3>1, <3>2 DEF Wired
  <2>4. QED
    BY <2>2, <2>3
<1>4. QED
  BY <1>1, <1>2, <1>3 DEF KeepsCopies, CopiedOnce, InFlight

(* A message leaves its coroutine for the wire or for the queue. *)
LEMMA CopiesMove ==
  ASSUME TInv, NEW p \in Node, NEW r, NEW s \in sends[p], s.to = Gen,
         \A u \in sends'[p] : ToGen(u, r) => u \in sends[p] \ {s},
         \/ /\ queued'[p][Gen] = queued[p][Gen]
            /\ wire'[p][Gen] = Append(wire[p][Gen], s.message)
         \/ /\ wire'[p][Gen] = wire[p][Gen]
            /\ queued'[p][Gen] = Append(queued[p][Gen], s.message)
  PROVE  KeepsCopies(p, r)
<1>1. s.message \in Message
  BY Queues, Fields
<1> DEFINE i0 == s.message.serial
           mine == s.message.of = r
<1>2. SUFFICES ASSUME CopiedOnce(p, r)
               PROVE  CopiedOnce(p, r)' /\ \A i : InFlight(p, r, i)' => InFlight(p, r, i)
  BY DEF KeepsCopies
<1>3. /\ \A i : Sent(p, r, i)' => Sent(p, r, i)
      /\ mine => Sent(p, r, i0) /\ ~Sent(p, r, i0)' /\ ~Kept(p, r, i0) /\ ~Wired(p, r, i0)
  BY <1>2 DEF CopiedOnce, Sent, ToGen
<1>4. \A u, v \in sends'[p] : ToGen(u, r) /\ ToGen(v, r) /\ u.message.serial = v.message.serial => u = v
  BY <1>2 DEF CopiedOnce
<1>5. CASE /\ queued'[p][Gen] = queued[p][Gen]
           /\ wire'[p][Gen] = Append(wire[p][Gen], s.message)
  <2>1. /\ \A i : Wired(p, r, i)' <=> Wired(p, r, i) \/ (mine /\ i0 = i)
        /\ Once(wire'[p][Gen], r)
    BY <1>1, <1>2, <1>3, <1>5, HasAppended, Queues DEF Wired, CopiedOnce
  <2>2. /\ \A i : Kept(p, r, i)' <=> Kept(p, r, i)
        /\ Once(queued'[p][Gen], r)
    BY <1>2, <1>5 DEF Kept, CopiedOnce
  <2> HIDE DEF i0, mine
  <2>3. QED
    BY <1>2, <1>3, <1>4, <2>1, <2>2 DEF CopiedOnce, InFlight
<1>6. CASE /\ wire'[p][Gen] = wire[p][Gen]
           /\ queued'[p][Gen] = Append(queued[p][Gen], s.message)
  <2>1. /\ \A i : Kept(p, r, i)' <=> Kept(p, r, i) \/ (mine /\ i0 = i)
        /\ Once(queued'[p][Gen], r)
    BY <1>1, <1>2, <1>3, <1>6, HasAppended, Queues DEF Kept, CopiedOnce
  <2>2. /\ \A i : Wired(p, r, i)' <=> Wired(p, r, i)
        /\ Once(wire'[p][Gen], r)
    BY <1>2, <1>6 DEF Wired, CopiedOnce
  <2> HIDE DEF i0, mine
  <2>3. QED
    BY <1>2, <1>3, <1>4, <2>1, <2>2 DEF CopiedOnce, InFlight
<1>7. QED
  BY <1>5, <1>6

(* The same attempt is made again. *)
LEMMA CopiesAgain ==
  ASSUME TInv, NEW p \in Node, NEW r, NEW s \in sends[p], NEW again,
         again.to = s.to, again.message = s.message,
         \A u \in sends'[p] : ToGen(u, r) => u \in (sends[p] \ {s}) \cup {again},
         queued'[p][Gen] = queued[p][Gen], wire'[p][Gen] = wire[p][Gen]
  PROVE  KeepsCopies(p, r)
<1>1. SUFFICES ASSUME CopiedOnce(p, r)
               PROVE  CopiedOnce(p, r)' /\ \A i : InFlight(p, r, i)' => InFlight(p, r, i)
  BY DEF KeepsCopies
<1>2. /\ \A i : Sent(p, r, i)' => Sent(p, r, i)
      /\ \A u, v \in sends'[p] :
            ToGen(u, r) /\ ToGen(v, r) /\ u.message.serial = v.message.serial => u = v
  BY <1>1 DEF CopiedOnce, Sent, ToGen
<1>3. \A i : (Kept(p, r, i)' <=> Kept(p, r, i)) /\ (Wired(p, r, i)' <=> Wired(p, r, i))
  BY DEF Kept, Wired
<1>4. QED
  BY <1>1, <1>2, <1>3 DEF CopiedOnce, InFlight

(* After a success the message queued last takes the place of the one that went. *)
LEMMA CopiesNext ==
  ASSUME TInv, NEW p \in Node, NEW r, NEW s \in sends[p], s.to = Gen, queued[p][Gen] # <<>>,
         NEW next, next.to = Gen, next.message = Last(queued[p][Gen]),
         \A u \in sends'[p] : ToGen(u, r) => u \in (sends[p] \ {s}) \cup {next},
         queued'[p][Gen] = Front(queued[p][Gen]),
         wire'[p][Gen] = wire[p][Gen] \/ wire'[p][Gen] = Append(wire[p][Gen], s.message)
  PROVE  KeepsCopies(p, r)
<1>1. s.message \in Message
  BY Queues, Fields
<1>0. PICK last : last = Last(queued[p][Gen])
  OBVIOUS
<1> DEFINE i0 == s.message.serial
           mine == s.message.of = r
           i1 == last.serial
           nexts == last.of = r
<1>2. SUFFICES ASSUME CopiedOnce(p, r)
               PROVE  CopiedOnce(p, r)' /\ \A i : InFlight(p, r, i)' => InFlight(p, r, i)
  BY DEF KeepsCopies
<1>3. /\ \A i : Kept(p, r, i)' => Kept(p, r, i)
      /\ nexts => Kept(p, r, i1) /\ ~Kept(p, r, i1)'
      /\ Once(queued'[p][Gen], r)
  <2>1. PICK q \in Seq(Message) : q = queued[p][Gen]
    BY Queues
  <2>2. Once(q, r) /\ q # <<>>
    BY <1>2, <2>1 DEF CopiedOnce
  <2>3. /\ \A i : Has(Front(q), r, i) => Has(q, r, i)
        /\ Last(q).of = r => Has(q, r, Last(q).serial) /\ ~Has(Front(q), r, Last(q).serial)
        /\ Once(Front(q), r)
    BY <2>2, HasFront
  <2>4. queued'[p][Gen] = Front(q) /\ i1 = Last(q).serial /\ (nexts <=> Last(q).of = r)
    BY <1>0, <2>1
  <2> HIDE DEF i1, nexts
  <2>5. QED
    BY <2>1, <2>3, <2>4 DEF Kept
<1>4. /\ mine => Sent(p, r, i0) /\ ~Kept(p, r, i0) /\ ~Wired(p, r, i0)
      /\ nexts => ~Sent(p, r, i1) /\ ~Wired(p, r, i1)
  BY <1>2, <1>3 DEF CopiedOnce, Sent, ToGen
<1>5. /\ \A i : Sent(p, r, i)' => (Sent(p, r, i) /\ ~(mine /\ i = i0)) \/ (nexts /\ i = i1)
      /\ \A u, v \in sends'[p] :
            ToGen(u, r) /\ ToGen(v, r) /\ u.message.serial = v.message.serial => u = v
  BY <1>0, <1>2, <1>4 DEF CopiedOnce, Sent, ToGen
<1>6. /\ \A i : Wired(p, r, i)' => Wired(p, r, i) \/ (mine /\ i0 = i)
      /\ Once(wire'[p][Gen], r)
  <2>1. PICK q \in Seq(Message) : q = wire[p][Gen]
    BY Queues
  <2>2. Once(q, r) /\ (mine => ~Has(q, r, i0))
    BY <1>2, <1>4, <2>1 DEF CopiedOnce, Wired
  <2>3. /\ \A i : Has(Append(q, s.message), r, i) <=> Has(q, r, i) \/ (mine /\ i0 = i)
        /\ Once(Append(q, s.message), r)
    BY <1>1, <2>2, HasAppended
  <2>4. QED
    BY <2>1, <2>2, <2>3 DEF Wired
<1> HIDE DEF i0, mine, i1, nexts
<1>7. \A i : InFlight(p, r, i)' => InFlight(p, r, i)
  BY <1>3, <1>4, <1>5, <1>6 DEF InFlight
<1>8. \A i : /\ ~(Sent(p, r, i) /\ Kept(p, r, i))
             /\ ~(Sent(p, r, i) /\ Wired(p, r, i))
             /\ ~(Kept(p, r, i) /\ Wired(p, r, i))
             /\ InFlight(p, r, i) => i \in 1 .. REQUEST_ATTEMPTS
  BY <1>2 DEF CopiedOnce
<1>9. \A i : ~(Sent(p, r, i)' /\ Kept(p, r, i)')
  BY <1>3, <1>5, <1>8
<1>10. \A i : ~(Sent(p, r, i)' /\ Wired(p, r, i)')
  BY <1>4, <1>5, <1>6, <1>8
<1>11. \A i : ~(Kept(p, r, i)' /\ Wired(p, r, i)')
  BY <1>3, <1>4, <1>6, <1>8
<1>12. \A i : InFlight(p, r, i)' => i \in 1 .. REQUEST_ATTEMPTS
  BY <1>7, <1>8
<1>13. CopiedOnce(p, r)'
  BY <1>3, <1>5, <1>6, <1>9, <1>10, <1>11, <1>12 DEF CopiedOnce
<1>14. QED
  BY <1>7, <1>13

(* Nothing happens for r at p, but that messages are lost or arrive. *)
LEMMA Fade ==
  ASSUME TInv, NEW p \in Node, NEW r, timers'[p] \subseteq timers[p],
         \A s \in sends'[p] : s.ask.of = r \/ ToGen(s, r) => s \in sends[p],
         queued'[p][Gen] \in {queued[p][Gen], <<>>},
         \/ wire'[p][Gen] \in {wire[p][Gen], <<>>}
         \/ wire[p][Gen] # <<>> /\ wire'[p][Gen] = Tail(wire[p][Gen])
  PROVE  Keeps(p, r)
BY AsksFade, CopiesFade DEF Keeps

LEMMA Tables ==
  ASSUME TInv
  PROVE  /\ sends \in [Node -> SUBSET Sending] /\ timers \in [Node -> SUBSET Ask]
         /\ queued \in [Node -> [Node -> Seq(Message)]]
         /\ wire \in [Node -> [Node -> Seq(Message)]] /\ Gen \in Node
         /\ \A r \in DOMAIN kind : r \in Nat \ {0} /\ r # Len(kind) + 1
         /\ Len(kind) \in Nat
BY TypeFacts, PlayersAssumption DEF TInv

LEMMA KeepsCast ==
  ASSUME TInv, NEW m \in Node, NEW k \in Kind, Cast(m, k), NEW r \in DOMAIN kind,
         NEW p \in Node
  PROVE  Keeps(p, r)
<1>1. PICK new : new = Len(kind) + 1
  OBVIOUS
<1>2. new \in Nat /\ new # r /\ r # 0 /\ Len(thrown) + 1 \in Nat
  <2>1. Len(kind) \in Nat /\ r \in Nat \ {0} /\ r # Len(kind) + 1
    BY Tables
  <2>2. Len(thrown) \in Nat
    BY TypeFacts DEF TInv
  <2>3. QED
    BY <1>1, <2>1, <2>2
<1> DEFINE ask == AskFor(new, REQUEST_ATTEMPTS)
           requests == {NewSend(q, Request(new, REQUEST_ATTEMPTS),
                                IF q = Gen THEN ask ELSE NoAsk) : q \in Others(m)}
<1>3. \A s \in requests : s.message.of = new /\ s.ask.of \in {new, 0}
  <2>1. /\ Request(new, REQUEST_ATTEMPTS) \in Message
        /\ Request(new, REQUEST_ATTEMPTS).of = new /\ ask \in Ask /\ ask.of = new
        /\ NoAsk \in Ask /\ NoAsk.of = 0
    BY <1>2, FirstRequest, Values
  <2> HIDE DEF ask
  <2>2. \A q \in Others(m) : (IF q = Gen THEN ask ELSE NoAsk) \in Ask
    BY <2>1
  <2>3. \A q \in Others(m), a \in Ask :
          /\ NewSend(q, Request(new, REQUEST_ATTEMPTS), a).message.of = new
          /\ NewSend(q, Request(new, REQUEST_ATTEMPTS), a).ask = a
    BY <2>1, Values DEF Others
  <2>4. QED
    BY <2>1, <2>2, <2>3
<1>4. \A q \in Others(m), t \in Nat :
         /\ NewSend(q, Response(new, t), NoAsk).message.of = new
         /\ NewSend(q, Response(new, t), NoAsk).ask.of = 0
  BY <1>2, Values DEF Others
<1>5. \A s \in Responses(m, k, new, Len(thrown) + 1) : s.message.of = new /\ s.ask.of = 0
  BY <1>2, <1>4 DEF Responses
<1>6. /\ timers' = timers /\ queued' = queued /\ wire' = wire
      /\ \/ sends' = [sends EXCEPT ![m] = @ \cup requests]
         \/ sends' = [sends EXCEPT ![m] =
                        @ \cup requests \cup Responses(m, k, new, Len(thrown) + 1)]
  BY <1>1 DEF Cast, Throw
<1> HIDE DEF requests
<1>7. \A s \in sends'[p] : s \in sends[p] \/ (s.message.of = new /\ s.ask.of \in {new, 0})
  BY <1>3, <1>5, <1>6, Tables
<1>8. QED
  BY <1>2, <1>6, <1>7, Fade DEF ToGen

LEMMA KeepsSucceeds ==
  ASSUME TInv, NEW m \in Node, NEW s \in sends[m], SendSucceeds(m, s), NEW r \in DOMAIN kind,
         NEW p \in Node
  PROVE  Keeps(p, r)
<1>1. s \in Sending /\ s.to \in Node /\ s.message \in Message /\ s.ask \in Ask
  BY Tables, Fields
<1>2. /\ wire'[p][Gen] = wire[p][Gen]
         \/ (p = m /\ s.to = Gen /\ wire'[p][Gen] = Append(wire[p][Gen], s.message))
  BY <1>1, Tables DEF SendSucceeds, Deliver
<1>3. CASE queued[m][s.to] = <<>> /\ EndSend(m, s) /\ UNCHANGED queued
  <2>1. /\ sends' = [sends EXCEPT ![m] = @ \ {s}]
        /\ timers' = [timers EXCEPT ![m] = IF s.ask = NoAsk THEN @ ELSE @ \cup {s.ask}]
    BY <1>3 DEF EndSend
  <2>2. CASE p # m
    <3>1. sends'[p] = sends[p] /\ timers'[p] = timers[p] /\ wire'[p][Gen] = wire[p][Gen]
      BY <1>2, <2>1, <2>2, Tables
    <3>2. QED
      BY <1>3, <3>1, Fade
  <2>3. CASE p = m
    <3>1. KeepsAsks(p, r)
      BY <1>3, <2>3, AsksEnd
    <3>2. sends'[p] = sends[p] \ {s} /\ queued' = queued
      BY <1>3, <2>1, <2>3, Tables
    <3>3. KeepsCopies(p, r)
      <4>1. CASE wire'[p][Gen] = wire[p][Gen]
        BY <3>2, <4>1, CopiesFade
      <4>2. CASE s.to = Gen /\ wire'[p][Gen] = Append(wire[p][Gen], s.message)
        BY <2>3, <3>2, <4>2, CopiesMove
      <4>3. QED
        BY <1>2, <4>1, <4>2
    <3>4. QED
      BY <3>1, <3>3 DEF Keeps
  <2>4. QED
    BY <2>2, <2>3
<1>4. CASE /\ queued[m][s.to] # <<>>
           /\ queued' = [queued EXCEPT ![m][s.to] = Front(@)]
           /\ ContinueSend(m, s, NewSend(s.to, Last(queued[m][s.to]), s.ask))
  <2>1. Last(queued[m][s.to]) \in Message
    <3>1. queued[m][s.to] \in Seq(Message)
      BY <1>1, Tables
    <3>2. QED
      BY <1>4, <3>1, Fronted
  <2>2. PICK next : next = NewSend(s.to, Last(queued[m][s.to]), s.ask)
    OBVIOUS
  <2>3. next.to = s.to /\ next.message = Last(queued[m][s.to]) /\ next.ask = s.ask
    BY <1>1, <2>1, <2>2, Values
  <2>4. ContinueSend(m, s, next)
    BY <1>4, <2>2
  <2>5. /\ sends' = [sends EXCEPT ![m] = (@ \ {s}) \cup {next}] /\ timers' = timers
    BY <2>4 DEF ContinueSend
  <2>6. CASE p # m
    <3>1. /\ sends'[p] = sends[p] /\ timers'[p] = timers[p] /\ wire'[p][Gen] = wire[p][Gen]
          /\ queued'[p] = queued[p]
      BY <1>2, <1>4, <2>5, <2>6, Tables
    <3>2. QED
      BY <3>1, Fade
  <2>7. CASE p = m
    <3>1. KeepsAsks(p, r)
      BY <2>3, <2>4, <2>7, AsksContinue
    <3>2. sends'[p] = (sends[p] \ {s}) \cup {next}
      BY <2>5, <2>7, Tables
    <3>3. CASE s.to = Gen
      <4>1. queued'[p][Gen] = Front(queued[p][Gen])
        BY <1>4, <2>7, <3>3, Tables
      <4>2. KeepsCopies(p, r)
        BY <1>2, <1>4, <2>3, <2>7, <3>2, <3>3, <4>1, CopiesNext
      <4>3. QED
        BY <3>1, <4>2 DEF Keeps
    <3>4. CASE s.to # Gen
      <4>1. queued'[p][Gen] = queued[p][Gen] /\ wire'[p][Gen] = wire[p][Gen]
        BY <1>1, <1>2, <1>4, <3>4, Tables
      <4>2. KeepsCopies(p, r)
        BY <2>3, <3>2, <3>4, <4>1, CopiesFade DEF ToGen
      <4>3. QED
        BY <3>1, <4>2 DEF Keeps
    <3>5. QED
      BY <3>3, <3>4
  <2>8. QED
    BY <2>6, <2>7
<1>5. QED
  BY <1>3, <1>4 DEF SendSucceeds

LEMMA KeepsRefused ==
  ASSUME TInv, NEW m \in Node, NEW s \in sends[m], SendRefused(m, s), NEW r \in DOMAIN kind,
         NEW p \in Node
  PROVE  Keeps(p, r)
<1>1. queued' = queued /\ wire' = wire
  BY DEF SendRefused
<1>2. CASE EndSend(m, s)
  <2>1. sends'[p] \subseteq sends[p] /\ (p # m => timers'[p] = timers[p])
    BY <1>2, Tables DEF EndSend
  <2>2. CASE p = m
    BY <1>1, <1>2, <2>1, <2>2, AsksEnd, CopiesFade DEF Keeps
  <2>3. CASE p # m
    BY <1>1, <2>1, <2>3, Fade
  <2>4. QED
    BY <2>2, <2>3
<1>3. CASE ContinueSend(m, s, [s EXCEPT !.left = @ - 1])
  <2>1. PICK again : again = [s EXCEPT !.left = @ - 1]
    OBVIOUS
  <2>2. again.to = s.to /\ again.message = s.message /\ again.ask = s.ask
    BY <2>1, Tables DEF Sending
  <2>3. ContinueSend(m, s, again)
    BY <1>3, <2>1
  <2>4. /\ timers' = timers
        /\ sends' = [sends EXCEPT ![m] = (@ \ {s}) \cup {again}]
    BY <2>3 DEF ContinueSend
  <2>5. CASE p = m
    <3>1. sends'[p] = (sends[p] \ {s}) \cup {again}
      BY <2>4, <2>5, Tables
    <3>2. KeepsAsks(p, r)
      BY <2>2, <2>3, <2>5, AsksContinue
    <3>3. KeepsCopies(p, r)
      BY <1>1, <2>2, <2>5, <3>1, CopiesAgain
    <3>4. QED
      BY <3>2, <3>3 DEF Keeps
  <2>6. CASE p # m
    <3>1. sends'[p] = sends[p] /\ timers'[p] = timers[p]
      BY <2>4, <2>6, Tables
    <3>2. QED
      BY <1>1, <3>1, Fade
  <2>7. QED
    BY <2>5, <2>6
<1>4. QED
  BY <1>2, <1>3 DEF SendRefused

LEMMA KeepsBreaks ==
  ASSUME TInv, NEW m \in Node, NEW s \in sends[m], SendBreaks(m, s), NEW r \in DOMAIN kind,
         NEW p \in Node
  PROVE  Keeps(p, r)
<1>1. /\ wire' = wire /\ EndSend(m, s)
      /\ queued' = [queued EXCEPT ![m][s.to] = Append(queued[m][s.to], s.message)]
  BY DEF SendBreaks
<1>2. /\ sends' = [sends EXCEPT ![m] = @ \ {s}]
      /\ timers' = [timers EXCEPT ![m] = IF s.ask = NoAsk THEN @ ELSE @ \cup {s.ask}]
  BY <1>1 DEF EndSend
<1>3. s.to \in Node
  BY Tables, Fields
<1>4. CASE p # m
  <2>1. sends'[p] = sends[p] /\ timers'[p] = timers[p] /\ queued'[p] = queued[p]
    BY <1>1, <1>2, <1>4, Tables
  <2>2. QED
    BY <1>1, <2>1, Fade
<1>5. CASE p = m
  <2>1. KeepsAsks(p, r)
    BY <1>1, <1>5, AsksEnd
  <2>2. sends'[p] = sends[p] \ {s}
    BY <1>2, <1>5, Tables
  <2>3. CASE s.to = Gen
    <3>1. queued'[p][Gen] = Append(queued[p][Gen], s.message)
      BY <1>1, <1>5, <2>3, Tables
    <3>2. KeepsCopies(p, r)
      BY <1>1, <1>5, <2>2, <2>3, <3>1, CopiesMove
    <3>3. QED
      BY <2>1, <3>2 DEF Keeps
  <2>4. CASE s.to # Gen
    <3>1. queued'[p][Gen] = queued[p][Gen]
      BY <1>1, <1>3, <2>4, Tables
    <3>2. KeepsCopies(p, r)
      BY <1>1, <2>2, <3>1, CopiesFade
    <3>3. QED
      BY <2>1, <3>2 DEF Keeps
  <2>5. QED
    BY <2>3, <2>4
<1>6. QED
  BY <1>4, <1>5

LEMMA KeepsOrphaned ==
  ASSUME TInv, NEW m \in Node, NEW s \in sends[m], SendOrphaned(m, s), NEW r \in DOMAIN kind,
         NEW p \in Node
  PROVE  Keeps(p, r)
<1>1. /\ timers' = timers /\ queued' = queued /\ sends' = [sends EXCEPT ![m] = @ \ {s}]
  BY DEF SendOrphaned
<1>2. /\ wire'[p][Gen] = wire[p][Gen]
         \/ (p = m /\ s.to = Gen /\ wire'[p][Gen] = Append(wire[p][Gen], s.message))
  <2>1. s.to \in Node
    BY Tables, Fields
  <2>2. wire' = wire \/ wire' = [wire EXCEPT ![m][s.to] = Append(wire[m][s.to], s.message)]
    BY DEF SendOrphaned, Deliver
  <2>3. CASE wire' = wire
    BY <2>3
  <2>4. CASE wire' = [wire EXCEPT ![m][s.to] = Append(wire[m][s.to], s.message)]
    <3>1. CASE p = m /\ s.to = Gen
      BY <2>1, <2>4, <3>1, Tables
    <3>2. CASE ~(p = m /\ s.to = Gen)
      BY <2>1, <2>4, <3>2, Tables
    <3>3. QED
      BY <3>1, <3>2
  <2>5. QED
    BY <2>2, <2>3, <2>4
<1>3. /\ sends'[p] \subseteq sends[p] /\ (p = m => sends'[p] = sends[p] \ {s})
  BY <1>1, Tables
<1>4. CASE wire'[p][Gen] = wire[p][Gen]
  BY <1>1, <1>3, <1>4, Fade
<1>5. CASE p = m /\ s.to = Gen /\ wire'[p][Gen] = Append(wire[p][Gen], s.message)
  BY <1>1, <1>3, <1>5, AsksFade, CopiesMove DEF Keeps
<1>6. QED
  BY <1>2, <1>4, <1>5

(* The generator hears of a request; a throw only sends responses. *)
LEMMA KeepsRequest ==
  ASSUME TInv, NEW m \in Node, NEW q \in Others(m), ReceiveRequest(m, q),
         NEW r \in DOMAIN kind, NEW p \in Node
  PROVE  Keeps(p, r)
<1>1. /\ timers' = timers /\ queued' = queued
      /\ wire' = [wire EXCEPT ![q][m] = Tail(wire[q][m])] /\ wire[q][m] # <<>>
  BY DEF ReceiveRequest, Consume
<1>2. \A s \in sends'[p] : s \in sends[p] \/ (s.to # Gen /\ s.ask.of # r)
  <2>1. CASE sends' = sends
    BY <2>1
  <2>2. CASE m = Gen /\ Throw(Gen, kind[Head(wire[q][Gen]).of], Head(wire[q][Gen]).of, {})
    <3>1. PICK k, about, t :
            /\ sends' = [sends EXCEPT ![Gen] = @ \cup Responses(Gen, k, about, t)]
            /\ about \in Nat /\ t \in Nat
      <4>1. Head(wire[q][Gen]).of \in Nat /\ Len(thrown) + 1 \in Nat
        <5>1. Head(wire[q][Gen]) \in Message
          BY <2>2, ConsumeType DEF ReceiveRequest, Others
        <5>2. Len(thrown) \in Nat
          BY TypeFacts DEF TInv
        <5>3. QED
          BY <5>1, <5>2, Fields
      <4>2. sends' = [sends EXCEPT ![Gen] = @ \cup {} \cup
                        Responses(Gen, kind[Head(wire[q][Gen]).of], Head(wire[q][Gen]).of,
                                  Len(thrown) + 1)]
        BY <2>2 DEF Throw
      <4>3. QED
        BY <4>1, <4>2
    <3>2. \A s \in Responses(Gen, k, about, t) : s.to # Gen /\ s.ask = NoAsk
      <4>1. Response(about, t) \in Message /\ NoAsk \in Ask
        BY <3>1, Values
      <4>2. \A n \in Others(Gen) : /\ NewSend(n, Response(about, t), NoAsk).to = n
                                   /\ NewSend(n, Response(about, t), NoAsk).ask = NoAsk
        BY <4>1, Values DEF Others
      <4>3. QED
        BY <4>2 DEF Responses, Others
    <3>3. NoAsk.of # r
      BY Values, Tables
    <3>4. QED
      BY <3>1, <3>2, <3>3, Tables
  <2>3. QED
    BY <2>1, <2>2 DEF ReceiveRequest
<1>3. /\ q \in Node
      /\ wire'[p][Gen] = wire[p][Gen]
         \/ (wire[p][Gen] # <<>> /\ wire'[p][Gen] = Tail(wire[p][Gen]))
  BY <1>1, Tables DEF Others
<1>4. QED
  BY <1>1, <1>2, <1>3, Fade DEF ToGen

(* The other things that happen to a phone. *)
LEMMA KeepsEvents ==
  ASSUME TInv, NEW m \in Node, NEW r \in DOMAIN kind, NEW p \in Node,
         \/ \E q \in Others(m) : \/ ReceiveResponse(m, q) \/ ReadFailure(m, q)
                                 \/ DeviceConnected(m, q)
         \/ \E t \in shown[m] : ResponseShown(m, t)
         \/ GameStopped(m) \/ Gone(m)
  PROVE  Keeps(p, r)
<1>1. CASE \E q \in Others(m) : ReceiveResponse(m, q) \/ ReadFailure(m, q)
  <2>1. PICK q \in Node : ReceiveResponse(m, q) \/ ReadFailure(m, q)
    BY <1>1 DEF Others
  <2>2. sends' = sends /\ timers' = timers /\ queued' = queued
    BY <2>1 DEF ReceiveResponse, ReadFailure
  <2>3. \/ wire' = [wire EXCEPT ![q][m] = <<>>]
        \/ wire[q][m] # <<>> /\ wire' = [wire EXCEPT ![q][m] = Tail(wire[q][m])]
    BY <2>1 DEF ReceiveResponse, ReadFailure, Consume
  <2>4. \/ wire'[p][Gen] \in {wire[p][Gen], <<>>}
        \/ wire[p][Gen] # <<>> /\ wire'[p][Gen] = Tail(wire[p][Gen])
    <3>1. CASE wire' = [wire EXCEPT ![q][m] = <<>>]
      BY <3>1, Tables
    <3>2. CASE wire[q][m] # <<>> /\ wire' = [wire EXCEPT ![q][m] = Tail(wire[q][m])]
      BY <3>2, Tables
    <3>3. QED
      BY <2>3, <3>1, <3>2
  <2>5. QED
    BY <2>2, <2>4, Fade
<1>2. CASE \/ \E q \in Others(m) : DeviceConnected(m, q)
           \/ \E t \in shown[m] : ResponseShown(m, t)
           \/ GameStopped(m)
  <2>1. sends' = sends /\ timers' = timers /\ queued' = queued /\ wire' = wire
    BY <1>2 DEF DeviceConnected, ResponseShown, GameStopped
  <2>2. QED
    BY <2>1, Fade
<1>3. CASE Gone(m)
  <2>1. /\ sends' = sends /\ timers' = [timers EXCEPT ![m] = {}]
        /\ queued' = [queued EXCEPT ![m] = [q \in Node |-> <<>>]]
        /\ wire' = [q \in Node |-> [wire[q] EXCEPT ![m] = <<>>]]
    BY <1>3 DEF Gone
  <2>2. /\ timers'[p] \subseteq timers[p] /\ queued'[p][Gen] \in {queued[p][Gen], <<>>}
        /\ wire'[p][Gen] \in {wire[p][Gen], <<>>}
    BY <2>1, Tables
  <2>3. QED
    BY <2>1, <2>2, Fade
<1>4. QED
  BY <1>1, <1>2, <1>3

(* A retry of another request; a retry that is not made. *)
LEMMA KeepsTimer ==
  ASSUME TInv, NEW m \in Node, NEW a \in timers[m], AskTimer(m, a), NEW r \in DOMAIN kind,
         a.of # r \/ sends' = sends, NEW p \in Node
  PROVE  Keeps(p, r)
<1>1. /\ timers' = [timers EXCEPT ![m] = @ \ {a}] /\ queued' = queued /\ wire' = wire
  BY DEF AskTimer
<1>2. CASE sends' = sends
  BY <1>1, <1>2, Tables, Fade
<1>3. CASE /\ a.attempt > 1 /\ a.of # r
           /\ sends' = [sends EXCEPT ![m] = @ \cup
                {NewSend(Gen, Request(a.of, a.attempt - 1), AskFor(a.of, a.attempt - 1))}]
  <2>1. PICK new : new = NewSend(Gen, Request(a.of, a.attempt - 1), AskFor(a.of, a.attempt - 1))
    OBVIOUS
  <2>2. a.of \in Nat /\ a.attempt - 1 \in 0 .. REQUEST_ATTEMPTS /\ a.attempt - 1 \in Nat
    <3>1. a.of \in Nat /\ a.attempt \in 0 .. REQUEST_ATTEMPTS
      BY Tables, Fields
    <3>2. QED
      BY <1>3, <3>1, CountAssumption
  <2>3. new.message.of # r /\ new.ask.of # r
    <3>1. PICK i : i = a.attempt - 1
      OBVIOUS
    <3>2. /\ Request(a.of, i) \in Message /\ Request(a.of, i).of = a.of
          /\ AskFor(a.of, i) \in Ask /\ AskFor(a.of, i).of = a.of
      BY <2>2, <3>1, Values
    <3>3. new.message = Request(a.of, i) /\ new.ask = AskFor(a.of, i)
      <4>1. Gen \in Node
        BY Tables
      <4>2. PICK message \in Message, ask \in Ask : message = Request(a.of, i) /\ ask = AskFor(a.of, i)
        BY <3>2
      <4>3. NewSend(Gen, message, ask).message = message /\ NewSend(Gen, message, ask).ask = ask
        BY <4>1, Values
      <4>4. QED
        BY <2>1, <3>1, <4>2, <4>3
    <3>4. QED
      BY <1>3, <3>2, <3>3
  <2>4. \A s \in sends'[p] : s \in sends[p] \/ s = new
    BY <1>3, <2>1, Tables
  <2>5. QED
    BY <1>1, <2>3, <2>4, Tables, Fade DEF ToGen
<1>4. QED
  BY <1>2, <1>3 DEF AskTimer

-----------------------------------------------------------------------------
(* The steps that make and answer an attempt                                 *)

(* The timer fires, and the next attempt is made. *)
LEMMA NextAttempt ==
  ASSUME TInv, NEW m \in Node, NEW a \in timers[m], AskTimer(m, a), sends' # sends,
         NEW r \in DOMAIN kind, a.of = r, NEW n \in Node, MadeBy(n, r)
  PROVE  MadeBy(n, r)'
<1>1. m = n /\ Asking(n, r, a)
  <2>1. Asking(m, r, a)
    BY DEF Asking
  <2>2. QED
    BY <2>1 DEF MadeBy
<1>2. PICK i : i = a.attempt - 1
  OBVIOUS
<1>3. PICK next : next = AskFor(r, i)
  OBVIOUS
<1>4. PICK new : new = NewSend(Gen, Request(r, i), next)
  OBVIOUS
<1>5. /\ timers' = [timers EXCEPT ![n] = @ \ {a}] /\ queued' = queued /\ wire' = wire
      /\ a.attempt > 1 /\ sends' = [sends EXCEPT ![n] = @ \cup {new}]
      /\ thrown' = thrown
  BY <1>1, <1>2, <1>3, <1>4 DEF AskTimer
<1>6. i \in 1 .. REQUEST_ATTEMPTS /\ i \in Nat /\ a.attempt = i + 1 /\ r \in Nat
  <2>1. a.of \in Nat /\ a.attempt \in 0 .. REQUEST_ATTEMPTS
    BY <1>1, Tables, Fields
  <2>2. QED
    BY <1>2, <1>5, <2>1, CountAssumption
<1>7. /\ new.to = Gen /\ new.message.of = r /\ new.message.serial = i
      /\ new.ask = next /\ next.of = r /\ next.attempt = i
  <2>1. i \in 0 .. REQUEST_ATTEMPTS
    BY <1>6, CountAssumption
  <2>2. /\ next \in Ask /\ next.of = r /\ next.attempt = i /\ Gen \in Node
        /\ Request(r, i) \in Message /\ Request(r, i).of = r /\ Request(r, i).serial = i
    <3>1. next \in Ask /\ next.of = r /\ next.attempt = i
      BY <1>3, <1>6, <2>1, Values
    <3>2. Request(r, i) \in Message /\ Request(r, i).of = r /\ Request(r, i).serial = i
      BY <1>6, Values
    <3>3. QED
      BY <3>1, <3>2, Tables
  <2>3. PICK message \in Message : message = Request(r, i)
    BY <2>2
  <2>4. /\ NewSend(Gen, message, next).to = Gen /\ NewSend(Gen, message, next).ask = next
        /\ NewSend(Gen, message, next).message = message
    BY <2>2, Values
  <2>5. QED
    BY <1>4, <2>2, <2>3, <2>4
<1>8. /\ sends'[n] = sends[n] \cup {new} /\ timers'[n] = timers[n] \ {a}
      /\ \A p \in Node \ {n} : sends'[p] = sends[p] /\ timers'[p] = timers[p]
  BY <1>5, Tables
<1>9. ~InFlight(n, r, i) /\ ~Sent(n, r, i) /\ ~Kept(n, r, i) /\ ~Wired(n, r, i)
  <2>1. ~InFlight(n, r, i)
    BY <1>1, <1>6 DEF MadeBy
  <2>2. QED
    BY <2>1 DEF InFlight
<1>10. /\ \A s \in sends[n] : s.ask.of # r
       /\ \A b \in timers[n] : b.of = r => b = a
  BY <1>1 DEF MadeBy, AskedOnce
<1>11. AskedOnce(n, r)'
  BY <1>8, <1>10 DEF AskedOnce
<1>12. \A b : Asking(n, r, b)' => b = next
  BY <1>7, <1>8, <1>10 DEF Asking
<1>13. /\ \A j : Sent(n, r, j)' <=> Sent(n, r, j) \/ j = i
       /\ \A j : (Kept(n, r, j)' <=> Kept(n, r, j)) /\ (Wired(n, r, j)' <=> Wired(n, r, j))
  BY <1>5, <1>7, <1>8 DEF Sent, ToGen, Kept, Wired
<1>14. \A j : InFlight(n, r, j)' <=> InFlight(n, r, j) \/ j = i
  BY <1>13 DEF InFlight
<1>15. CopiedOnce(n, r)
  BY DEF MadeBy
<1>16. CopiedOnce(n, r)'
  <2>1. \A s, u \in sends'[n] :
          ToGen(s, r) /\ ToGen(u, r) /\ s.message.serial = u.message.serial => s = u
    BY <1>7, <1>8, <1>9, <1>15 DEF CopiedOnce, Sent
  <2>2. Once(queued'[n][Gen], r) /\ Once(wire'[n][Gen], r)
    BY <1>5, <1>15 DEF CopiedOnce
  <2>3. \A j : /\ InFlight(n, r, j)' => j \in 1 .. REQUEST_ATTEMPTS
               /\ ~(Sent(n, r, j)' /\ Kept(n, r, j)')
               /\ ~(Sent(n, r, j)' /\ Wired(n, r, j)')
               /\ ~(Kept(n, r, j)' /\ Wired(n, r, j)')
    BY <1>6, <1>9, <1>13, <1>14, <1>15 DEF CopiedOnce
  <2>4. QED
    BY <2>1, <2>2, <2>3 DEF CopiedOnce
<1>17. \A b, j : Asking(n, r, b)' /\ InFlight(n, r, j)' => b.attempt <= j
  <2>1. SUFFICES ASSUME NEW j, InFlight(n, r, j) \/ j = i
                 PROVE  i <= j
    BY <1>7, <1>12, <1>14
  <2>2. CASE j = i
    BY <1>6, <2>2
  <2>3. CASE InFlight(n, r, j)
    <3>1. a.attempt <= j /\ j \in 1 .. REQUEST_ATTEMPTS
      BY <1>1, <1>15, <2>3 DEF MadeBy, CopiedOnce
    <3>2. QED
      BY <1>6, <3>1, CountAssumption
  <2>4. QED
    BY <2>1, <2>2, <2>3
<1>18. \A p \in Node \ {n} : \A b : ~Asking(p, r, b)' /\ ~InFlight(p, r, b)'
  BY <1>5, <1>8 DEF MadeBy, Asking, InFlight, Sent, Kept, Wired
<1>19. Open(n, r)' \subseteq Open(n, r)
  <2>1. SUFFICES ASSUME NEW j \in 1 .. REQUEST_ATTEMPTS,
                        InFlight(n, r, j)' \/ \E b : Asking(n, r, b)' /\ j < b.attempt
                 PROVE  j \in Open(n, r)
    BY DEF Open
  <2>2. CASE InFlight(n, r, j)
    BY <2>2 DEF Open
  <2>3. CASE j <= i
    <3>1. j < a.attempt
      BY <1>6, <2>3
    <3>2. QED
      BY <1>1, <3>1 DEF Open
  <2>4. CASE \E b : Asking(n, r, b)' /\ j < b.attempt
    <3>1. j < i
      BY <1>7, <1>12, <2>4
    <3>2. j <= i
      BY <1>6, <3>1
    <3>3. QED
      BY <2>3, <3>2
  <2>5. QED
    BY <1>6, <1>14, <2>1, <2>2, <2>3, <2>4
<1>20. Cardinality(Throws(r)') + Cardinality(Open(n, r)') <= REQUEST_ATTEMPTS
  <2>1. Cardinality(Open(n, r)') <= Cardinality(Open(n, r)) /\ IsFiniteSet(Open(n, r)')
    BY <1>19, Finite, FS_Subset
  <2>2. Throws(r)' = Throws(r)
    BY <1>5 DEF Throws
  <2>3. /\ Cardinality(Throws(r)) \in Nat /\ Cardinality(Open(n, r)) \in Nat
        /\ Cardinality(Open(n, r)') \in Nat /\ REQUEST_ATTEMPTS \in Nat
    BY <2>1, Finite, FS_CardinalityType, CountAssumption
  <2>4. QED
    BY <2>1, <2>2, <2>3 DEF MadeBy
<1>21. QED
  BY <1>11, <1>16, <1>17, <1>18, <1>20 DEF MadeBy

(* The generator throws the dice for an attempt. *)
LEMMA Answered ==
  ASSUME TInv, NEW p \in Others(Gen), ReceiveRequest(Gen, p), NEW r \in DOMAIN kind,
         Head(wire[p][Gen]).of = r, NEW n \in Node, MadeBy(n, r)
  PROVE  MadeBy(n, r)'
<1>1. PICK q \in Seq(Message) : q = wire[p][Gen]
  BY Tables DEF Others
<1>2. p \in Node /\ q # <<>> /\ wire' = [wire EXCEPT ![p][Gen] = Tail(q)]
  BY <1>1 DEF Others, ReceiveRequest, Consume
<1>3. PICK i : i = Head(q).serial
  OBVIOUS
<1>4. Has(q, r, i) /\ Wired(p, r, i)
  <2>1. Has(q, r, i)
    BY <1>1, <1>2, <1>3, HasTail
  <2>2. QED
    BY <1>1, <2>1 DEF Wired
<1>5. p = n
  BY <1>2, <1>4 DEF MadeBy, InFlight
<1>6. /\ CopiedOnce(n, r) /\ AskedOnce(n, r) /\ i \in 1 .. REQUEST_ATTEMPTS
      /\ ~Sent(n, r, i) /\ ~Kept(n, r, i)
  BY <1>4, <1>5 DEF MadeBy, CopiedOnce, InFlight
<1>7. \A m \in Node : Keeps(m, r)
  BY KeepsRequest, Tables
<1>8. \A m \in Node : /\ AskedOnce(m, r)' /\ CopiedOnce(m, r)'
                      /\ \A a : Asking(m, r, a)' => Asking(m, r, a)
                      /\ \A j : InFlight(m, r, j)' => InFlight(m, r, j)
  BY <1>7, Nobody DEF Keeps, KeepsAsks, KeepsCopies
<1>9. ~InFlight(n, r, i)'
  <2>1. /\ sends'[n] = sends[n] \/ \A s \in sends'[n] : s \in sends[n] \/ s.to # Gen
        /\ queued' = queued
    <3>1. n # Gen
      BY <1>5 DEF Others
    <3>2. sends'[n] = sends[n]
      BY <3>1, Tables DEF ReceiveRequest, Throw
    <3>3. QED
      BY <3>2 DEF ReceiveRequest
  <2>2. ~Sent(n, r, i)' /\ ~Kept(n, r, i)'
    BY <1>6, <2>1 DEF Sent, ToGen, Kept
  <2>3. wire'[n][Gen] = Tail(q)
    BY <1>2, <1>5, Tables
  <2>4. ~Has(Tail(q), r, i)
    <3>1. Once(q, r)
      BY <1>1, <1>5, <1>6 DEF CopiedOnce
    <3>2. QED
      BY <1>1, <1>2, <1>3, <3>1, HasTail
  <2>5. ~Wired(n, r, i)'
    BY <2>3, <2>4 DEF Wired
  <2>6. QED
    BY <2>2, <2>5 DEF InFlight
<1>10. \A a : Asking(n, r, a) => a.attempt <= i
  BY <1>4, <1>5 DEF MadeBy, InFlight
<1>11. \A a : Asking(n, r, a) => ~(i < a.attempt)
  <2>1. SUFFICES ASSUME NEW a, Asking(n, r, a)
                 PROVE  ~(i < a.attempt)
    OBVIOUS
  <2>2. a \in Ask
    BY <2>1, Tables, Fields, <1>5, <1>2 DEF Asking
  <2>3. a.attempt \in Nat /\ i \in Nat /\ a.attempt <= i
    BY <1>6, <1>10, <2>1, <2>2, Fields, CountAssumption
  <2>4. QED
    BY <2>3
<1>12. Open(n, r)' \subseteq Open(n, r) \ {i} /\ i \in Open(n, r)
  <2>1. i \in Open(n, r)
    BY <1>4, <1>5, <1>6 DEF Open, InFlight
  <2>2. i \notin Open(n, r)'
    BY <1>8, <1>9, <1>11 DEF Open
  <2>3. Open(n, r)' \subseteq Open(n, r)
    BY <1>8 DEF Open
  <2>4. QED
    BY <2>1, <2>2, <2>3
<1>13. PICK t : t = Len(thrown) + 1
  OBVIOUS
<1>14. thrown' = Append(thrown, r) /\ thrown \in Seq(DOMAIN kind)
  BY TypeFacts DEF TInv, ReceiveRequest, Throw
<1>15. Throws(r)' = Throws(r) \cup {t} /\ t \notin Throws(r)
  <2>1. /\ DOMAIN thrown = 1 .. Len(thrown) /\ DOMAIN thrown' = 1 .. Len(thrown) + 1
        /\ Len(thrown) \in Nat /\ thrown'[Len(thrown) + 1] = r
        /\ \A u \in DOMAIN thrown : thrown'[u] = thrown[u]
    BY <1>14, Appended
  <2>2. DOMAIN thrown' = DOMAIN thrown \cup {t} /\ t \notin DOMAIN thrown
    BY <1>13, <2>1
  <2>3. QED
    BY <1>13, <2>1, <2>2 DEF Throws
<1>16. Cardinality(Throws(r)') + Cardinality(Open(n, r)') <= REQUEST_ATTEMPTS
  <2>1. /\ IsFiniteSet(Throws(r)) /\ Cardinality(Throws(r)) \in Nat
        /\ IsFiniteSet(Open(n, r)) /\ Cardinality(Open(n, r)) \in Nat
    BY Finite
  <2>2. Cardinality(Throws(r)') = Cardinality(Throws(r)) + 1
    BY <1>15, <2>1, FS_AddElement
  <2>3. /\ IsFiniteSet(Open(n, r) \ {i})
        /\ Cardinality(Open(n, r) \ {i}) = Cardinality(Open(n, r)) - 1
    BY <1>12, <2>1, FS_RemoveElement
  <2>4. /\ Cardinality(Open(n, r)') <= Cardinality(Open(n, r) \ {i})
        /\ IsFiniteSet(Open(n, r)')
    BY <1>12, <2>3, FS_Subset
  <2>5. Cardinality(Open(n, r)') \in Nat /\ REQUEST_ATTEMPTS \in Nat
    BY <2>4, FS_CardinalityType, CountAssumption
  <2>6. QED
    BY <2>1, <2>2, <2>3, <2>4, <2>5 DEF MadeBy
<1>17. QED
  BY <1>8, <1>16 DEF MadeBy

(* Nothing is thrown, or it is thrown for another request. *)
LEMMA ThrowsStay ==
  ASSUME TInv, NEW r \in DOMAIN kind,
         thrown' = thrown \/ \E about : about # r /\ thrown' = Append(thrown, about)
  PROVE  Throws(r)' = Throws(r)
<1>1. CASE thrown' = thrown
  BY <1>1 DEF Throws
<1>2. ASSUME NEW about, about # r, thrown' = Append(thrown, about)
      PROVE  Throws(r)' = Throws(r)
  <2>1. thrown \in Seq(Nat \cup {about})
    <3>1. thrown \in Seq(DOMAIN kind) /\ DOMAIN kind \subseteq Nat \cup {about}
      BY TypeFacts DEF TInv
    <3>2. QED
      BY <3>1
  <2>2. /\ DOMAIN thrown = 1 .. Len(thrown) /\ DOMAIN thrown' = 1 .. Len(thrown) + 1
        /\ Len(thrown) \in Nat /\ thrown'[Len(thrown) + 1] = about
        /\ \A u \in DOMAIN thrown : thrown'[u] = thrown[u]
    BY <1>2, <2>1, Appended
  <2>3. DOMAIN thrown' = DOMAIN thrown \cup {Len(thrown) + 1}
    BY <2>2
  <2>4. ASSUME NEW u \in DOMAIN thrown', thrown'[u] = r
        PROVE  u \in DOMAIN thrown /\ thrown[u] = r
    <3>1. PICK new, last : new = thrown' /\ last = Len(thrown) + 1
      OBVIOUS
    <3>2. u \in DOMAIN thrown \/ u = last
      BY <2>3, <2>4, <3>1
    <3>3. new[last] = about /\ new[u] = r
      BY <2>2, <2>4, <3>1
    <3>4. u # last
      BY <1>2, <3>3
    <3>5. QED
      BY <2>2, <2>4, <3>2, <3>4
  <2>5. \A u \in DOMAIN thrown : u \in DOMAIN thrown' /\ thrown'[u] = thrown[u]
    BY <2>2, <2>3
  <2>6. QED
    BY <2>4, <2>5 DEF Throws
<1>3. QED
  BY <1>1, <1>2

(* Nobody knows of a request that has not been made. *)
LEMMA Unheard ==
  ASSUME TInv, NEW r, r = Len(kind) + 1
  PROVE  /\ r \in Nat /\ r # 0 /\ r \notin DOMAIN kind
         /\ \A p \in Node : \A a : ~Asking(p, r, a) /\ ~InFlight(p, r, a)
         /\ \A p \in Node : \A s \in sends[p] : s.message.of # r /\ s.ask.of # r
         /\ \A p \in Node : \A a \in timers[p] : a.of # r
         /\ Throws(r) = {}
<1>1. /\ Len(kind) \in Nat /\ DOMAIN kind = 1 .. Len(kind) /\ thrown \in Seq(DOMAIN kind)
      /\ Gen \in Node
  BY TypeFacts, PlayersAssumption DEF TInv
<1>2. r \in Nat /\ r # 0 /\ r \notin DOMAIN kind
  BY <1>1
<1>3. NoAsk.of = 0
  BY Values
<1>4. /\ \A p \in Node : \A s \in sends[p] : s.message.of # r /\ s.ask.of # r
      /\ \A p \in Node : \A a \in timers[p] : a.of # r
      /\ \A p \in Node : \A k \in DOMAIN queued[p][Gen] : queued[p][Gen][k].of # r
      /\ \A p \in Node : \A k \in DOMAIN wire[p][Gen] : wire[p][Gen][k].of # r
  BY <1>1, <1>2, <1>3 DEF TInv, MessagesKnown, AllKnown, Known, AskKnown
<1>5. \A p \in Node : \A a : ~Asking(p, r, a) /\ ~InFlight(p, r, a)
  BY <1>4 DEF Asking, InFlight, Sent, ToGen, Kept, Wired, Has
<1>6. Throws(r) = {}
  BY <1>1, <1>2 DEF Throws
<1>7. QED
  BY <1>2, <1>4, <1>5, <1>6

(* A phone makes a request. *)
LEMMA NewRequest ==
  ASSUME TInv, NEW m \in Node, NEW k \in Kind, Cast(m, k), NEW r, r = Len(kind) + 1
  PROVE  MadeBy(m, r)'
<1>1. PICK i : i = REQUEST_ATTEMPTS
  OBVIOUS
<1>2. PICK ask, new : ask = AskFor(r, i) /\ new = Request(r, i)
  OBVIOUS
<1>3. /\ r \in Nat /\ r # 0 /\ i \in Nat \ {0} /\ Gen \in Node
      /\ ask \in Ask /\ ask.of = r /\ ask.attempt = i
      /\ new \in Message /\ new.of = r /\ new.serial = i /\ NoAsk \in Ask /\ NoAsk.of = 0
  <2>1. r \in Nat /\ r # 0 /\ Gen \in Node
    BY Unheard, PlayersAssumption
  <2>2. QED
    BY <1>1, <1>2, <2>1, FirstRequest, Values, CountAssumption
<1> DEFINE requests == {NewSend(p, new, IF p = Gen THEN ask ELSE NoAsk) : p \in Others(m)}
<1>4. \A p \in Others(m) :
         LET s == NewSend(p, new, IF p = Gen THEN ask ELSE NoAsk)
         IN s.to = p /\ s.message = new /\ s.ask = IF p = Gen THEN ask ELSE NoAsk
  <2>1. \A p \in Others(m) : p \in Node /\ (IF p = Gen THEN ask ELSE NoAsk) \in Ask
    BY <1>3 DEF Others
  <2>2. QED
    BY <1>3, <2>1, Values
<1>5. /\ kind' = Append(kind, k) /\ timers' = timers /\ queued' = queued /\ wire' = wire
      /\ \/ m = Gen /\ Throw(Gen, k, r, requests)
         \/ m # Gen /\ sends' = [sends EXCEPT ![m] = @ \cup requests] /\ thrown' = thrown
  BY <1>1, <1>2 DEF Cast
<1>6. \A s \in requests : /\ s.to = Gen => s.message = new /\ s.ask = ask
                          /\ s.to # Gen => s.ask = NoAsk
                          /\ s.to # m
                          /\ s = NewSend(s.to, new, IF s.to = Gen THEN ask ELSE NoAsk)
  BY <1>4 DEF Others
<1> HIDE DEF requests
<1>7. CASE m # Gen
  <2>1. /\ sends'[m] = sends[m] \cup requests /\ thrown' = thrown
        /\ \A p \in Node \ {m} : sends'[p] = sends[p]
    BY <1>5, <1>7, Tables
  <2>2. AskedOnce(m, r)'
    <3>1. \A s, u \in sends'[m] : s.ask.of = r /\ u.ask.of = r => s = u
      BY <1>3, <1>6, <2>1, Unheard
    <3>2. \A s \in timers'[m] : s.of # r
      BY <1>5, Unheard
    <3>3. QED
      BY <3>1, <3>2 DEF AskedOnce
  <2>3. \A a : Asking(m, r, a)' => a = ask
    BY <1>3, <1>5, <1>6, <2>1, Unheard DEF Asking
  <2>4. /\ \A s \in sends'[m] : ToGen(s, r) => s \in requests
        /\ \A j : ~Kept(m, r, j)' /\ ~Wired(m, r, j)'
        /\ \A j : ~Kept(m, r, j) /\ ~Wired(m, r, j)
    BY <1>5, <2>1, Unheard DEF ToGen, InFlight, Kept, Wired
  <2>5. \A j : InFlight(m, r, j)' => j = i
    BY <1>3, <1>6, <2>4 DEF InFlight, Sent, ToGen
  <2>6. CopiedOnce(m, r)'
    <3>1. \A s, u \in sends'[m] :
            ToGen(s, r) /\ ToGen(u, r) /\ s.message.serial = u.message.serial => s = u
      BY <1>6, <2>4 DEF ToGen
    <3>2. Once(queued'[m][Gen], r) /\ Once(wire'[m][Gen], r)
      BY <2>4 DEF Kept, Wired, Has, Once
    <3>3. \A j : InFlight(m, r, j)' => j \in 1 .. REQUEST_ATTEMPTS
      BY <1>1, <1>3, <2>5
    <3>4. QED
      BY <2>4, <3>1, <3>2, <3>3 DEF CopiedOnce
  <2>7. \A a, j : Asking(m, r, a)' /\ InFlight(m, r, j)' => a.attempt <= j
    BY <1>3, <2>3, <2>5
  <2>8. \A p \in Node \ {m} : \A a : ~Asking(p, r, a)' /\ ~InFlight(p, r, a)'
    <3>1. SUFFICES ASSUME NEW p \in Node \ {m}, NEW a
                   PROVE  ~Asking(p, r, a)' /\ ~InFlight(p, r, a)'
      OBVIOUS
    <3>2. ~Asking(p, r, a) /\ ~InFlight(p, r, a)
      BY Unheard
    <3>3. sends'[p] = sends[p] /\ timers' = timers /\ queued' = queued /\ wire' = wire
      BY <1>5, <2>1
    <3>4. QED
      BY <3>2, <3>3 DEF Asking, InFlight, Sent, Kept, Wired
  <2>9. Cardinality(Throws(r)') + Cardinality(Open(m, r)') <= REQUEST_ATTEMPTS
    <3>1. Throws(r)' = {}
      BY <2>1, Unheard DEF Throws
    <3>2. Open(m, r)' \subseteq 1 .. REQUEST_ATTEMPTS
      BY DEF Open
    <3>3. /\ IsFiniteSet(1 .. REQUEST_ATTEMPTS) /\ REQUEST_ATTEMPTS \in Nat
          /\ Cardinality(1 .. REQUEST_ATTEMPTS) = REQUEST_ATTEMPTS
      <4>1. REQUEST_ATTEMPTS \in Nat /\ REQUEST_ATTEMPTS \in Int /\ 1 \in Int /\ ~(1 > REQUEST_ATTEMPTS)
            /\ REQUEST_ATTEMPTS - 1 + 1 = REQUEST_ATTEMPTS
        BY CountAssumption
      <4>2. QED
        BY <4>1, FS_Interval
    <3>4. /\ Cardinality(Open(m, r)') <= REQUEST_ATTEMPTS
          /\ Cardinality(Open(m, r)') \in Nat
      BY <3>2, <3>3, FS_Subset, FS_CardinalityType
    <3>5. Cardinality(Throws(r)') = 0
      BY <3>1, FS_EmptySet
    <3>6. QED
      BY <3>3, <3>4, <3>5
  <2>10. QED
    BY <2>2, <2>6, <2>7, <2>8, <2>9 DEF MadeBy
<1>8. CASE m = Gen
  <2>1. /\ sends' = [sends EXCEPT ![Gen] = @ \cup requests \cup Responses(Gen, k, r, Len(thrown) + 1)]
        /\ thrown' = Append(thrown, r)
    BY <1>5, <1>8 DEF Throw
  <2>2. \A s \in Responses(Gen, k, r, Len(thrown) + 1) : s.to # Gen /\ s.ask = NoAsk
    <3>1. PICK t : t = Len(thrown) + 1
      OBVIOUS
    <3>2. t \in Nat
      <4>1. Len(thrown) \in Nat
        BY TypeFacts DEF TInv
      <4>2. QED
        BY <3>1, <4>1
    <3>3. \A p \in Others(Gen) : /\ NewSend(p, Response(r, t), NoAsk).to = p
                                 /\ NewSend(p, Response(r, t), NoAsk).ask = NoAsk
      BY <1>3, <3>2, Values DEF Others
    <3>4. QED
      BY <3>1, <3>3 DEF Responses, Others
  <2>3. /\ \A s \in sends'[Gen] : s \in sends[Gen] \/ (s.to # Gen /\ s.ask = NoAsk)
        /\ \A p \in Node \ {Gen} : sends'[p] = sends[p]
    BY <1>6, <1>8, <2>1, <2>2, Tables
  <2>4. \A p \in Node : \A a : ~Asking(p, r, a)' /\ ~InFlight(p, r, a)'
    <3>1. SUFFICES ASSUME NEW p \in Node, NEW a
                   PROVE  ~Asking(p, r, a)' /\ ~InFlight(p, r, a)'
      OBVIOUS
    <3>2. ~Asking(p, r, a) /\ ~InFlight(p, r, a)
      BY Unheard
    <3>3. \A s \in sends'[p] : s \in sends[p] \/ (s.to # Gen /\ s.ask.of # r)
      BY <1>3, <2>3
    <3>4. QED
      BY <1>5, <3>2, <3>3, Unheard DEF Asking, InFlight, Sent, ToGen, Kept, Wired
  <2>5. AskedOnce(m, r)' /\ CopiedOnce(m, r)'
    <3>1. \A j : ~Sent(m, r, j)' /\ ~Kept(m, r, j)' /\ ~Wired(m, r, j)'
      BY <2>4 DEF InFlight
    <3>2. CopiedOnce(m, r)'
      BY <2>4, <3>1 DEF CopiedOnce, Sent, Kept, Wired, Has, Once
    <3>3. AskedOnce(m, r)'
      BY <2>4 DEF AskedOnce, Asking
    <3>4. QED
      BY <3>2, <3>3
  <2>6. Open(m, r)' = {}
    BY <2>4 DEF Open
  <2>7. \E t : Throws(r)' = {t}
    <3>1. PICK t : t = Len(thrown) + 1
      OBVIOUS
    <3>2. thrown \in Seq(Nat)
      BY TypeFacts DEF TInv
    <3>3. /\ DOMAIN thrown = 1 .. Len(thrown) /\ DOMAIN thrown' = 1 .. Len(thrown) + 1
          /\ Len(thrown) \in Nat /\ thrown'[t] = r
          /\ \A u \in DOMAIN thrown : thrown'[u] = thrown[u]
      BY <1>3, <2>1, <3>1, <3>2, Appended
    <3>4. DOMAIN thrown' = DOMAIN thrown \cup {t}
      BY <3>1, <3>3
    <3>5. \A u \in DOMAIN thrown : thrown[u] # r
      BY Unheard DEF Throws
    <3>6. \A u \in DOMAIN thrown' : thrown'[u] = r <=> u = t
      BY <3>3, <3>4, <3>5
    <3>7. Throws(r)' = {t}
      BY <3>4, <3>6 DEF Throws
    <3>8. QED
      BY <3>7
  <2>8. Cardinality(Throws(r)') + Cardinality(Open(m, r)') <= REQUEST_ATTEMPTS
    <3>1. Cardinality(Throws(r)') = 1 /\ Cardinality(Open(m, r)') = 0
      BY <2>6, <2>7, FS_EmptySet, FS_Singleton
    <3>2. QED
      BY <3>1, CountAssumption
  <2>9. QED
    BY <2>4, <2>5, <2>8 DEF MadeBy
<1>9. QED
  BY <1>7, <1>8

(* What a step does to a request that was made before. *)
LEMMA RequestGoesOn ==
  ASSUME TInv, Next, NEW r \in DOMAIN kind, NEW n \in Node, MadeBy(n, r)
  PROVE  MadeBy(n, r)'
<1>1. PICK m \in Node :
        \/ \E k \in Kind : Cast(m, k)
        \/ \E s \in sends[m] : \/ SendSucceeds(m, s) \/ SendOrphaned(m, s)
                               \/ SendRefused(m, s) \/ SendBreaks(m, s)
        \/ \E a \in timers[m] : AskTimer(m, a)
        \/ \E p \in Others(m) : \/ ReceiveRequest(m, p) \/ ReceiveResponse(m, p)
                                \/ ReadFailure(m, p) \/ DeviceConnected(m, p)
        \/ \E t \in shown[m] : ResponseShown(m, t)
        \/ GameStopped(m) \/ Gone(m)
  BY Cases
<1>2. ASSUME NEW k \in Kind, Cast(m, k)
      PROVE  MadeBy(n, r)'
  <2>1. r # Len(kind) + 1
    BY Tables
  <2>2. thrown' = thrown \/ thrown' = Append(thrown, Len(kind) + 1)
    BY <1>2 DEF Cast, Throw
  <2>3. Throws(r)' = Throws(r)
    BY <2>1, <2>2, ThrowsStay
  <2>4. \A p \in Node : Keeps(p, r)
    BY <1>2, KeepsCast
  <2>5. QED
    BY <2>3, <2>4, OldRequest
<1>3. ASSUME NEW s \in sends[m],
             SendSucceeds(m, s) \/ SendOrphaned(m, s) \/ SendRefused(m, s) \/ SendBreaks(m, s)
      PROVE  MadeBy(n, r)'
  <2>1. \A p \in Node : Keeps(p, r)
    BY <1>3, KeepsSucceeds, KeepsOrphaned, KeepsRefused, KeepsBreaks
  <2>2. thrown' = thrown
    BY <1>3 DEF SendSucceeds, SendOrphaned, SendRefused, SendBreaks
  <2>3. QED
    BY <2>1, <2>2, ThrowsStay, OldRequest
<1>4. ASSUME NEW a \in timers[m], AskTimer(m, a)
      PROVE  MadeBy(n, r)'
  <2>1. CASE a.of = r /\ sends' # sends
    BY <1>4, <2>1, NextAttempt
  <2>2. CASE a.of # r \/ sends' = sends
    <3>1. \A p \in Node : Keeps(p, r)
      BY <1>4, <2>2, KeepsTimer
    <3>2. thrown' = thrown
      BY <1>4 DEF AskTimer
    <3>3. QED
      BY <3>1, <3>2, ThrowsStay, OldRequest
  <2>3. QED
    BY <2>1, <2>2
<1>5. ASSUME NEW p \in Others(m), ReceiveRequest(m, p)
      PROVE  MadeBy(n, r)'
  <2>1. CASE m = Gen /\ Head(wire[p][Gen]).of = r
    BY <1>5, <2>1, Answered
  <2>2. CASE ~(m = Gen /\ Head(wire[p][Gen]).of = r)
    <3>1. \/ thrown' = thrown
          \/ m = Gen /\ thrown' = Append(thrown, Head(wire[p][Gen]).of)
      BY <1>5 DEF ReceiveRequest, Throw
    <3>2. Throws(r)' = Throws(r)
      BY <2>2, <3>1, ThrowsStay
    <3>3. \A q \in Node : Keeps(q, r)
      BY <1>5, KeepsRequest
    <3>4. QED
      BY <3>2, <3>3, OldRequest
  <2>3. QED
    BY <2>1, <2>2
<1>6. ASSUME \/ \E p \in Others(m) : \/ ReceiveResponse(m, p) \/ ReadFailure(m, p)
                                     \/ DeviceConnected(m, p)
             \/ \E t \in shown[m] : ResponseShown(m, t)
             \/ GameStopped(m) \/ Gone(m)
      PROVE  MadeBy(n, r)'
  <2>1. \A p \in Node : Keeps(p, r)
    BY <1>6, KeepsEvents
  <2>2. thrown' = thrown
    BY <1>6 DEF ReceiveResponse, ReadFailure, DeviceConnected, ResponseShown, GameStopped, Gone
  <2>3. QED
    BY <2>1, <2>2, ThrowsStay, OldRequest
<1>7. QED
  BY <1>1, <1>2, <1>3, <1>4, <1>5, <1>6

LEMMA RequestStep == TInv /\ RequestInv /\ [Next]_vars => RequestInv'
<1>1. SUFFICES ASSUME TInv, RequestInv, [Next]_vars
               PROVE  RequestInv'
  OBVIOUS
<1>2. CASE UNCHANGED vars
  <2>1. SUFFICES ASSUME NEW r \in DOMAIN kind
                 PROVE  \E n \in Node : MadeBy(n, r)'
    BY <1>2 DEF vars, RequestInv
  <2>2. PICK n \in Node : MadeBy(n, r)
    BY <1>1 DEF RequestInv
  <2>3. /\ sends' = sends /\ timers' = timers /\ queued' = queued /\ wire' = wire
        /\ thrown' = thrown
    BY <1>2 DEF vars
  <2>4. \A p \in Node : Keeps(p, r)
    BY <1>1, <2>3, Fade
  <2>5. QED
    BY <1>1, <2>2, <2>3, <2>4, ThrowsStay, OldRequest
<1>3. CASE Next
  <2>1. SUFFICES ASSUME NEW r \in DOMAIN kind'
                 PROVE  \E n \in Node : MadeBy(n, r)'
    BY DEF RequestInv
  <2>2. CASE r \in DOMAIN kind
    <3>1. PICK n \in Node : MadeBy(n, r)
      BY <1>1, <2>2 DEF RequestInv
    <3>2. QED
      BY <1>1, <1>3, <2>2, <3>1, RequestGoesOn
  <2>3. CASE r \notin DOMAIN kind
    <3>1. PICK m \in Node, k \in Kind : Cast(m, k)
      <4>1. CASE kind' = kind
        BY <2>1, <2>3, <4>1
      <4>2. kind' = kind \/ \E m \in Node, k \in Kind : Cast(m, k)
        <5>1. PICK m \in Node :
                \/ \E k \in Kind : Cast(m, k)
                \/ \E s \in sends[m] : \/ SendSucceeds(m, s) \/ SendOrphaned(m, s)
                                       \/ SendRefused(m, s) \/ SendBreaks(m, s)
                \/ \E a \in timers[m] : AskTimer(m, a)
                \/ \E p \in Others(m) : \/ ReceiveRequest(m, p) \/ ReceiveResponse(m, p)
                                        \/ ReadFailure(m, p) \/ DeviceConnected(m, p)
                \/ \E t \in shown[m] : ResponseShown(m, t)
                \/ GameStopped(m) \/ Gone(m)
          BY <1>3, Cases
        <5>2. CASE \E k \in Kind : Cast(m, k)
          BY <5>2
        <5>3. CASE ~\E k \in Kind : Cast(m, k)
          BY <5>1, <5>3 DEF SendSucceeds, SendOrphaned, SendRefused, SendBreaks, AskTimer,
             ReceiveRequest, ReceiveResponse, ReadFailure, DeviceConnected, ResponseShown,
             GameStopped, Gone
        <5>4. QED
          BY <5>2, <5>3
      <4>3. QED
        BY <4>1, <4>2
    <3>2. r = Len(kind) + 1
      <4>1. kind' = Append(kind, k) /\ kind \in Seq(Kind)
        BY <1>1, <3>1, TypeFacts DEF Cast, TInv
      <4>2. /\ DOMAIN kind = 1 .. Len(kind) /\ DOMAIN kind' = 1 .. Len(kind) + 1
            /\ Len(kind) \in Nat
        BY <4>1, Appended
      <4>3. QED
        BY <2>1, <2>3, <4>2
    <3>3. MadeBy(m, r)'
      BY <1>1, <3>1, <3>2, NewRequest
    <3>4. QED
      BY <3>3
  <2>4. QED
    BY <2>2, <2>3
<1>4. QED
  BY <1>1, <1>2, <1>3

-----------------------------------------------------------------------------
(***************************************************************************)
(* The inductive invariant: what is known of messages and coroutines, the   *)
(* two memories of a request, the whereabouts of each throw, and the count  *)
(* of attempts that each request has left.                                  *)
(***************************************************************************)
IInv == TInv /\ RetryInv /\ AccountInv /\ RequestInv

LEMMA InitInvariant == Init => IInv
<1>1. SUFFICES ASSUME Init PROVE IInv
  OBVIOUS
<1>2. DOMAIN kind = {} /\ DOMAIN thrown = {}
  BY <1>1 DEF Init
<1>3. RetryInv
  BY <1>1 DEF Init, RetryInv
<1>4. AccountInv /\ RequestInv
  BY <1>2 DEF AccountInv, RequestInv
<1>5. QED
  BY <1>1, <1>3, <1>4, InitType DEF IInv

THEOREM InductiveInvariant == Spec => []IInv
<1>1. Init => IInv
  BY InitInvariant
<1>2. IInv /\ [Next]_vars => IInv'
  BY NextType, RetryStep, AccountStep, RequestStep DEF IInv
<1>3. QED
  BY <1>1, <1>2, PTL DEF Spec

(* Managers, coroutines, messages and queues keep the shape the code gives    *)
(* them, and never mention a request or a throw that was not made.            *)
THEOREM TypeCorrect == Spec => [](TypeOK /\ MessagesKnown)
<1>1. IInv => TypeOK /\ MessagesKnown
  BY DEF IInv, TInv
<1>2. QED
  BY <1>1, InductiveInvariant, PTL

(* SendRequestToGenerator retries what StatePlaying waits for, and nothing    *)
(* else; only a connection reported in the game makes it forget.              *)
THEOREM RetriesAsLongAsPending == Spec => []RetriesWhilePending
<1>1. IInv => RetriesWhilePending
  BY DEF IInv, TInv, RetryInv, RetriesWhilePending
<1>2. QED
  BY <1>1, InductiveInvariant, PTL

(* However messages are retried, queued, moved on and lost, the generator     *)
(* throws at most REQUEST_ATTEMPTS times for a request.                       *)
THEOREM ThrowsBounded == Spec => []ThrowsPerRequest
<1>1. ASSUME IInv
      PROVE  ThrowsPerRequest
  <2>1. SUFFICES ASSUME NEW r \in DOMAIN kind
                 PROVE  Cardinality({t \in DOMAIN thrown : thrown[t] = r}) <= REQUEST_ATTEMPTS
    BY DEF ThrowsPerRequest
  <2>2. PICK n \in Node : MadeBy(n, r)
    BY <1>1 DEF IInv, RequestInv
  <2>3. /\ Cardinality(Throws(r)) \in Nat /\ Cardinality(Open(n, r)) \in Nat
        /\ Cardinality(Throws(r)) + Cardinality(Open(n, r)) <= REQUEST_ATTEMPTS
        /\ REQUEST_ATTEMPTS \in Nat
    BY <1>1, <2>2, Finite, CountAssumption DEF IInv, MadeBy
  <2>4. Cardinality(Throws(r)) <= REQUEST_ATTEMPTS
    BY <2>3
  <2>5. QED
    BY <2>4 DEF Throws
<1>2. QED
  BY <1>1, InductiveInvariant, PTL

(* No throw whose result fits into a message is lost on the way from          *)
(* RemotePeerManager::Send to OnMessageReceived without Java having failed.   *)
THEOREM ThrowsAreAccountedFor == Spec => []ThrowsAccountedFor
<1>1. IInv => ThrowsAccountedFor
  BY DEF IInv, AccountInv, Accounted, Concerned, ThrowsAccountedFor
<1>2. QED
  BY <1>1, InductiveInvariant, PTL

=============================================================================
