------------------------------ MODULE Playing ------------------------------
(***************************************************************************)
(* StatePlaying (stateplaying.cpp): phones that have elected a generator    *)
(* request casts, the generator throws the dice for everybody, and the      *)
(* RemotePeerManager of each peer sends, retries and queues messages.       *)
(*                                                                         *)
(* Java is external: it carries out SendMessage commands in any order, each *)
(* answer is one action.  Messages are told apart by what they are about    *)
(* and a serial number the code does not have; dice results are serial      *)
(* numbers of throws.  Toasts and CloseConnection are left out.             *)
(***************************************************************************)
EXTENDS Naturals, Sequences, FiniteSets, SequencesExt

CONSTANTS
  Node,                  \* the phones
  Gen,                   \* the generator all of them obey
  Kind,                  \* casts, as far as Matches tells them apart
  Sendable,              \* those whose response fits into SendLongMessage
  Showable,              \* those whose response fits into ShowLongResponse
  NoRequest,             \* m_pendingRequest == nullptr
  REQUEST_ATTEMPTS,
  RETRY_COUNT,
  ROUNDS_PER_GENERATOR,
  Budget                 \* bound: requests of the users cost two, faults one each

ASSUME PlayersAssumption ==
  Gen \in Node /\ Sendable \subseteq Showable /\ Showable \subseteq Kind

ASSUME CountAssumption ==
  /\ REQUEST_ATTEMPTS \in Nat \ {0}
  /\ RETRY_COUNT \in Nat \ {0}
  /\ ROUNDS_PER_GENERATOR \in Nat \ {0}
  /\ Budget \in Nat
  /\ NoRequest \notin Nat

VARIABLES
  stage,      \* of the StatePlaying object: playing, leaving (switch queued), gone
  kind,       \* the casts requested so far; a request is an index
  pending,    \* m_pendingRequest of StatePlaying
  awaiting,   \* m_pendingRequest of the generator's manager
  sends,      \* coroutines Send with their SendMessage in Java
  timers,     \* coroutines SendRequestToGenerator in their one-second wait
  queued,     \* m_queuedMessages of each manager
  connected,  \* managers whose m_connected is set
  wire,       \* wire[p][n]: messages from p to n
  thrown,     \* the request each throw of the generator was made for
  shown,      \* throws for which ShowResponse was issued
  counted,    \* those that were answered OK; m_responseCount is their number
  dropped,    \* messages given up or lost, with their receiver
  faults,     \* failed sends, broken or unexpected connections so far
  reported    \* history: phones to which a connection was reported during the game

vars == <<stage, kind, pending, awaiting, sends, timers, queued, connected, wire,
          thrown, shown, counted, dropped, faults, reported>>

Stage   == {"playing", "leaving", "gone"}
Message == [type : {"request", "response"}, of : Nat, serial : Nat]
Ask     == [of : Nat, attempt : 0 .. REQUEST_ATTEMPTS]
Sending == [to : Node, message : Message, left : 1 .. RETRY_COUNT, ask : Ask]

Others(n) == Node \ {n}

Request(r, attempt) == [type |-> "request", of |-> r, serial |-> attempt]
Response(r, t)      == [type |-> "response", of |-> r, serial |-> t]

(* SendRequestToGenerator(r) before its "attempt"-th last attempt; 0 is a plain Send. *)
AskFor(r, attempt) == [of |-> r, attempt |-> attempt]
NoAsk == AskFor(0, 0)

NewSend(p, message, ask) ==
  [to |-> p, message |-> message, left |-> RETRY_COUNT, ask |-> ask]

Init ==
  /\ stage     = [n \in Node |-> "playing"]
  /\ kind      = <<>>
  /\ pending   = [n \in Node |-> NoRequest]
  /\ awaiting  = [n \in Node |-> FALSE]
  /\ sends     = [n \in Node |-> {}]
  /\ timers    = [n \in Node |-> {}]
  /\ queued    = [n \in Node |-> [p \in Node |-> <<>>]]
  /\ connected = [n \in Node |-> Others(n)]
  /\ wire      = [p \in Node |-> [n \in Node |-> <<>>]]
  /\ thrown    = <<>>
  /\ shown     = [n \in Node |-> {}]
  /\ counted   = [n \in Node |-> {}]
  /\ dropped   = {}
  /\ faults    = 0
  /\ reported  = {}

Spent == 2 * Len(kind) + faults

Alive(n) == stage[n] \in {"playing", "leaving"}

(* SwitchToState was called; the object lives on until the switch executes. *)
Leaving(n) == stage' = [stage EXCEPT ![n] = "leaving"]

-----------------------------------------------------------------------------
(* Casting                                                                   *)

(* Send of the response of throw t for a cast k to everybody. *)
Responses(n, k, r, t) ==
  IF k \in Sendable THEN {NewSend(p, Response(r, t), NoAsk) : p \in Others(n)} ELSE {}

(* GenerateResponse, SendResponse and ShowResponse; "requests" is sent along. *)
Throw(n, k, r, requests) ==
  LET t == Len(thrown) + 1
  IN /\ thrown' = Append(thrown, r)
     /\ sends'  = [sends EXCEPT ![n] = @ \cup requests \cup Responses(n, k, r, t)]
     /\ shown'  = [shown EXCEPT ![n] = IF k \in Showable THEN @ \cup {t} ELSE @]

(* OnCastRequest *)
Cast(n, k) ==
  LET r        == Len(kind) + 1
      ask      == AskFor(r, REQUEST_ATTEMPTS)
      requests == {NewSend(p, Request(r, REQUEST_ATTEMPTS),
                           IF p = Gen THEN ask ELSE NoAsk) : p \in Others(n)}
  IN /\ Alive(n) /\ Spent + 2 <= Budget
     /\ kind' = Append(kind, k)
     /\ \/ /\ n = Gen
           /\ Throw(n, k, r, requests)
           /\ UNCHANGED <<pending, awaiting>>
        \/ /\ n # Gen
           /\ sends'    = [sends EXCEPT ![n] = @ \cup requests]
           /\ pending'  = [pending EXCEPT ![n] = r]
           /\ awaiting' = [awaiting EXCEPT ![n] = TRUE]
           /\ UNCHANGED <<thrown, shown>>
     /\ UNCHANGED <<stage, timers, queued, connected, wire, counted, dropped,
                    faults, reported>>

-----------------------------------------------------------------------------
(* RemotePeerManager::Send, after Java answered its SendMessage              *)

(* The coroutine ends, or goes on in SendRequestToGenerator with the timer. *)
EndSend(n, s) ==
  /\ sends'  = [sends EXCEPT ![n] = @ \ {s}]
  /\ timers' = [timers EXCEPT ![n] = IF s.ask = NoAsk THEN @ ELSE @ \cup {s.ask}]

ContinueSend(n, s, next) ==
  /\ sends' = [sends EXCEPT ![n] = (@ \ {s}) \cup {next}]
  /\ UNCHANGED timers

(* The states after StatePlaying make nothing of requests and responses. *)
Deliver(n, s) ==
  wire' = IF Alive(s.to) THEN [wire EXCEPT ![n][s.to] = Append(@, s.message)] ELSE wire

(* OK: the message that was queued last goes next, by the same coroutine. *)
SendSucceeds(n, s) ==
  LET queue == queued[n][s.to]
  IN /\ Alive(n)
     /\ Deliver(n, s)
     /\ connected' = [connected EXCEPT ![n] = @ \cup {s.to}]
     /\ \/ queue = <<>> /\ EndSend(n, s) /\ UNCHANGED queued
        \/ /\ queue # <<>>
           /\ queued' = [queued EXCEPT ![n][s.to] = Front(@)]
           /\ ContinueSend(n, s, NewSend(s.to, Last(queue), s.ask))
     /\ UNCHANGED <<stage, kind, pending, awaiting, thrown, shown, counted, dropped,
                    faults, reported>>

(* INVALID_STATE or INTEROP_FAILURE: a message is dropped after RETRY_COUNT tries. *)
SendRefused(n, s) ==
  /\ Alive(n) /\ Spent < Budget /\ faults' = faults + 1
  /\ \/ /\ s.left > 1
        /\ ContinueSend(n, s, [s EXCEPT !.left = @ - 1])
        /\ UNCHANGED dropped
     \/ /\ s.left = 1
        /\ EndSend(n, s)
        /\ dropped' = dropped \cup {[to |-> s.to, message |-> s.message]}
  /\ UNCHANGED <<stage, kind, pending, awaiting, queued, connected, wire, thrown,
                 shown, counted, reported>>

(* Mutant: the message is not kept for later. *)
SendBreaksMutantForget(n, s) ==
  /\ Alive(n) /\ Spent < Budget /\ faults' = faults + 1
  /\ connected' = [connected EXCEPT ![n] = @ \ {s.to}]
  /\ EndSend(n, s)
  /\ IF s.to = Gen THEN Leaving(n) ELSE UNCHANGED stage
  /\ UNCHANGED <<kind, pending, awaiting, queued, wire, thrown, shown, counted,
                 dropped, reported>>

(* SOCKET_ERROR or CONNECTION_NOT_FOUND; the loss of the generator renegotiates. *)
SendBreaks(n, s) ==
  /\ Alive(n) /\ Spent < Budget /\ faults' = faults + 1
  /\ connected' = [connected EXCEPT ![n] = @ \ {s.to}]
  /\ queued' = [queued EXCEPT ![n][s.to] = Append(@, s.message)]
  /\ EndSend(n, s)
  /\ IF s.to = Gen THEN Leaving(n) ELSE UNCHANGED stage
  /\ UNCHANGED <<kind, pending, awaiting, wire, thrown, shown, counted, dropped, reported>>

(* Java carries out what a destroyed state had asked for. *)
SendOrphaned(n, s) ==
  /\ stage[n] = "gone"
  /\ sends' = [sends EXCEPT ![n] = @ \ {s}]
  /\ Deliver(n, s) \/ UNCHANGED wire
  /\ UNCHANGED <<stage, kind, pending, awaiting, timers, queued, connected, thrown,
                 shown, counted, dropped, faults, reported>>

(* Mutant: the retry does not look whether the answer has come. *)
AskTimerMutantBlind(n, a) ==
  /\ Alive(n) /\ a \in timers[n]
  /\ timers' = [timers EXCEPT ![n] = @ \ {a}]
  /\ LET next == AskFor(a.of, REQUEST_ATTEMPTS)
     IN sends' = [sends EXCEPT ![n] = @ \cup
          {NewSend(Gen, Request(a.of, REQUEST_ATTEMPTS), next)}]
  /\ UNCHANGED <<stage, kind, pending, awaiting, queued, connected, wire, thrown,
                 shown, counted, dropped, faults, reported>>

(* The one-second timer of SendRequestToGenerator. *)
AskTimer(n, a) ==
  LET next == AskFor(a.of, a.attempt - 1)
  IN /\ Alive(n) /\ a \in timers[n]
     /\ timers' = [timers EXCEPT ![n] = @ \ {a}]
     /\ \/ ~awaiting[n] /\ UNCHANGED <<sends, stage>>
        \/ /\ awaiting[n] /\ a.attempt > 1
           /\ sends' = [sends EXCEPT ![n] = @ \cup
                {NewSend(Gen, Request(a.of, a.attempt - 1), next)}]
           /\ UNCHANGED stage
        \/ awaiting[n] /\ a.attempt = 1 /\ Leaving(n) /\ UNCHANGED sends
     /\ UNCHANGED <<kind, pending, awaiting, queued, connected, wire, thrown, shown,
                    counted, dropped, faults, reported>>

-----------------------------------------------------------------------------
(* Reception                                                                 *)

(* OnReceptionSuccess of the manager of p, given m_pendingRequest afterwards. *)
ReceptionSuccess(n, p, stillPending) ==
  /\ connected' = [connected EXCEPT ![n] = @ \cup {p}]
  /\ awaiting'  = [awaiting EXCEPT ![n] = @ /\ (p = Gen => stillPending # NoRequest)]

Consume(n, p) == wire' = [wire EXCEPT ![p][n] = Tail(@)]

(* OnMessageReceived with a request. *)
ReceiveRequest(n, p) ==
  LET message == Head(wire[p][n])
  IN /\ Alive(n) /\ wire[p][n] # <<>> /\ message.type = "request"
     /\ Consume(n, p)
     /\ ReceptionSuccess(n, p, pending[n])
     /\ \/ n = Gen /\ Throw(n, kind[message.of], message.of, {})
        \/ n # Gen /\ UNCHANGED <<thrown, sends, shown>>
     /\ UNCHANGED <<stage, kind, pending, timers, queued, counted, dropped, faults, reported>>

(* Matches compares casts, not requests. *)
Matches(r, request) == request # NoRequest /\ kind[r] = kind[request]

(* Mutant: any response counts as the answer. *)
ReceiveResponseMutantAny(n, p) ==
  LET message == Head(wire[p][n])
      left    == IF Matches(message.of, pending[n]) THEN NoRequest ELSE pending[n]
  IN /\ Alive(n) /\ wire[p][n] # <<>> /\ message.type = "response" /\ p = Gen
     /\ Consume(n, p)
     /\ pending' = [pending EXCEPT ![n] = left]
     /\ ReceptionSuccess(n, p, NoRequest)
     /\ shown' = [shown EXCEPT ![n] = @ \cup {message.serial}]
     /\ UNCHANGED <<stage, kind, sends, timers, queued, thrown, counted, dropped,
                    faults, reported>>

(* OnMessageReceived with a response; those of the generator fit ShowResponse. *)
ReceiveResponse(n, p) ==
  LET message == Head(wire[p][n])
      left    == IF Matches(message.of, pending[n]) THEN NoRequest ELSE pending[n]
  IN /\ Alive(n) /\ wire[p][n] # <<>> /\ message.type = "response" /\ p = Gen
     /\ Consume(n, p)
     /\ pending' = [pending EXCEPT ![n] = left]
     /\ ReceptionSuccess(n, p, left)
     /\ shown' = [shown EXCEPT ![n] = @ \cup {message.serial}]
     /\ UNCHANGED <<stage, kind, sends, timers, queued, thrown, counted, dropped,
                    faults, reported>>

Receive(n, p) == ReceiveRequest(n, p) \/ ReceiveResponse(n, p)

(* Java answers ShowResponse; anything but OK stops the game. *)
ResponseShown(n, t) ==
  /\ Alive(n) /\ t \in shown[n] \ counted[n]
  /\ \/ /\ counted' = [counted EXCEPT ![n] = @ \cup {t}]
        /\ IF Cardinality(counted[n]) + 1 >= ROUNDS_PER_GENERATOR
           THEN Leaving(n) ELSE UNCHANGED stage
     \/ Leaving(n) /\ UNCHANGED counted
  /\ UNCHANGED <<kind, pending, awaiting, sends, timers, queued, connected, wire,
                 thrown, shown, dropped, faults, reported>>

-----------------------------------------------------------------------------
(* Events that break or end the game                                         *)

(* OnSocketReadFailure; what was on its way is lost. *)
ReadFailure(n, p) ==
  /\ Alive(n) /\ Spent < Budget /\ faults' = faults + 1
  /\ connected' = [connected EXCEPT ![n] = @ \ {p}]
  /\ dropped' = dropped \cup
       {[to |-> n, message |-> wire[p][n][k]] : k \in DOMAIN wire[p][n]}
  /\ wire' = [wire EXCEPT ![p][n] = <<>>]
  /\ IF p = Gen THEN Leaving(n) ELSE UNCHANGED stage
  /\ UNCHANGED <<kind, pending, awaiting, sends, timers, queued, thrown, shown,
                 counted, reported>>

(* OnDeviceConnected: the comment in the code doubts that it is reported here. *)
DeviceConnected(n, p) ==
  /\ Alive(n) /\ Spent < Budget /\ faults' = faults + 1
  /\ ReceptionSuccess(n, p, NoRequest)
  /\ reported' = reported \cup {n}
  /\ UNCHANGED <<stage, kind, pending, sends, timers, queued, wire, thrown, shown,
                 counted, dropped>>

(* OnGameStopped, OnBluetoothOff *)
GameStopped(n) ==
  /\ stage[n] = "playing" /\ Leaving(n)
  /\ UNCHANGED <<kind, pending, awaiting, sends, timers, queued, connected, wire,
                 thrown, shown, counted, dropped, faults, reported>>

(***************************************************************************)
(* The object is destroyed by the switch with all it holds; its coroutines  *)
(* are canceled, what Java was asked to send may still arrive.  An offer    *)
(* clears the managers before the switch, which comes to the same.          *)
(***************************************************************************)
Gone(n) ==
  /\ Alive(n)
  /\ stage'     = [stage EXCEPT ![n] = "gone"]
  /\ pending'   = [pending EXCEPT ![n] = NoRequest]
  /\ awaiting'  = [awaiting EXCEPT ![n] = FALSE]
  /\ timers'    = [timers EXCEPT ![n] = {}]
  /\ queued'    = [queued EXCEPT ![n] = [p \in Node |-> <<>>]]
  /\ connected' = [connected EXCEPT ![n] = {}]
  /\ wire'      = [p \in Node |-> [wire[p] EXCEPT ![n] = <<>>]]
  /\ shown'     = [shown EXCEPT ![n] = {}]
  /\ counted'   = [counted EXCEPT ![n] = {}]
  /\ UNCHANGED <<kind, sends, thrown, dropped, faults, reported>>

SendStep(n, s) == SendSucceeds(n, s) \/ SendOrphaned(n, s)

Play(n) ==
  \/ \E k \in Kind : Cast(n, k)
  \/ \E s \in sends[n] : SendStep(n, s)
  \/ \E a \in timers[n] : AskTimer(n, a)
  \/ \E p \in Others(n) : Receive(n, p)
  \/ \E t \in shown[n] : ResponseShown(n, t)
  \/ GameStopped(n) \/ Gone(n)

Fault(n) ==
  \/ \E s \in sends[n] : SendRefused(n, s) \/ SendBreaks(n, s)
  \/ \E p \in Others(n) : ReadFailure(n, p) \/ DeviceConnected(n, p)

Next == \E n \in Node : Play(n) \/ Fault(n)
Spec == Init /\ [][Next]_vars

(* Java answers every SendMessage, and timers fire. *)
Fairness ==
  \A n \in Node :
    /\ WF_vars(\E s \in sends[n] :
         SendStep(n, s) \/ SendRefused(n, s) \/ SendBreaks(n, s))
    /\ WF_vars(\E a \in timers[n] : AskTimer(n, a))

FairSpec == Spec /\ Fairness

-----------------------------------------------------------------------------
(* Managers, coroutines and messages have the shape the code gives them. *)
TypeOK ==
  /\ stage \in [Node -> Stage]
  /\ kind \in Seq(Kind)
  /\ pending \in [Node -> DOMAIN kind \cup {NoRequest}]
  /\ awaiting \in [Node -> BOOLEAN]
  /\ sends \in [Node -> SUBSET Sending]
  /\ timers \in [Node -> SUBSET Ask]
  /\ queued \in [Node -> [Node -> Seq(Message)]]
  /\ connected \in [Node -> SUBSET Node]
  /\ wire \in [Node -> [Node -> Seq(Message)]]
  /\ thrown \in Seq(DOMAIN kind)
  /\ shown \in [Node -> SUBSET DOMAIN thrown]
  /\ counted \in [Node -> SUBSET DOMAIN thrown]
  /\ dropped \subseteq [to : Node, message : Message]
  /\ faults \in 0 .. Budget
  /\ reported \subseteq Node

(***************************************************************************)
(* The phone remembers an unanswered request twice: StatePlaying to match   *)
(* responses, the generator's manager to go on retrying.  The manager never  *)
(* retries what has been answered, whoever else casts the same dice, and    *)
(* forgets an open request only when a connection is reported in the game.  *)
(***************************************************************************)
RetriesWhilePending ==
  /\ TypeOK
  /\ \A n \in Node \ {Gen} :
       /\ awaiting[n] => pending[n] # NoRequest
       /\ pending[n] # NoRequest => awaiting[n] \/ n \in reported

(***************************************************************************)
(* Retries are not told apart from requests, so the generator may throw     *)
(* more than once for one request; never more often than the requester      *)
(* attempts, even if messages were queued after a failure and sent later.   *)
(***************************************************************************)
ThrowsPerRequest ==
  \A r \in DOMAIN kind :
    Cardinality({t \in DOMAIN thrown : thrown[t] = r}) <= REQUEST_ATTEMPTS

(***************************************************************************)
(* A throw that fits into a message reaches every phone, or it is still on  *)
(* its way, being sent or queued behind a failed Send, unless Java refused  *)
(* it RETRY_COUNT times or lost it with its connection, or a side left.     *)
(***************************************************************************)
ThrowsAccountedFor ==
  \A t \in DOMAIN thrown, n \in Node \ {Gen} :
    LET response == Response(thrown[t], t)
    IN kind[thrown[t]] \in Sendable /\ Alive(Gen) /\ Alive(n) =>
         \/ t \in shown[n]
         \/ \E k \in DOMAIN wire[Gen][n] : wire[Gen][n][k] = response
         \/ \E s \in sends[Gen] : s.to = n /\ s.message = response
         \/ \E k \in DOMAIN queued[Gen][n] : queued[Gen][n][k] = response
         \/ [to |-> n, message |-> response] \in dropped

(***************************************************************************)
(* A request does not hang: it is answered, or the phone stops waiting for  *)
(* this generator (renegotiates or leaves); only a connection reported in   *)
(* the middle of the game can make the phone forget to ask again.           *)
(***************************************************************************)
RequestResolved ==
  \A n \in Node :
    pending[n] # NoRequest ~>
      (pending[n] = NoRequest \/ stage[n] # "playing" \/ n \in reported)

=============================================================================
