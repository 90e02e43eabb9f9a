---------------------------- MODULE Negotiation ----------------------------
(***************************************************************************)
(* The negotiation of the dice generator between phones: StateNegotiating  *)
(* of every phone (statenegotiating.cpp), the part of StatePlaying that     *)
(* leads into and out of a negotiation (stateplaying.cpp), and the deferred *)
(* state switches of fsm::Context (context.hpp).                            *)
(*                                                                         *)
(* A phone is named by its Bluetooth MAC.  A socket between two phones is a *)
(* pair of FIFO wires.  The UI commands of these states carry no state and  *)
(* are left out; SendMessage puts an offer on a wire, CloseConnection and   *)
(* ResetConnections break links.                                            *)
(***************************************************************************)
EXTENDS Naturals, Sequences, FiniteSets

CONSTANTS
  Node,          \* the MACs of the phones; their order is the key order of std::map
  NoMac,         \* the empty string in dice::Offer{"", 0U}
  FirstRounds,   \* the values earlier games may have left in g_negotiationRound
  MaxRound,      \* bound: no renegotiation is requested that would pass this round
  MaxInFlight,   \* bound: offers in flight on one wire
  MaxSwitches,   \* bound: queued SwitchToState tasks of one phone
  MayLeave,      \* bound: the phones that may leave the game
  MayBreak       \* bound: the links that may break by themselves

ASSUME NodeAssumption ==
  /\ Node \subseteq Nat
  /\ IsFiniteSet(Node)
  /\ NoMac \in Nat \ Node

ASSUME BoundAssumption ==
  /\ FirstRounds \subseteq Nat
  /\ MaxRound \in Nat
  /\ MaxInFlight \in Nat
  /\ MaxSwitches \in Nat
  /\ MayLeave \subseteq Node
  /\ MayBreak \subseteq SUBSET Node

VARIABLES
  phase,      \* the type of the object in fsm::Context::stateHolder
  switches,   \* SwitchToState tasks waiting for their zero-delay timer, in order
  round,      \* g_negotiationRound, a global that outlives the states
  loop,       \* where the coroutine StartNegotiation is
  peers,      \* m_peers, or the keys of m_managers in StatePlaying
  connected,  \* the managers whose m_connected is set
  offers,     \* m_offers
  generator,  \* generatorMac of StatePlaying
  ignoring,   \* m_ignoreOffers has not finished
  failing,    \* receivers whose SendOffer failed and has not erased them yet
  wire,       \* wire[p][n]: offers on their way from p to n
  linked      \* the unordered pairs of phones with a working socket

vars == <<phase, switches, round, loop, peers, connected, offers, generator,
          ignoring, failing, wire, linked>>

Phase  == {"connecting", "negotiating", "playing", "idle"}
Loop   == {"none", "asked", "running", "done", "stuck"}
Mac    == Node \cup {NoMac}
Offer  == [round : Nat, mac : Mac]
Switch == [to : Phase, peers : SUBSET Node, mac : Mac, offer : Offer]

IsOfferMap(f) == DOMAIN f \subseteq Node /\ f \in [DOMAIN f -> Offer]

Blank    == [round |-> 0, mac |-> NoMac]
NoOffers == [m \in {} |-> Blank]

Others(n)  == Node \ {n}
Link(n, p) == {n, p}
AllLinks   == {Link(n, p) : n \in Node, p \in Node} \ {{n} : n \in Node}

(***************************************************************************)
(* The key at position r % |S| of a map whose keys are S.                   *)
(***************************************************************************)
Rank(m, S)    == Cardinality({x \in S : x < m})
Nominee(r, S) == CHOOSE m \in S : Rank(m, S) = r % Cardinality(S)

(***************************************************************************)
(* The three arguments of SwitchToState that occur here.                    *)
(***************************************************************************)
ToPlaying(S, mac) ==
  [to |-> "playing", peers |-> S, mac |-> mac, offer |-> Blank]
ToNegotiating(S, sender, offer) ==
  [to |-> "negotiating", peers |-> S, mac |-> sender, offer |-> offer]
ToIdle == [to |-> "idle", peers |-> {}, mac |-> NoMac, offer |-> Blank]

Queue(n, sw) == switches' = [switches EXCEPT ![n] = Append(@, sw)]
RoomFor(n)   == Len(switches[n]) < MaxSwitches
Queued(n, to) == {k \in DOMAIN switches[n] : switches[n][k].to = to}

CanRestart(n) ==
  RoomFor(n) /\ round[n] + Cardinality(Queued(n, "negotiating")) < MaxRound

Init ==
  /\ phase     = [n \in Node |-> "connecting"]
  /\ switches  = [n \in Node |-> <<>>]
  /\ round     \in [Node -> FirstRounds]
  /\ loop      = [n \in Node |-> "none"]
  /\ peers     = [n \in Node |-> {}]
  /\ connected = [n \in Node |-> {}]
  /\ offers    = [n \in Node |-> NoOffers]
  /\ generator = [n \in Node |-> NoMac]
  /\ ignoring  = [n \in Node |-> FALSE]
  /\ failing   = [n \in Node |-> {}]
  /\ wire      = [p \in Node |-> [n \in Node |-> <<>>]]
  /\ linked    = AllLinks

-----------------------------------------------------------------------------
(* Construction of a state.  The object replaced is destroyed, which cancels *)
(* its tasks: a SendOffer that failed no longer erases anything.             *)

(* The members of a new StateNegotiating. *)
BeginNegotiation(n, S, r, known) ==
  /\ phase' = [phase EXCEPT ![n] = "negotiating"]
  /\ round' = [round EXCEPT ![n] = r]
  /\ loop'  = [loop EXCEPT ![n] = "asked"]
  /\ peers' = [peers EXCEPT ![n] = S]
  /\ offers' = [offers EXCEPT ![n] = known]
  /\ connected' = [connected EXCEPT ![n] = {}]
  /\ failing'   = [failing EXCEPT ![n] = {}]
  /\ generator' = [generator EXCEPT ![n] = NoMac]
  /\ ignoring'  = [ignoring EXCEPT ![n] = FALSE]

(* Mutant: the second constructor, which stores the sender's offer, serves   *)
(* both cases.                                                               *)
EnterNegotiatingMutantSender(n, S, sender, offer) ==
  LET r    == round[n] + 1
      own  == [round |-> r, mac |-> Nominee(r, S \cup {n})]
  IN BeginNegotiation(n, S, r,
       [m \in S \cup {n, sender} |-> IF m = n THEN own
                                     ELSE IF m = sender THEN offer ELSE Blank])

(* Mutant: the round is not incremented when a game renegotiates. *)
EnterNegotiatingMutantRound(n, S, sender, offer) ==
  LET r    == IF phase[n] = "playing" THEN round[n] ELSE round[n] + 1
      own  == [round |-> r, mac |-> Nominee(r, S \cup {n})]
  IN BeginNegotiation(n, S, r,
       [m \in S \cup {n} |-> IF m = n THEN own
                             ELSE IF m = sender THEN offer ELSE Blank])

EnterNegotiating(n, S, sender, offer) ==
  LET r    == round[n] + 1
      own  == [round |-> r, mac |-> Nominee(r, S \cup {n})]
  IN BeginNegotiation(n, S, r,
       [m \in S \cup {n} |-> IF m = n THEN own
                             ELSE IF m = sender THEN offer ELSE Blank])

EnterPlaying(n, S, mac) ==
  /\ phase'     = [phase EXCEPT ![n] = "playing"]
  /\ loop'      = [loop EXCEPT ![n] = "none"]
  /\ peers'     = [peers EXCEPT ![n] = S]
  /\ connected' = [connected EXCEPT ![n] = S]
  /\ offers'    = [offers EXCEPT ![n] = NoOffers]
  /\ generator' = [generator EXCEPT ![n] = mac]
  /\ ignoring'  = [ignoring EXCEPT ![n] = TRUE]
  /\ failing'   = [failing EXCEPT ![n] = {}]
  /\ UNCHANGED round

EnterIdle(n) ==
  /\ phase'     = [phase EXCEPT ![n] = "idle"]
  /\ loop'      = [loop EXCEPT ![n] = "none"]
  /\ peers'     = [peers EXCEPT ![n] = {}]
  /\ connected' = [connected EXCEPT ![n] = {}]
  /\ offers'    = [offers EXCEPT ![n] = NoOffers]
  /\ failing'   = [failing EXCEPT ![n] = {}]
  /\ generator' = [generator EXCEPT ![n] = NoMac]
  /\ ignoring'  = [ignoring EXCEPT ![n] = FALSE]
  /\ UNCHANGED round

(***************************************************************************)
(* SwitchToState after its timer: a switch to the type of the current state *)
(* is dropped with its arguments, any other replaces the state.             *)
(***************************************************************************)
ExecuteSwitch(n) ==
  /\ switches[n] # <<>>
  /\ switches' = [switches EXCEPT ![n] = Tail(@)]
  /\ LET sw == Head(switches[n])
     IN \/ /\ sw.to = phase[n]
           /\ UNCHANGED <<phase, round, loop, peers, connected, offers,
                          generator, ignoring, failing>>
        \/ /\ sw.to # phase[n]
           /\ \/ sw.to = "negotiating"
                 /\ EnterNegotiating(n, sw.peers, sw.mac, sw.offer)
              \/ sw.to = "playing" /\ EnterPlaying(n, sw.peers, sw.mac)
              \/ sw.to = "idle" /\ EnterIdle(n)
  /\ UNCHANGED <<wire, linked>>

(***************************************************************************)
(* OnConnectivityEstablished in StateConnecting, once the local MAC is      *)
(* known: the negotiation starts with the phones connected so far.  Phones  *)
(* start at different times; offers reaching one that has not are dropped.  *)
(***************************************************************************)
StartGame(n) ==
  /\ phase[n] = "connecting"
  /\ EnterNegotiating(n, {p \in Others(n) : Link(n, p) \in linked}, NoMac, Blank)
  /\ UNCHANGED <<switches, wire, linked>>

-----------------------------------------------------------------------------
(* StateNegotiating                                                          *)

(* Mutant: a peer that has not answered yet counts as agreeing. *)
AllOffersEqualMutantSilent(n) ==
  \A m \in DOMAIN offers[n] : offers[n][m] \in {offers[n][n], Blank}

AllOffersEqual(n) ==
  \A m \in DOMAIN offers[n] : offers[n][m] = offers[n][n]

(* Mutant: the rounds of the peers are not adopted. *)
MaxOfferRoundMutantOwn(n) == round[n]

MaxOfferRound(n) ==
  LET rounds == {offers[n][m].round : m \in DOMAIN offers[n]} \cup {round[n]}
  IN CHOOSE r \in rounds : \A s \in rounds : s <= r

(***************************************************************************)
(* The branch of UpdateAndBroadcastOffer that ends it.  m_peers and the     *)
(* local MAC are moved into the switch, so until the switch executes the    *)
(* state knows no peer.                                                     *)
(***************************************************************************)
Agree(n) ==
  /\ AllOffersEqual(n)
  /\ RoomFor(n)
  /\ Queue(n, ToPlaying(peers[n], offers[n][n].mac))
  /\ peers' = [peers EXCEPT ![n] = {}]
  /\ loop'  = [loop EXCEPT ![n] = "done"]
  /\ UNCHANGED <<phase, round, connected, offers, generator, ignoring, failing,
                 wire, linked>>

(***************************************************************************)
(* The branch that adopts the highest round seen, recomputes the local      *)
(* offer and sends it to every peer.  A SendMessage over a broken link      *)
(* fails; those in "lost" are refused by Java with INVALID_STATE, which     *)
(* SendOffer ignores.                                                       *)
(***************************************************************************)
Broadcast(n, lost) ==
  LET r         == MaxOfferRound(n)
      offer     == [round |-> r, mac |-> Nominee(r, DOMAIN offers[n])]
      reachable == {p \in peers[n] : Link(n, p) \in linked}
      delivered == reachable \ lost
  IN /\ ~AllOffersEqual(n)
     /\ \A p \in delivered : Len(wire[n][p]) < MaxInFlight
     /\ round'  = [round EXCEPT ![n] = r]
     /\ offers' = [offers EXCEPT ![n][n] = offer]
     /\ wire'   = [wire EXCEPT ![n] =
          [p \in Node |-> IF p \in delivered THEN Append(wire[n][p], offer)
                                             ELSE wire[n][p]]]
     /\ failing' = [failing EXCEPT ![n] = @ \cup (peers[n] \ reachable)]
     /\ loop'    = [loop EXCEPT ![n] = "running"]
     /\ UNCHANGED <<phase, switches, peers, connected, generator, ignoring, linked>>

(***************************************************************************)
(* Java answers NegotiationStart; the first pass over the offers follows in *)
(* the same handler.  The answer to a command is posted behind the switches *)
(* that were queued when the state was constructed.                         *)
(***************************************************************************)
NegotiationStarted(n, lost) ==
  /\ phase[n] = "negotiating" /\ loop[n] = "asked"
  /\ Queued(n, "negotiating") = {}
  /\ Agree(n) \/ Broadcast(n, lost)

(* Any other answer is only logged: the coroutine ends. *)
NegotiationRefused(n) ==
  /\ phase[n] = "negotiating" /\ loop[n] = "asked"
  /\ Queued(n, "negotiating") = {}
  /\ loop' = [loop EXCEPT ![n] = "stuck"]
  /\ UNCHANGED <<phase, switches, round, peers, connected, offers, generator,
                 ignoring, failing, wire, linked>>

(* The one-second timer of the loop. *)
LoopTimer(n, lost) ==
  /\ phase[n] = "negotiating" /\ loop[n] = "running"
  /\ Agree(n) \/ Broadcast(n, lost)

(* Mutant: the offer of the lost peer is kept. *)
SendFailedMutantKeep(n, p) ==
  /\ phase[n] = "negotiating" /\ p \in failing[n]
  /\ failing' = [failing EXCEPT ![n] = @ \ {p}]
  /\ peers'   = [peers EXCEPT ![n] = @ \ {p}]
  /\ UNCHANGED <<phase, switches, round, loop, connected, offers, generator,
                 ignoring, wire, linked>>

(***************************************************************************)
(* SendOffer after SOCKET_ERROR (when DisconnectDevice is done) or          *)
(* CONNECTION_NOT_FOUND.                                                    *)
(***************************************************************************)
SendFailed(n, p) ==
  /\ phase[n] = "negotiating" /\ p \in failing[n]
  /\ failing' = [failing EXCEPT ![n] = @ \ {p}]
  /\ peers'   = [peers EXCEPT ![n] = @ \ {p}]
  /\ offers'  = [offers EXCEPT ![n] =
       [m \in DOMAIN offers[n] \ {p} |-> offers[n][m]]]
  /\ UNCHANGED <<phase, switches, round, loop, connected, generator, ignoring,
                 wire, linked>>

-----------------------------------------------------------------------------
(* Events: a message, a failing socket, a renegotiation, a departure.        *)

ConsumeFrom(p, n) == wire' = [wire EXCEPT ![p][n] = Tail(@)]

(* OnMessageReceived of StateNegotiating: the latest offer of a peer counts. *)
ReceiveOffer(n, p) ==
  /\ phase[n] = "negotiating" /\ wire[p][n] # <<>>
  /\ ConsumeFrom(p, n)
  /\ IF p \in peers[n]
     THEN offers' = [offers EXCEPT ![n][p] = Head(wire[p][n])]
     ELSE UNCHANGED offers
  /\ UNCHANGED <<phase, switches, round, loop, peers, connected, generator,
                 ignoring, failing, linked>>

(***************************************************************************)
(* OnMessageReceived of StatePlaying with an offer of a known peer, after   *)
(* the first ten seconds: StartNegotiationWithOffer, which also clears the  *)
(* managers.                                                                *)
(***************************************************************************)
RejoinNegotiation(n, p) ==
  /\ phase[n] = "playing" /\ wire[p][n] # <<>>
  /\ p \in peers[n] /\ ~ignoring[n] /\ CanRestart(n)
  /\ ConsumeFrom(p, n)
  /\ Queue(n, ToNegotiating(connected[n] \cup {p}, p, Head(wire[p][n])))
  /\ peers'     = [peers EXCEPT ![n] = {}]
  /\ connected' = [connected EXCEPT ![n] = {}]
  /\ UNCHANGED <<phase, round, loop, offers, generator, ignoring, failing, linked>>

(* The same handler while offers are ignored, or for an unknown sender. *)
IgnoreOffer(n, p) ==
  /\ phase[n] = "playing" /\ wire[p][n] # <<>>
  /\ p \in peers[n] => ignoring[n]
  /\ ConsumeFrom(p, n)
  /\ connected' = [connected EXCEPT ![n] = @ \cup ({p} \cap peers[n])]
  /\ UNCHANGED <<phase, switches, round, loop, peers, offers, generator,
                 ignoring, failing, linked>>

(* StateConnecting expects a Hello, StateIdle and no state expect nothing. *)
DropOffer(n, p) ==
  /\ phase[n] \in {"connecting", "idle"} /\ wire[p][n] # <<>>
  /\ ConsumeFrom(p, n)
  /\ UNCHANGED <<phase, switches, round, loop, peers, connected, offers,
                 generator, ignoring, failing, linked>>

Receive(n, p) ==
  ReceiveOffer(n, p) \/ RejoinNegotiation(n, p) \/ IgnoreOffer(n, p) \/ DropOffer(n, p)

(* m_ignoreOffers finishes. *)
IgnoreOver(n) ==
  /\ phase[n] = "playing" /\ ignoring[n]
  /\ ignoring' = [ignoring EXCEPT ![n] = FALSE]
  /\ UNCHANGED <<phase, switches, round, loop, peers, connected, offers,
                 generator, failing, wire, linked>>

(***************************************************************************)
(* StartNegotiation of StatePlaying: the tenth response was shown, or three *)
(* requests to the generator went unanswered.                               *)
(***************************************************************************)
Renegotiate(n) ==
  /\ phase[n] = "playing" /\ CanRestart(n)
  /\ Queue(n, ToNegotiating(connected[n], NoMac, Blank))
  /\ UNCHANGED <<phase, round, loop, peers, connected, offers, generator,
                 ignoring, failing, wire, linked>>

(***************************************************************************)
(* OnSocketReadFailure of StateNegotiating.  What the other end had still   *)
(* on its way is lost.                                                      *)
(***************************************************************************)
ReadFailureNegotiating(n, p) ==
  /\ phase[n] = "negotiating" /\ p \in peers[n] /\ Link(n, p) \notin linked
  /\ peers'  = [peers EXCEPT ![n] = @ \ {p}]
  /\ offers' = [offers EXCEPT ![n] =
       [m \in DOMAIN offers[n] \ {p} |-> offers[n][m]]]
  /\ wire'   = [wire EXCEPT ![p][n] = <<>>]
  /\ UNCHANGED <<phase, switches, round, loop, connected, generator, ignoring,
                 failing, linked>>

(***************************************************************************)
(* OnReceptionFailure of a manager of StatePlaying, or its Send failing, in *)
(* which case offers may still arrive.  The loss of the generator starts a  *)
(* negotiation among those left.                                            *)
(***************************************************************************)
ReadFailurePlaying(n, p) ==
  /\ phase[n] = "playing" /\ p \in peers[n] /\ Link(n, p) \notin linked
  /\ connected' = [connected EXCEPT ![n] = @ \ {p}]
  /\ wire' = [wire EXCEPT ![p][n] = <<>>] \/ UNCHANGED wire
  /\ IF p = generator[n]
     THEN CanRestart(n) /\ Queue(n, ToNegotiating(connected[n] \ {p}, NoMac, Blank))
     ELSE UNCHANGED switches
  /\ UNCHANGED <<phase, round, loop, peers, offers, generator, ignoring, failing,
                 linked>>

ReadFailure(n, p) == ReadFailureNegotiating(n, p) \/ ReadFailurePlaying(n, p)

-----------------------------------------------------------------------------
(* What the environment may do wrong.                                        *)

(* OnGameStopped or OnBluetoothOff: ResetConnections closes every socket. *)
StopGame(n) ==
  /\ phase[n] \in {"negotiating", "playing"}
  /\ n \in MayLeave /\ RoomFor(n)
  /\ Queue(n, ToIdle)
  /\ linked' = {l \in linked : n \notin l}
  /\ UNCHANGED <<phase, round, loop, peers, connected, offers, generator,
                 ignoring, failing, wire>>

(* A socket breaks, or a SendMessage to it fails with SOCKET_ERROR. *)
LinkBreaks(n, p) ==
  /\ Link(n, p) \in linked \cap MayBreak
  /\ linked' = linked \ {Link(n, p)}
  /\ UNCHANGED <<phase, switches, round, loop, peers, connected, offers,
                 generator, ignoring, failing, wire>>

Step(n) ==
  \/ StartGame(n)
  \/ ExecuteSwitch(n)
  \/ NegotiationStarted(n, {})
  \/ LoopTimer(n, {})
  \/ IgnoreOver(n)
  \/ Renegotiate(n)
  \/ \E p \in Others(n) : Receive(n, p) \/ ReadFailure(n, p) \/ SendFailed(n, p)

Departure(n) == StopGame(n)

Fault(n) ==
  \/ NegotiationRefused(n)
  \/ \E lost \in SUBSET peers[n] : NegotiationStarted(n, lost) \/ LoopTimer(n, lost)
  \/ \E p \in Others(n) : LinkBreaks(n, p)

Next == \E n \in Node : Step(n) \/ Departure(n) \/ Fault(n)

Spec == Init /\ [][Next]_vars

(* Sockets close or break, but commands are executed and messages sent. *)
DepartureNext ==
  \E n \in Node :
    \/ Step(n)
    \/ Departure(n)
    \/ \E p \in Others(n) : LinkBreaks(n, p)
DepartureSpec == Init /\ [][DepartureNext]_vars

(* Every link holds, every command is executed and nobody leaves. *)
ReliableNext == \E n \in Node : Step(n)
ReliableSpec == Init /\ [][ReliableNext]_vars

(***************************************************************************)
(* Timers fire, Java executes commands and delivers what was sent, sockets  *)
(* that are closed report it, and the worker runs what it has queued.       *)
(***************************************************************************)
Fairness ==
  \A n \in Node :
    /\ WF_vars(StartGame(n))
    /\ WF_vars(ExecuteSwitch(n))
    /\ WF_vars(NegotiationStarted(n, {}))
    /\ WF_vars(LoopTimer(n, {}))
    /\ WF_vars(IgnoreOver(n))
    /\ \A p \in Others(n) :
         /\ WF_vars(Receive(n, p))
         /\ WF_vars(ReadFailure(n, p))
         /\ WF_vars(SendFailed(n, p))

FairDepartureSpec == DepartureSpec /\ Fairness

-----------------------------------------------------------------------------
(* The coroutines and state objects have the shape the code gives them. *)
TypeOK ==
  /\ phase \in [Node -> Phase]
  /\ switches \in [Node -> Seq(Switch)]
  /\ round \in [Node -> Nat]
  /\ loop \in [Node -> Loop]
  /\ peers \in [Node -> SUBSET Node]
  /\ connected \in [Node -> SUBSET Node]
  /\ DOMAIN offers = Node
  /\ \A n \in Node : IsOfferMap(offers[n])
  /\ generator \in [Node -> Mac]
  /\ ignoring \in [Node -> BOOLEAN]
  /\ failing \in [Node -> SUBSET Node]
  /\ wire \in [Node -> [Node -> Seq(Offer)]]
  /\ linked \subseteq AllLinks

(***************************************************************************)
(* The code dereferences m_offers.find(m_localMac) without a check, and     *)
(* waits for every key of m_offers although only peers may change theirs:   *)
(* as long as the loop may run, m_offers has exactly one entry for the      *)
(* phone itself and one for each peer, whatever sends and sockets fail.     *)
(***************************************************************************)
OffersMatchPeers ==
  \A n \in Node : phase[n] = "negotiating" /\ loop[n] # "done" =>
    DOMAIN offers[n] = peers[n] \cup {n} /\ n \notin peers[n]

(***************************************************************************)
(* UpdateAndBroadcastOffer leaves when all offers it knows are equal, which *)
(* its peers learn only later, and rounds are never agreed upon explicitly. *)
(* A phone playing, or about to, is never ahead of a phone it plays with:   *)
(* the other one has taken part in the same round or is negotiating a later *)
(* one.  Hence two phones playing with each other elected in one round.     *)
(***************************************************************************)
PlaysInRoundOfPeers ==
  \A n \in Node :
    /\ phase[n] = "playing" => \A p \in peers[n] : round[n] <= round[p]
    /\ \A k \in Queued(n, "playing") :
         \A p \in switches[n][k].peers : round[n] <= round[p]

(***************************************************************************)
(* Whatever the interleaving of offers, timers and renegotiations, phones   *)
(* that play obey one generator (the purpose of StateNegotiating), if       *)
(* nobody leaves and no link breaks.                                        *)
(***************************************************************************)
Agreement ==
  \A n, p \in Node : phase[n] = "playing" /\ phase[p] = "playing" =>
    generator[n] = generator[p]

(***************************************************************************)
(* The same when a phone leaves: the phones do not learn of it at the same  *)
(* time and compute different nominees, yet two that still play with each   *)
(* other obey one generator.  So it is for up to three phones and for one   *)
(* departure; of four phones two may disagree after two departures.         *)
(***************************************************************************)
PeerAgreement ==
  \A n, p \in Node :
    /\ phase[n] = "playing" /\ phase[p] = "playing"
    /\ p \in peers[n] /\ n \in peers[p]
    => generator[n] = generator[p]

(***************************************************************************)
(* A phone leaves the negotiation alone, ten seconds deaf to offers, while  *)
(* a peer whose view differed still broadcasts.  No phone waits forever in  *)
(* one round: it gets to play, or some phone starts a later round (possible *)
(* only below the bound MaxRound).                                          *)
(***************************************************************************)
HighestRound == CHOOSE r \in {round[n] : n \in Node} : \A n \in Node : round[n] <= r

NoSilentStall ==
  \A n \in Node : \A r \in 1 .. MaxRound - 1 :
    (phase[n] = "negotiating" /\ HighestRound = r)
      ~> (phase[n] # "negotiating" \/ HighestRound > r)

(***************************************************************************)
(* The negotiation implements the election of GeneratorElection, if nobody  *)
(* leaves: in particular rounds serve as terms although no message closes   *)
(* one.                                                                     *)
(***************************************************************************)
Election == INSTANCE GeneratorElection
  WITH term <- round,
       obeys <- [n \in Node |-> IF phase[n] = "playing" THEN generator[n] ELSE NoMac]

ElectionSpec == Election!Spec

==============================================================================
