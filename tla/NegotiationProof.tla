-------------------------- MODULE NegotiationProof --------------------------
(***************************************************************************)
(* Proofs about Negotiation, for every set of phones and every bound.       *)
(***************************************************************************)
EXTENDS Negotiation, FiniteSetTheorems, SequenceTheorems, TLAPS

-----------------------------------------------------------------------------
(* The order of the keys of a map: a finite set of naturals has a greatest   *)
(* element, and for every position a key.                                    *)

(***************************************************************************)
(* A non-empty family of finite sets has a member no other is strictly      *)
(* included in.                                                             *)
(***************************************************************************)
IsSmallest(T, F) == T \in F /\ \A U \in F : U \subseteq T => U = T

LEMMA SmallestMember ==
  ASSUME NEW S, IsFiniteSet(S), NEW F, F \subseteq SUBSET S, F # {}
  PROVE  \E T : IsSmallest(T, F)
<1>1. IsWellFoundedOn(StrictSubsetOrdering(S), SUBSET S)
  BY FS_StrictSubsetOrderingWellFounded, FS_FiniteSubsetsOfFinite
<1>2. PICK T \in F : \A U \in F : ~ (<<U, T>> \in StrictSubsetOrdering(S))
  BY <1>1, WFMin, Zenon
<1>3. \A U \in F : U \subseteq T /\ U # T => <<U, T>> \in StrictSubsetOrdering(S)
  BY DEF StrictSubsetOrdering
<1>4. IsSmallest(T, F)
  BY <1>2, <1>3 DEF IsSmallest
<1>5. QED
  BY <1>4

LEMMA GreatestElement ==
  ASSUME NEW S \in SUBSET Nat, IsFiniteSet(S), S # {}
  PROVE  \E r \in S : \A s \in S : s <= r
<1> DEFINE Bad == {T \in SUBSET S : T # {} /\ ~ \E r \in T : \A s \in T : s <= r}
<1>1. SUFFICES ASSUME Bad # {} PROVE FALSE
  OBVIOUS
<1>2. PICK T : IsSmallest(T, Bad)
  <2>1. Bad \subseteq SUBSET S
    OBVIOUS
  <2> HIDE DEF Bad
  <2>2. QED
    BY <1>1, <2>1, SmallestMember, Zenon
<1>3. PICK x \in T : T \in Bad
  BY <1>2 DEF IsSmallest
<1>4. T \ {x} # {}
  BY <1>2, <1>3
<1>5. PICK r \in T \ {x} : \A s \in T \ {x} : s <= r
  <2>1. T \ {x} \in SUBSET S /\ T \ {x} \subseteq T /\ T \ {x} # T
    BY <1>3
  <2>2. T \ {x} \notin Bad
    BY <1>2, <2>1 DEF IsSmallest
  <2>3. QED
    BY <1>4, <2>1, <2>2
<1>6. r \in Nat /\ x \in Nat
  BY <1>3, <1>5
<1>7. \A s \in T : s <= IF x <= r THEN r ELSE x
  BY <1>5, <1>6
<1>8. QED
  BY <1>3, <1>5, <1>6, <1>7

(***************************************************************************)
(* std::next(begin, k) is a key for every k below the size of the map.      *)
(***************************************************************************)
LEMMA KeyAtRank ==
  ASSUME NEW S \in SUBSET Nat, IsFiniteSet(S), NEW k \in Nat, k < Cardinality(S)
  PROVE  \E m \in S : Rank(m, S) = k
<1> DEFINE Bad == {T \in SUBSET S : k < Cardinality(T) /\ ~ \E m \in T : Rank(m, T) = k}
<1>1. SUFFICES ASSUME Bad # {} PROVE FALSE
  OBVIOUS
<1>2. PICK T : IsSmallest(T, Bad)
  <2>1. Bad \subseteq SUBSET S
    OBVIOUS
  <2> HIDE DEF Bad
  <2>2. QED
    BY <1>1, <2>1, SmallestMember, Zenon
<1>3. IsFiniteSet(T) /\ T # {}
  <2>1. T \in SUBSET S /\ k < Cardinality(T)
    BY <1>2 DEF IsSmallest
  <2> HIDE DEF Bad
  <2>2. IsFiniteSet(T)
    BY <2>1, FS_Subset
  <2>3. QED
    BY <2>1, <2>2, FS_EmptySet
<1>4. PICK top \in T : \A s \in T : s <= top
  BY <1>2, <1>3, GreatestElement DEF IsSmallest
<1>5. /\ IsFiniteSet(T \ {top})
      /\ Cardinality(T \ {top}) = Cardinality(T) - 1
      /\ Cardinality(T) \in Nat
  BY <1>3, <1>4, FS_RemoveElement, FS_CardinalityType
<1>6. {x \in T : x < top} = T \ {top}
  <2>1. T \subseteq Nat
    BY <1>2 DEF IsSmallest
  <2>2. \A x \in T : x < top <=> x # top
    BY <1>4, <2>1
  <2>3. QED
    BY <2>2
<1>7. CASE k = Cardinality(T) - 1
  <2>1. Rank(top, T) = k
    BY <1>5, <1>6, <1>7 DEF Rank
  <2>2. QED
    BY <1>2, <1>4, <2>1 DEF IsSmallest
<1>8. CASE k # Cardinality(T) - 1
  <2>1. k < Cardinality(T \ {top})
    BY <1>2, <1>5, <1>8 DEF IsSmallest
  <2>2. PICK m \in T \ {top} : Rank(m, T \ {top}) = k
    BY <1>2, <1>4, <2>1 DEF IsSmallest
  <2>3. {x \in T : x < m} = {x \in T \ {top} : x < m}
    BY <1>2, <1>4, <2>2 DEF IsSmallest
  <2>4. Rank(m, T) = k
    BY <2>2, <2>3 DEF Rank
  <2>5. QED
    BY <1>2, <2>2, <2>4 DEF IsSmallest
<1>9. QED
  BY <1>7, <1>8

(* The nominee of a round is one of the phones the nominating one knows. *)
LEMMA NomineeIsKey ==
  ASSUME NEW S \in SUBSET Nat, IsFiniteSet(S), S # {}, NEW r \in Nat
  PROVE  Nominee(r, S) \in S
<1>1. Cardinality(S) \in Nat \ {0}
  BY FS_CardinalityType, FS_EmptySet
<1>2. r % Cardinality(S) \in Nat /\ r % Cardinality(S) < Cardinality(S)
  BY <1>1
<1>3. \E m \in S : Rank(m, S) = r % Cardinality(S)
  BY <1>2, KeyAtRank
<1>4. QED
  BY <1>3 DEF Nominee

-----------------------------------------------------------------------------
(* Type correctness.                                                         *)

LEMMA NomineeType ==
  ASSUME NEW S \in SUBSET Node, S # {}, NEW r \in Nat
  PROVE  Nominee(r, S) \in S /\ Nominee(r, S) \in Node
<1>1. S \in SUBSET Nat /\ IsFiniteSet(S)
  BY NodeAssumption, FS_Subset
<1>2. QED
  BY <1>1, NomineeIsKey

(* The highest round UpdateAndBroadcastOffer computes exists. *)
LEMMA MaxOfferRoundType ==
  ASSUME TypeOK, NEW n \in Node
  PROVE  /\ MaxOfferRound(n) \in Nat
         /\ round[n] <= MaxOfferRound(n)
         /\ \A m \in DOMAIN offers[n] : offers[n][m].round <= MaxOfferRound(n)
         /\ \/ MaxOfferRound(n) = round[n]
            \/ \E m \in DOMAIN offers[n] : MaxOfferRound(n) = offers[n][m].round
<1> DEFINE D == DOMAIN offers[n]
           f == [m \in D |-> offers[n][m].round]
           I == {offers[n][m].round : m \in D}
           R == I \cup {round[n]}
<1>1. D \subseteq Node /\ (\A m \in D : offers[n][m].round \in Nat) /\ round[n] \in Nat
  BY DEF TypeOK, IsOfferMap, Offer
<1>2. IsFiniteSet(D)
  BY <1>1, NodeAssumption, FS_Subset
<1>3. f \in Surjection(D, I)
  BY DEF Surjection
<1>4. IsFiniteSet(I)
  BY <1>2, <1>3, FS_Surjection
<1>5. IsFiniteSet(R)
  BY <1>4, FS_AddElement
<1>6. R \in SUBSET Nat /\ R # {}
  BY <1>1
<1>7. \E r \in R : \A s \in R : s <= r
  BY <1>5, <1>6, GreatestElement
<1>8. MaxOfferRound(n) = CHOOSE r \in R : \A s \in R : s <= r
  BY DEF MaxOfferRound
<1>9. MaxOfferRound(n) \in R /\ \A s \in R : s <= MaxOfferRound(n)
  BY <1>7, <1>8
<1>10. QED
  BY <1>6, <1>9

(* The disjuncts of Next, with NegotiationStarted and LoopTimer split into   *)
(* the two branches of UpdateAndBroadcastOffer they share.                   *)
LoopMayRun(n) ==
  /\ phase[n] = "negotiating"
  /\ \/ loop[n] = "asked" /\ Queued(n, "negotiating") = {}
     \/ loop[n] = "running"

LEMMA NextCases ==
  ASSUME Next
  PROVE  \E n \in Node :
           \/ StartGame(n)
           \/ ExecuteSwitch(n)
           \/ LoopMayRun(n) /\ Agree(n)
           \/ LoopMayRun(n) /\ \E lost : Broadcast(n, lost)
           \/ NegotiationRefused(n)
           \/ IgnoreOver(n)
           \/ Renegotiate(n)
           \/ StopGame(n)
           \/ \E p \in Others(n) :
                \/ ReceiveOffer(n, p)
                \/ RejoinNegotiation(n, p)
                \/ IgnoreOffer(n, p)
                \/ DropOffer(n, p)
                \/ SendFailed(n, p)
                \/ ReadFailureNegotiating(n, p)
                \/ ReadFailurePlaying(n, p)
                \/ LinkBreaks(n, p)
<1>1. PICK n \in Node : Step(n) \/ Departure(n) \/ Fault(n)
  BY DEF Next
<1>2. NegotiationStarted(n, {}) \/ LoopTimer(n, {}) =>
        LoopMayRun(n) /\ (Agree(n) \/ \E lost : Broadcast(n, lost))
  BY DEF NegotiationStarted, LoopTimer, LoopMayRun
<1>3. ASSUME NEW lost, NegotiationStarted(n, lost) \/ LoopTimer(n, lost)
      PROVE  LoopMayRun(n) /\ (Agree(n) \/ \E l : Broadcast(n, l))
  BY <1>3 DEF NegotiationStarted, LoopTimer, LoopMayRun
<1>4. CASE Step(n)
  BY <1>2, <1>4 DEF Step, Receive, ReadFailure
<1>5. CASE Departure(n)
  BY <1>5 DEF Departure
<1>6. CASE Fault(n)
  BY <1>3, <1>6 DEF Fault
<1>7. QED
  BY <1>1, <1>4, <1>5, <1>6

LEMMA EnterNegotiatingType ==
  ASSUME TypeOK, NEW n \in Node, NEW S \in SUBSET Node, NEW sender,
         NEW offer \in Offer, EnterNegotiating(n, S, sender, offer)
  PROVE  /\ phase' \in [Node -> Phase]
         /\ round' \in [Node -> Nat]
         /\ loop' \in [Node -> Loop]
         /\ peers' \in [Node -> SUBSET Node]
         /\ connected' \in [Node -> SUBSET Node]
         /\ DOMAIN offers' = Node
         /\ \A m \in Node : IsOfferMap(offers'[m])
         /\ generator' \in [Node -> Mac]
         /\ ignoring' \in [Node -> BOOLEAN]
         /\ failing' \in [Node -> SUBSET Node]
<1> DEFINE own == [round |-> round[n] + 1, mac |-> Nominee(round[n] + 1, S \cup {n})]
           map == [m \in S \cup {n} |-> IF m = n THEN own
                                         ELSE IF m = sender THEN offer ELSE Blank]
<1>1. own \in Offer /\ Blank \in Offer
  <2>1. round[n] + 1 \in Nat
    BY DEF TypeOK
  <2>2. Nominee(round[n] + 1, S \cup {n}) \in Node
    BY <2>1, NomineeType
  <2>3. QED
    BY <2>1, <2>2 DEF Offer, Mac, Blank
<1>2. IsOfferMap(map)
  BY <1>1 DEF IsOfferMap
<1>3. offers' = [offers EXCEPT ![n] = map]
  BY DEF EnterNegotiating, BeginNegotiation
<1> HIDE DEF map
<1>4. DOMAIN offers' = Node /\ \A m \in Node : IsOfferMap(offers'[m])
  BY <1>2, <1>3 DEF TypeOK
<1>5. phase' \in [Node -> Phase] /\ round' \in [Node -> Nat] /\ loop' \in [Node -> Loop]
  BY DEF EnterNegotiating, BeginNegotiation, TypeOK, Phase, Loop
<1>6. /\ peers' \in [Node -> SUBSET Node] /\ connected' \in [Node -> SUBSET Node]
      /\ generator' \in [Node -> Mac] /\ ignoring' \in [Node -> BOOLEAN]
      /\ failing' \in [Node -> SUBSET Node]
  BY DEF EnterNegotiating, BeginNegotiation, TypeOK, Mac
<1>7. QED
  BY <1>4, <1>5, <1>6

LEMMA SwitchTypes ==
  /\ ToIdle \in Switch
  /\ \A S \in SUBSET Node, mac \in Node : ToPlaying(S, mac) \in Switch
  /\ \A S \in SUBSET Node, mac \in Mac, offer \in Offer :
       ToNegotiating(S, mac, offer) \in Switch
BY DEF ToIdle, ToPlaying, ToNegotiating, Switch, Phase, Mac, Offer, Blank

LEMMA ExecuteSwitchType ==
  ASSUME TypeOK, NEW n \in Node, ExecuteSwitch(n)
  PROVE  TypeOK'
<1> DEFINE sw == Head(switches[n])
<1>1. switches[n] \in Seq(Switch) /\ switches[n] # <<>>
  BY DEF ExecuteSwitch, TypeOK
<1>2. sw \in Switch /\ Tail(switches[n]) \in Seq(Switch)
  BY <1>1
<1>3. switches' \in [Node -> Seq(Switch)]
  BY <1>2 DEF ExecuteSwitch, TypeOK
<1>4. wire' = wire /\ linked' = linked
  BY DEF ExecuteSwitch
<1>5. sw.peers \in SUBSET Node /\ sw.mac \in Mac /\ sw.offer \in Offer
  BY <1>2 DEF Switch
<1>6. CASE UNCHANGED <<phase, round, loop, peers, connected, offers, generator,
                       ignoring, failing>>
  BY <1>3, <1>4, <1>6 DEF TypeOK
<1>7. CASE EnterNegotiating(n, sw.peers, sw.mac, sw.offer)
  BY <1>3, <1>4, <1>5, <1>7, EnterNegotiatingType DEF TypeOK
<1>8. CASE EnterPlaying(n, sw.peers, sw.mac)
  BY <1>3, <1>4, <1>5, <1>8
     DEF EnterPlaying, TypeOK, Phase, Loop, IsOfferMap, NoOffers
<1>9. CASE EnterIdle(n)
  BY <1>3, <1>4, <1>9
     DEF EnterIdle, TypeOK, Phase, Loop, IsOfferMap, NoOffers, Mac
<1>10. QED
  BY <1>6, <1>7, <1>8, <1>9 DEF ExecuteSwitch

LEMMA AgreeType ==
  ASSUME TypeOK, NEW n \in Node, LoopMayRun(n), Agree(n),
         n \in DOMAIN offers[n], offers[n][n].mac \in Node
  PROVE  TypeOK'
<1>1. ToPlaying(peers[n], offers[n][n].mac) \in Switch
  BY SwitchTypes DEF TypeOK
<1>2. switches' \in [Node -> Seq(Switch)]
  BY <1>1 DEF Agree, Queue, TypeOK
<1>3. QED
  BY <1>2 DEF Agree, TypeOK, Loop

LEMMA BroadcastType ==
  ASSUME TypeOK, NEW n \in Node, NEW lost, Broadcast(n, lost), n \in DOMAIN offers[n]
  PROVE  TypeOK'
<1> DEFINE r == MaxOfferRound(n)
           offer == [round |-> r, mac |-> Nominee(r, DOMAIN offers[n])]
<1>1. offer \in Offer
  <2>1. r \in Nat
    BY MaxOfferRoundType
  <2>2. DOMAIN offers[n] \in SUBSET Node
    BY DEF TypeOK, IsOfferMap
  <2>3. Nominee(r, DOMAIN offers[n]) \in Node
    BY <2>1, <2>2, NomineeType
  <2>4. QED
    BY <2>1, <2>3 DEF Offer, Mac
<1>2. offers' = [offers EXCEPT ![n][n] = offer]
  BY DEF Broadcast
<1>3. DOMAIN offers' = Node /\ \A m \in Node : IsOfferMap(offers'[m])
  BY <1>1, <1>2 DEF TypeOK, IsOfferMap
<1>4. wire' \in [Node -> [Node -> Seq(Offer)]]
  <2>1. \A p \in Node : wire[n][p] \in Seq(Offer) /\ Append(wire[n][p], offer) \in Seq(Offer)
    BY <1>1 DEF TypeOK
  <2>2. QED
    BY <2>1 DEF Broadcast, TypeOK
<1>5. round' \in [Node -> Nat]
  BY MaxOfferRoundType DEF Broadcast, TypeOK
<1>6. failing' \in [Node -> SUBSET Node] /\ loop' \in [Node -> Loop]
  BY DEF Broadcast, TypeOK, Loop
<1>7. QED
  BY <1>3, <1>4, <1>5, <1>6 DEF Broadcast, TypeOK

-----------------------------------------------------------------------------
(* The shape of a phone: an inductive invariant together with TypeOK.        *)

NeverOwnPeer ==
  \A n \in Node :
    /\ n \notin peers[n] /\ n \notin connected[n] /\ n \notin failing[n]
    /\ \A k \in DOMAIN switches[n] : n \notin switches[n][k].peers

(* A switch to StatePlaying is requested by a loop that ends with it, when   *)
(* every switch requested before the state was built has been dropped.       *)
QueueShapeOf(n) ==
  /\ phase[n] = "connecting" => switches[n] = <<>>
  /\ phase[n] = "negotiating" => loop[n] # "none"
  /\ phase[n] = "negotiating" /\ loop[n] # "asked" => Queued(n, "negotiating") = {}
  /\ Queued(n, "playing") # {} =>
       /\ phase[n] \in {"negotiating", "idle"}
       /\ phase[n] = "negotiating" => loop[n] = "done"
       /\ Queued(n, "negotiating") = {}
  /\ \A j, k \in Queued(n, "playing") : j = k

QueueShape == \A n \in Node : QueueShapeOf(n)

OwnOffer ==
  \A n \in Node : phase[n] = "negotiating" /\ loop[n] # "done" =>
    offers[n][n].round = round[n] /\ offers[n][n].mac \in Node

ShapeInv == NeverOwnPeer /\ QueueShape /\ OffersMatchPeers /\ OwnOffer

(***************************************************************************)
(* No offer is ahead of the phone that made it.                             *)
(***************************************************************************)
RoundsKnown ==
  \A n, p \in Node :
    /\ \A k \in DOMAIN wire[p][n] : wire[p][n][k].round <= round[p]
    /\ p \in DOMAIN offers[n] => offers[n][p].round <= round[p]
    /\ \A k \in DOMAIN switches[n] :
         switches[n][k].mac = p => switches[n][k].offer.round <= round[p]

IInv == TypeOK /\ ShapeInv /\ RoundsKnown /\ PlaysInRoundOfPeers

LEMMA QueueFacts ==
  ASSUME TypeOK, NEW n \in Node, NEW sw \in Switch, Queue(n, sw)
  PROVE  /\ DOMAIN switches' = Node
         /\ \A m \in Node \ {n} : switches'[m] = switches[m]
         /\ \A k \in DOMAIN switches'[n] :
              \/ k \in DOMAIN switches[n] /\ switches'[n][k] = switches[n][k]
              \/ switches'[n][k] = sw /\ k = Len(switches[n]) + 1
BY DEF Queue, TypeOK

LEMMA TailFacts ==
  ASSUME TypeOK, NEW n \in Node, ExecuteSwitch(n)
  PROVE  /\ 1 \in DOMAIN switches[n] /\ Head(switches[n]) = switches[n][1]
         /\ Head(switches[n]) \in Switch
         /\ \A m \in Node \ {n} : switches'[m] = switches[m]
         /\ \A k \in DOMAIN switches'[n] :
              k + 1 \in DOMAIN switches[n] /\ switches'[n][k] = switches[n][k + 1]
<1>1. switches[n] \in Seq(Switch) /\ switches[n] # <<>>
  BY DEF ExecuteSwitch, TypeOK
<1>2. switches'[n] = Tail(switches[n]) /\ \A m \in Node \ {n} : switches'[m] = switches[m]
  BY DEF ExecuteSwitch, TypeOK
<1>3. QED
  BY <1>1, <1>2

(***************************************************************************)
(* RoundsKnown survives a step in which rounds grow and every offer that is *)
(* stored somewhere was stored before or is not ahead of its maker.         *)
(***************************************************************************)
LEMMA RoundsKnownStep ==
  ASSUME TypeOK, TypeOK', RoundsKnown,
         \A m \in Node : round[m] <= round'[m],
         \A m, p \in Node : \A k \in DOMAIN wire'[p][m] :
           \/ \E j \in DOMAIN wire[p][m] : wire'[p][m][k] = wire[p][m][j]
           \/ wire'[p][m][k].round <= round'[p],
         \A m \in Node : \A p \in DOMAIN offers'[m] :
           \/ p \in DOMAIN offers[m] /\ offers'[m][p] = offers[m][p]
           \/ offers'[m][p].round <= round'[p],
         \A m \in Node : \A k \in DOMAIN switches'[m] :
           \/ \E j \in DOMAIN switches[m] : switches'[m][k] = switches[m][j]
           \/ switches'[m][k].mac \in Node =>
                switches'[m][k].offer.round <= round'[switches'[m][k].mac]
  PROVE  RoundsKnown'
<1>1. round \in [Node -> Nat] /\ round' \in [Node -> Nat]
  BY DEF TypeOK
<1>2. ASSUME NEW m \in Node, NEW p \in Node, NEW k \in DOMAIN wire'[p][m]
      PROVE  wire'[p][m][k].round <= round'[p]
  <2>1. CASE \E j \in DOMAIN wire[p][m] : wire'[p][m][k] = wire[p][m][j]
    <3>1. PICK j \in DOMAIN wire[p][m] : wire'[p][m][k] = wire[p][m][j]
      BY <2>1
    <3>2. wire[p][m][j].round \in Nat /\ wire[p][m][j].round <= round[p]
      <4>1. wire[p][m] \in Seq(Offer)
        BY DEF TypeOK
      <4>2. wire[p][m][j] \in Offer
        BY <4>1
      <4>3. QED
        BY <4>2 DEF RoundsKnown, Offer
    <3>3. QED
      BY <1>1, <3>1, <3>2
  <2>2. QED
    BY <2>1
<1>3. ASSUME NEW m \in Node, NEW p \in Node, p \in DOMAIN offers'[m]
      PROVE  offers'[m][p].round <= round'[p]
  <2>1. CASE p \in DOMAIN offers[m] /\ offers'[m][p] = offers[m][p]
    <3>1. offers[m][p].round \in Nat /\ offers[m][p].round <= round[p]
      BY <2>1 DEF RoundsKnown, TypeOK, IsOfferMap, Offer
    <3>2. QED
      BY <1>1, <2>1, <3>1
  <2>2. QED
    BY <1>3, <2>1
<1>4. ASSUME NEW m \in Node, NEW p \in Node, NEW k \in DOMAIN switches'[m],
             switches'[m][k].mac = p
      PROVE  switches'[m][k].offer.round <= round'[p]
  <2>1. CASE \E j \in DOMAIN switches[m] : switches'[m][k] = switches[m][j]
    <3>1. PICK j \in DOMAIN switches[m] : switches'[m][k] = switches[m][j]
      BY <2>1
    <3>2. /\ switches[m][j].offer.round \in Nat
          /\ switches[m][j].offer.round <= round[p]
      <4>1. switches[m] \in Seq(Switch)
        BY DEF TypeOK
      <4>2. switches[m][j] \in Switch
        BY <4>1
      <4>3. QED
        BY <1>4, <3>1, <4>2 DEF RoundsKnown, Switch, Offer
    <3>3. QED
      BY <1>1, <3>1, <3>2
  <2>2. QED
    BY <1>4, <2>1
<1>5. QED
  BY <1>2, <1>3, <1>4 DEF RoundsKnown

(* Likewise PlaysInRoundOfPeers: a phone that keeps playing keeps its round. *)
LEMMA PlaysInRoundStep ==
  ASSUME TypeOK, TypeOK', PlaysInRoundOfPeers,
         \A m \in Node : round[m] <= round'[m],
         \A m \in Node : phase'[m] = "playing" =>
           \/ phase[m] = "playing" /\ peers'[m] \subseteq peers[m] /\ round'[m] = round[m]
           \/ \A p \in peers'[m] : round'[m] <= round'[p],
         \A m \in Node : \A k \in DOMAIN switches'[m] : switches'[m][k].to = "playing" =>
           \/ /\ \E j \in DOMAIN switches[m] : switches'[m][k] = switches[m][j]
              /\ round'[m] = round[m]
           \/ \A p \in switches'[m][k].peers : round'[m] <= round'[p]
  PROVE  PlaysInRoundOfPeers'
<1>1. /\ round \in [Node -> Nat] /\ round' \in [Node -> Nat]
      /\ \A m \in Node : peers[m] \subseteq Node
  BY DEF TypeOK
<1>2. ASSUME NEW m \in Node, phase'[m] = "playing", NEW p \in peers'[m]
      PROVE  round'[m] <= round'[p]
  BY <1>1, <1>2 DEF PlaysInRoundOfPeers
<1>3. ASSUME NEW m \in Node, NEW k \in DOMAIN switches'[m],
             switches'[m][k].to = "playing", NEW p \in switches'[m][k].peers
      PROVE  round'[m] <= round'[p]
  <2>1. CASE (\E j \in DOMAIN switches[m] : switches'[m][k] = switches[m][j])
             /\ round'[m] = round[m]
    <3>1. PICK j \in DOMAIN switches[m] : switches'[m][k] = switches[m][j]
      BY <2>1
    <3>2. p \in Node
      <4>1. switches[m] \in Seq(Switch)
        BY DEF TypeOK
      <4>2. switches[m][j] \in Switch
        BY <4>1
      <4>3. QED
        BY <3>1, <4>2 DEF Switch
    <3>3. round[m] <= round[p]
      BY <1>3, <3>1 DEF PlaysInRoundOfPeers, Queued
    <3>4. QED
      BY <1>1, <2>1, <3>2, <3>3
  <2>2. QED
    BY <1>3, <2>1
<1>4. QED
  BY <1>2, <1>3 DEF PlaysInRoundOfPeers, Queued

LEMMA QueueShapeStep ==
  ASSUME QueueShape, NEW n \in Node,
         \A m \in Node \ {n} : phase'[m] = phase[m] /\ loop'[m] = loop[m]
                               /\ switches'[m] = switches[m],
         QueueShapeOf(n)'
  PROVE  QueueShape'
BY DEF QueueShape, QueueShapeOf, Queued

(* Both branches of the loop, for the state in which they leave the phone. *)
LEMMA AgreeStep ==
  ASSUME IInv, NEW n \in Node, LoopMayRun(n), Agree(n)
  PROVE  IInv'
<1> DEFINE sw == ToPlaying(peers[n], offers[n][n].mac)
<1>1. /\ phase[n] = "negotiating" /\ loop[n] \in {"asked", "running"}
      /\ Queued(n, "negotiating") = {} /\ Queued(n, "playing") = {}
  BY DEF LoopMayRun, IInv, ShapeInv, QueueShape, QueueShapeOf
<1>2. /\ DOMAIN offers[n] = peers[n] \cup {n} /\ n \notin peers[n]
      /\ offers[n][n].round = round[n] /\ offers[n][n].mac \in Node
  BY <1>1 DEF IInv, ShapeInv, OffersMatchPeers, OwnOffer
<1>3. TypeOK'
  BY <1>2, AgreeType DEF IInv
<1>4. sw \in Switch /\ Queue(n, sw)
  BY <1>2, SwitchTypes DEF Agree, IInv, TypeOK
<1>5. \A p \in peers[n] : round[n] <= round[p]
  BY <1>2 DEF Agree, AllOffersEqual, IInv, RoundsKnown, TypeOK
<1>6. /\ UNCHANGED <<phase, round, connected, offers, failing, wire>>
      /\ peers' = [peers EXCEPT ![n] = {}] /\ loop' = [loop EXCEPT ![n] = "done"]
      /\ sw.to = "playing" /\ sw.peers = peers[n] /\ sw.offer.round = 0
  BY DEF Agree, ToPlaying, Blank
<1>7. /\ \A m \in Node \ {n} : switches'[m] = switches[m]
      /\ \A k \in DOMAIN switches'[n] :
           \/ k \in DOMAIN switches[n] /\ switches'[n][k] = switches[n][k]
           \/ switches'[n][k] = sw /\ k = Len(switches[n]) + 1
  BY <1>4, QueueFacts DEF IInv
<1> HIDE DEF sw
<1>8. TypeOK /\ peers \in [Node -> SUBSET Node] /\ loop \in [Node -> Loop]
  BY DEF IInv, TypeOK
<1>9. ShapeInv'
  <2>1. NeverOwnPeer'
    BY <1>2, <1>6, <1>7, <1>8 DEF IInv, ShapeInv, NeverOwnPeer
  <2>2. QueueShape'
    <3>1. Queued(n, "negotiating")' = {}
      BY <1>1, <1>6, <1>7 DEF Queued
    <3>2. \A k \in Queued(n, "playing")' : k = Len(switches[n]) + 1
      BY <1>1, <1>7 DEF Queued
    <3>3. QueueShapeOf(n)'
      BY <1>1, <1>6, <1>8, <3>1, <3>2 DEF QueueShapeOf
    <3>4. QED
      BY <1>6, <1>7, <1>8, <3>3, QueueShapeStep DEF IInv, ShapeInv
  <2>3. OffersMatchPeers' /\ OwnOffer'
    BY <1>6, <1>8 DEF IInv, ShapeInv, OffersMatchPeers, OwnOffer
  <2>4. QED
    BY <2>1, <2>2, <2>3 DEF ShapeInv
<1>10. \A m \in Node : round[m] <= round'[m] /\ round[m] \in Nat
  BY <1>6, <1>8 DEF TypeOK
<1>11. RoundsKnown'
  BY <1>3, <1>6, <1>7, <1>8, <1>10, RoundsKnownStep DEF IInv, RoundsKnown
<1>12. PlaysInRoundOfPeers'
  BY <1>1, <1>3, <1>5, <1>6, <1>7, <1>8, <1>10, PlaysInRoundStep DEF IInv
<1>13. QED
  BY <1>3, <1>9, <1>11, <1>12 DEF IInv

LEMMA BroadcastStep ==
  ASSUME IInv, NEW n \in Node, LoopMayRun(n), NEW lost, Broadcast(n, lost)
  PROVE  IInv'
<1> DEFINE r == MaxOfferRound(n)
           offer == [round |-> r, mac |-> Nominee(r, DOMAIN offers[n])]
<1>1. /\ phase[n] = "negotiating" /\ loop[n] \in {"asked", "running"}
      /\ Queued(n, "negotiating") = {} /\ Queued(n, "playing") = {}
  BY DEF LoopMayRun, IInv, ShapeInv, QueueShape, QueueShapeOf
<1>2. DOMAIN offers[n] = peers[n] \cup {n} /\ n \notin peers[n]
  BY <1>1 DEF IInv, ShapeInv, OffersMatchPeers
<1>3. TypeOK /\ TypeOK'
  BY <1>2, BroadcastType DEF IInv
<1>4. r \in Nat /\ round[n] <= r /\ Nominee(r, DOMAIN offers[n]) \in Node
  <2>1. DOMAIN offers[n] \in SUBSET Node
    BY <1>3 DEF TypeOK, IsOfferMap
  <2>2. QED
    BY <1>2, <1>3, <2>1, MaxOfferRoundType, NomineeType
<1>5. /\ round' = [round EXCEPT ![n] = r]
      /\ offers' = [offers EXCEPT ![n][n] = offer]
      /\ UNCHANGED <<phase, switches, peers, connected>>
      /\ loop' = [loop EXCEPT ![n] = "running"]
  BY DEF Broadcast
<1>6. /\ round \in [Node -> Nat] /\ loop \in [Node -> Loop]
      /\ peers \in [Node -> SUBSET Node] /\ DOMAIN offers = Node
  BY <1>3 DEF TypeOK
<1> HIDE DEF r
<1>7. \A m \in Node : round[m] <= round'[m]
  BY <1>4, <1>5, <1>6
<1>8. /\ \A m \in Node : DOMAIN offers'[m] = DOMAIN offers[m]
      /\ \A m \in Node \ {n} : offers'[m] = offers[m]
      /\ \A p \in DOMAIN offers[n] \ {n} : offers'[n][p] = offers[n][p]
      /\ offers'[n][n] = offer
  BY <1>2, <1>5, <1>6
<1>9. ShapeInv'
  <2>1. NeverOwnPeer'
    <3>1. \A m \in Node : failing'[m] \subseteq failing[m] \cup peers[m]
      BY <1>3 DEF Broadcast, TypeOK
    <3>2. QED
      BY <1>5, <3>1 DEF IInv, ShapeInv, NeverOwnPeer
  <2>2. QueueShape'
    <3>1. QueueShapeOf(n)'
      BY <1>1, <1>5, <1>6 DEF QueueShapeOf, Queued
    <3>2. QED
      BY <1>5, <1>6, <3>1, QueueShapeStep DEF IInv, ShapeInv
  <2>3. OffersMatchPeers'
    BY <1>1, <1>2, <1>5, <1>6, <1>8 DEF IInv, ShapeInv, OffersMatchPeers
  <2>4. OwnOffer'
    BY <1>4, <1>5, <1>6, <1>8 DEF IInv, ShapeInv, OwnOffer
  <2>5. QED
    BY <2>1, <2>2, <2>3, <2>4 DEF ShapeInv
<1>10. RoundsKnown'
  <2>1. \A m, p \in Node : \A k \in DOMAIN wire'[p][m] :
          \/ \E j \in DOMAIN wire[p][m] : wire'[p][m][k] = wire[p][m][j]
          \/ wire'[p][m][k].round <= round'[p]
    <3>1. ASSUME NEW m \in Node, NEW p \in Node, NEW k \in DOMAIN wire'[p][m]
          PROVE  \/ \E j \in DOMAIN wire[p][m] : wire'[p][m][k] = wire[p][m][j]
                 \/ wire'[p][m][k].round <= round'[p]
      <4>1. wire[p][m] \in Seq(Offer)
        BY <1>3 DEF TypeOK
      <4>2. \/ wire'[p][m] = wire[p][m]
            \/ p = n /\ wire'[p][m] = Append(wire[p][m], offer)
        BY <1>3 DEF Broadcast, TypeOK, r
      <4>3. CASE wire'[p][m] = wire[p][m]
        BY <4>3
      <4>4. CASE p = n /\ wire'[p][m] = Append(wire[p][m], offer)
        <5>1. \/ wire'[p][m][k] = wire[p][m][k] /\ k \in DOMAIN wire[p][m]
              \/ wire'[p][m][k] = offer
          BY <4>1, <4>4
        <5>2. offer.round <= round'[p]
          BY <1>4, <1>5, <1>6, <4>4
        <5>3. QED
          BY <5>1, <5>2
      <4>5. QED
        BY <4>2, <4>3, <4>4
    <3>2. QED
      BY <3>1
  <2>2. \A m \in Node : \A p \in DOMAIN offers'[m] :
          \/ p \in DOMAIN offers[m] /\ offers'[m][p] = offers[m][p]
          \/ offers'[m][p].round <= round'[p]
    BY <1>4, <1>5, <1>6, <1>8
  <2>3. QED
    BY <1>3, <1>5, <1>7, <2>1, <2>2, RoundsKnownStep DEF IInv
<1>11. PlaysInRoundOfPeers'
  <2>1. \A m \in Node : \A k \in DOMAIN switches[m] : switches[m][k].to = "playing" => m # n
    BY <1>1 DEF Queued
  <2>2. QED
    BY <1>1, <1>3, <1>5, <1>6, <1>7, <2>1, PlaysInRoundStep DEF IInv
<1>12. QED
  BY <1>3, <1>9, <1>10, <1>11 DEF IInv

-----------------------------------------------------------------------------
(* Steps that request nothing and enter no state.                            *)

LEMMA QuietStep ==
  ASSUME IInv, TypeOK', UNCHANGED <<phase, round, switches>>, OffersMatchPeers',
         \A m \in Node : \/ loop'[m] = loop[m]
                         \/ /\ loop[m] = "asked" /\ loop'[m] = "stuck"
                            /\ Queued(m, "negotiating") = {},
         \A m \in Node : /\ peers'[m] \subseteq peers[m]
                         /\ connected'[m] \subseteq connected[m] \cup peers[m]
                         /\ failing'[m] \subseteq failing[m],
         \A m, p \in Node : \A k \in DOMAIN wire'[p][m] :
           \E j \in DOMAIN wire[p][m] : wire'[p][m][k] = wire[p][m][j],
         \A m \in Node : \A p \in DOMAIN offers'[m] :
           /\ p \in DOMAIN offers[m]
           /\ \/ offers'[m][p] = offers[m][p]
              \/ p # m /\ \E j \in DOMAIN wire[p][m] : offers'[m][p] = wire[p][m][j]
  PROVE  IInv'
<1>1. TypeOK /\ round \in [Node -> Nat]
  BY DEF IInv, TypeOK
<1>2. ShapeInv'
  <2>1. NeverOwnPeer'
    BY DEF IInv, ShapeInv, NeverOwnPeer
  <2>2. QueueShape'
    BY DEF IInv, ShapeInv, QueueShape, QueueShapeOf, Queued
  <2>3. OwnOffer'
    <3>1. ASSUME NEW m \in Node, phase'[m] = "negotiating", loop'[m] # "done"
          PROVE  offers'[m][m] = offers[m][m]
      BY <3>1 DEF OffersMatchPeers
    <3>2. QED
      BY <3>1 DEF IInv, ShapeInv, OwnOffer
  <2>4. QED
    BY <2>1, <2>2, <2>3 DEF ShapeInv
<1>3. \A m \in Node : round[m] <= round'[m]
  BY <1>1
<1>4. RoundsKnown'
  <2>1. ASSUME NEW m \in Node, NEW p \in DOMAIN offers'[m]
        PROVE  \/ p \in DOMAIN offers[m] /\ offers'[m][p] = offers[m][p]
               \/ offers'[m][p].round <= round'[p]
    <3>1. p \in Node
      BY DEF TypeOK, IsOfferMap
    <3>2. QED
      BY <2>1, <3>1 DEF IInv, RoundsKnown
  <2>2. QED
    BY <1>1, <1>3, <2>1, RoundsKnownStep DEF IInv
<1>5. PlaysInRoundOfPeers'
  BY <1>1, <1>3, PlaysInRoundStep DEF IInv
<1>6. QED
  BY <1>2, <1>4, <1>5 DEF IInv

(* Steps that request a switch to StateIdle or, while playing, a negotiation. *)
LEMMA RequestStep ==
  ASSUME IInv, TypeOK', NEW n \in Node, NEW sw \in Switch, Queue(n, sw),
         UNCHANGED <<phase, round, loop, offers, failing>>,
         \/ sw.to = "idle" /\ phase[n] \in {"negotiating", "playing"}
         \/ sw.to = "negotiating" /\ phase[n] = "playing",
         n \notin sw.peers,
         sw.mac \in Node => sw.offer.round <= round[sw.mac],
         \A m \in Node : peers'[m] \subseteq peers[m] /\ connected'[m] \subseteq connected[m],
         \A m \in Node : phase[m] = "negotiating" => peers'[m] = peers[m],
         \A m, p \in Node : \A k \in DOMAIN wire'[p][m] :
           \E j \in DOMAIN wire[p][m] : wire'[p][m][k] = wire[p][m][j]
  PROVE  IInv'
<1>1. TypeOK /\ round \in [Node -> Nat]
  BY DEF IInv, TypeOK
<1>2. /\ \A m \in Node \ {n} : switches'[m] = switches[m]
      /\ \A k \in DOMAIN switches'[n] :
           \/ k \in DOMAIN switches[n] /\ switches'[n][k] = switches[n][k]
           \/ switches'[n][k] = sw
  BY <1>1, QueueFacts
<1>3. ShapeInv'
  <2>1. NeverOwnPeer'
    BY <1>2 DEF IInv, ShapeInv, NeverOwnPeer
  <2>2. QueueShape'
    <3>1. /\ \A k \in Queued(n, "playing")' : k \in Queued(n, "playing")
          /\ phase[n] = "negotiating" =>
               \A k \in Queued(n, "negotiating")' : k \in Queued(n, "negotiating")
      BY <1>2 DEF Queued
    <3>2. QueueShapeOf(n)
      BY DEF IInv, ShapeInv, QueueShape
    <3>3. QueueShapeOf(n)'
      BY <3>1, <3>2 DEF QueueShapeOf
    <3>4. QED
      BY <1>2, <3>3, QueueShapeStep DEF IInv, ShapeInv
  <2>3. OffersMatchPeers' /\ OwnOffer'
    BY DEF IInv, ShapeInv, OffersMatchPeers, OwnOffer
  <2>4. QED
    BY <2>1, <2>2, <2>3 DEF ShapeInv
<1>4. \A m \in Node : round[m] <= round'[m]
  BY <1>1
<1>5. RoundsKnown'
  BY <1>1, <1>2, <1>4, RoundsKnownStep DEF IInv
<1>6. PlaysInRoundOfPeers'
  BY <1>1, <1>2, <1>4, PlaysInRoundStep DEF IInv
<1>7. QED
  BY <1>3, <1>5, <1>6 DEF IInv

-----------------------------------------------------------------------------
(* Entering a state.                                                         *)

LEMMA EnterNegotiatingStep ==
  ASSUME IInv, TypeOK', NEW n \in Node, NEW S \in SUBSET Node, n \notin S,
         NEW sender \in Mac, NEW offer \in Offer,
         sender \in Node => offer.round <= round[sender],
         EnterNegotiating(n, S, sender, offer), UNCHANGED wire,
         Queued(n, "playing") = {},
         \A m \in Node \ {n} : switches'[m] = switches[m],
         \A k \in DOMAIN switches'[n] :
           \E j \in DOMAIN switches[n] : switches'[n][k] = switches[n][j]
  PROVE  IInv'
<1> DEFINE own == [round |-> round[n] + 1, mac |-> Nominee(round[n] + 1, S \cup {n})]
           map == [m \in S \cup {n} |-> IF m = n THEN own
                                         ELSE IF m = sender THEN offer ELSE Blank]
<1>1. /\ TypeOK /\ round \in [Node -> Nat] /\ phase \in [Node -> Phase]
      /\ loop \in [Node -> Loop] /\ peers \in [Node -> SUBSET Node]
      /\ connected \in [Node -> SUBSET Node] /\ failing \in [Node -> SUBSET Node]
      /\ DOMAIN offers = Node
  BY DEF IInv, TypeOK
<1>2. /\ phase' = [phase EXCEPT ![n] = "negotiating"]
      /\ round' = [round EXCEPT ![n] = round[n] + 1]
      /\ loop'  = [loop EXCEPT ![n] = "asked"]
      /\ peers' = [peers EXCEPT ![n] = S]
      /\ connected' = [connected EXCEPT ![n] = {}]
      /\ failing'   = [failing EXCEPT ![n] = {}]
      /\ offers' = [offers EXCEPT ![n] = map]
  BY DEF EnterNegotiating, BeginNegotiation
<1>3. own.mac \in Node
  BY <1>1, NomineeType
<1>4. offers'[n] = map /\ \A m \in Node \ {n} : offers'[m] = offers[m]
  BY <1>1, <1>2
<1>5. /\ DOMAIN offers'[n] = S \cup {n} /\ offers'[n][n] = own
      /\ \A p \in S : \/ offers'[n][p] = offer /\ p = sender
                     \/ offers'[n][p] = Blank
  BY <1>4
<1> HIDE DEF map
<1>6. \A m \in Node : round[m] <= round'[m]
  BY <1>1, <1>2
<1>7. ShapeInv'
  <2>1. NeverOwnPeer'
    BY <1>1, <1>2 DEF IInv, ShapeInv, NeverOwnPeer
  <2>2. QueueShape'
    <3>1. Queued(n, "playing")' = {}
      BY DEF Queued
    <3>2. QueueShapeOf(n)'
      BY <1>1, <1>2, <3>1 DEF QueueShapeOf
    <3>3. QED
      BY <1>1, <1>2, <3>2, QueueShapeStep DEF IInv, ShapeInv
  <2>3. OffersMatchPeers'
    BY <1>1, <1>2, <1>4, <1>5 DEF IInv, ShapeInv, OffersMatchPeers
  <2>4. OwnOffer'
    <3>1. offers'[n][n].round = round'[n] /\ offers'[n][n].mac \in Node
      <4>1. offers'[n][n] = own /\ own.round = round[n] + 1
        BY <1>5
      <4>2. round'[n] = round[n] + 1
        BY <1>1, <1>2
      <4> HIDE DEF own
      <4>3. QED
        BY <1>3, <4>1, <4>2
    <3>2. \A m \in Node \ {n} : /\ offers'[m] = offers[m] /\ round'[m] = round[m]
                                /\ phase'[m] = phase[m] /\ loop'[m] = loop[m]
      BY <1>1, <1>2, <1>4
    <3>3. QED
      BY <3>1, <3>2 DEF IInv, ShapeInv, OwnOffer
  <2>5. QED
    BY <2>1, <2>2, <2>3, <2>4 DEF ShapeInv
<1>8. RoundsKnown'
  <2>1. ASSUME NEW m \in Node, NEW p \in DOMAIN offers'[m]
        PROVE  \/ p \in DOMAIN offers[m] /\ offers'[m][p] = offers[m][p]
               \/ offers'[m][p].round <= round'[p]
    <3>1. CASE m # n
      BY <1>4, <3>1
    <3>2. CASE m = n /\ p = n
      BY <1>1, <1>2, <1>5, <3>2
    <3>3. CASE m = n /\ p \in S /\ offers'[n][p] = Blank
      BY <1>1, <1>6, <3>3 DEF TypeOK, Blank
    <3>4. CASE m = n /\ p \in S /\ offers'[n][p] = offer /\ p = sender
      BY <1>1, <1>2, <1>6, <3>4 DEF Offer
    <3>5. QED
      BY <1>5, <3>1, <3>2, <3>3, <3>4
  <2>2. QED
    BY <1>1, <1>6, <2>1, RoundsKnownStep DEF IInv
<1>9. PlaysInRoundOfPeers'
  <2>1. \A m \in Node \ {n} : round'[m] = round[m] /\ phase'[m] = phase[m] /\ peers'[m] = peers[m]
    BY <1>1, <1>2
  <2>2. phase'[n] = "negotiating"
    BY <1>1, <1>2
  <2>3. \A k \in DOMAIN switches'[n] : switches'[n][k].to # "playing"
    BY DEF Queued
  <2>4. QED
    BY <1>1, <1>6, <2>1, <2>2, <2>3, PlaysInRoundStep DEF IInv
<1>10. QED
  BY <1>7, <1>8, <1>9 DEF IInv

LEMMA StartGameStep ==
  ASSUME IInv, NEW n \in Node, StartGame(n)
  PROVE  IInv'
<1> DEFINE S == {p \in Others(n) : Link(n, p) \in linked}
<1>1. S \in SUBSET Node /\ n \notin S
  BY DEF Others
<1>2. /\ EnterNegotiating(n, S, NoMac, Blank)
      /\ UNCHANGED <<switches, wire, linked>> /\ switches[n] = <<>>
  BY DEF StartGame, IInv, ShapeInv, QueueShape, QueueShapeOf
<1>3. NoMac \in Mac /\ Blank \in Offer /\ NoMac \notin Node /\ TypeOK
  BY NodeAssumption DEF Mac, Offer, Blank, IInv
<1> HIDE DEF S
<1>4. TypeOK'
  BY <1>1, <1>2, <1>3, EnterNegotiatingType DEF TypeOK
<1>5. Queued(n, "playing") = {}
  BY <1>2 DEF Queued
<1>6. QED
  BY <1>1, <1>2, <1>3, <1>4, <1>5, EnterNegotiatingStep

(* Entering StatePlaying or StateIdle through the head of the queue. *)
LEMMA EnterOtherStep ==
  ASSUME IInv, TypeOK', NEW n \in Node, ExecuteSwitch(n),
         \/ /\ Head(switches[n]).to = "playing" /\ phase[n] # "playing"
            /\ EnterPlaying(n, Head(switches[n]).peers, Head(switches[n]).mac)
         \/ Head(switches[n]).to = "idle" /\ EnterIdle(n)
  PROVE  IInv'
<1> DEFINE sw == Head(switches[n])
<1>1. /\ TypeOK /\ round \in [Node -> Nat] /\ phase \in [Node -> Phase]
      /\ loop \in [Node -> Loop] /\ peers \in [Node -> SUBSET Node]
      /\ connected \in [Node -> SUBSET Node] /\ failing \in [Node -> SUBSET Node]
      /\ DOMAIN offers = Node
  BY DEF IInv, TypeOK
<1>2. /\ 1 \in DOMAIN switches[n] /\ sw = switches[n][1] /\ sw \in Switch
      /\ \A m \in Node \ {n} : switches'[m] = switches[m]
      /\ \A k \in DOMAIN switches'[n] : /\ k \in Nat /\ k + 1 # 1
                                        /\ k + 1 \in DOMAIN switches[n]
                                        /\ switches'[n][k] = switches[n][k + 1]
  <2>1. switches'[n] \in Seq(Switch)
    BY DEF TypeOK
  <2>2. \A k \in DOMAIN switches'[n] : k \in Nat /\ k + 1 # 1
    BY <2>1
  <2>3. QED
    BY <1>1, <2>2, TailFacts
<1>3. /\ UNCHANGED <<round, wire>>
      /\ \A m \in Node \ {n} : /\ phase'[m] = phase[m] /\ loop'[m] = loop[m]
                               /\ peers'[m] = peers[m] /\ connected'[m] = connected[m]
                               /\ failing'[m] = failing[m] /\ offers'[m] = offers[m]
      /\ \/ /\ sw.to = "playing" /\ phase'[n] = "playing" /\ peers'[n] = sw.peers
            /\ connected'[n] = sw.peers
         \/ /\ sw.to = "idle" /\ phase'[n] = "idle" /\ peers'[n] = {}
            /\ connected'[n] = {}
      /\ failing'[n] = {} /\ offers'[n] = NoOffers
  BY <1>1 DEF EnterPlaying, EnterIdle, ExecuteSwitch
<1> HIDE DEF sw
<1>4. ShapeInv'
  <2>1. NeverOwnPeer'
    BY <1>2, <1>3 DEF IInv, ShapeInv, NeverOwnPeer
  <2>2. QueueShape'
    <3>1. /\ \A k \in Queued(n, "playing")' : k \in Nat /\ k + 1 \in Queued(n, "playing")
          /\ \A k \in Queued(n, "negotiating")' : k + 1 \in Queued(n, "negotiating")
      BY <1>2 DEF Queued
    <3>2. QueueShapeOf(n)
      BY DEF IInv, ShapeInv, QueueShape
    <3>3. sw.to = "playing" => Queued(n, "playing")' = {}
      <4>1. sw.to = "playing" => 1 \in Queued(n, "playing")
        BY <1>2 DEF Queued
      <4>2. ASSUME sw.to = "playing", NEW k \in Queued(n, "playing")'
            PROVE  FALSE
        <5>1. k + 1 = 1
          BY <3>1, <3>2, <4>1, <4>2 DEF QueueShapeOf
        <5>2. QED
          BY <1>2, <4>2, <5>1 DEF Queued
      <4>3. QED
        BY <4>2
    <3>4. \A j, k \in Queued(n, "playing")' : j = k
      BY <3>1, <3>2 DEF QueueShapeOf
    <3>5. QueueShapeOf(n)'
      BY <1>3, <3>1, <3>2, <3>3, <3>4 DEF QueueShapeOf
    <3>6. QED
      BY <1>2, <1>3, <3>5, QueueShapeStep DEF IInv, ShapeInv
  <2>3. OffersMatchPeers' /\ OwnOffer'
    BY <1>3 DEF IInv, ShapeInv, OffersMatchPeers, OwnOffer
  <2>4. QED
    BY <2>1, <2>2, <2>3 DEF ShapeInv
<1>5. \A m \in Node : round[m] <= round'[m]
  BY <1>1, <1>3
<1>6. RoundsKnown'
  <2>1. \A m \in Node : \A p \in DOMAIN offers'[m] :
          p \in DOMAIN offers[m] /\ offers'[m][p] = offers[m][p]
    BY <1>3 DEF NoOffers
  <2>2. \A m \in Node : \A k \in DOMAIN switches'[m] :
          \E j \in DOMAIN switches[m] : switches'[m][k] = switches[m][j]
    BY <1>2
  <2>3. QED
    BY <1>1, <1>3, <1>5, <2>1, <2>2, RoundsKnownStep DEF IInv
<1>7. PlaysInRoundOfPeers'
  <2>1. sw.to = "playing" => \A p \in sw.peers : round[n] <= round[p]
    BY <1>2 DEF IInv, PlaysInRoundOfPeers, Queued
  <2>2. \A m \in Node : \A k \in DOMAIN switches'[m] :
          \E j \in DOMAIN switches[m] : switches'[m][k] = switches[m][j]
    BY <1>2
  <2>3. QED
    BY <1>1, <1>3, <1>5, <2>1, <2>2, PlaysInRoundStep DEF IInv
<1>8. QED
  BY <1>4, <1>6, <1>7 DEF IInv

(* A switch to the type of the current state only leaves the queue. *)
LEMMA DroppedSwitchStep ==
  ASSUME IInv, TypeOK', NEW n \in Node, ExecuteSwitch(n),
         Head(switches[n]).to = phase[n],
         UNCHANGED <<phase, round, loop, peers, connected, offers, generator,
                     ignoring, failing>>
  PROVE  IInv'
<1>1. TypeOK /\ round \in [Node -> Nat] /\ UNCHANGED wire
  BY DEF IInv, TypeOK, ExecuteSwitch
<1>2. /\ 1 \in DOMAIN switches[n] /\ Head(switches[n]) = switches[n][1]
      /\ \A m \in Node \ {n} : switches'[m] = switches[m]
      /\ \A k \in DOMAIN switches'[n] : /\ k \in Nat /\ k + 1 \in DOMAIN switches[n]
                                        /\ switches'[n][k] = switches[n][k + 1]
  <2>1. switches'[n] \in Seq(Switch)
    BY DEF TypeOK
  <2>2. \A k \in DOMAIN switches'[n] : k \in Nat
    BY <2>1
  <2>3. QED
    BY <1>1, <2>2, TailFacts
<1>3. /\ \A k \in Queued(n, "playing")' : k \in Nat /\ k + 1 \in Queued(n, "playing")
      /\ \A k \in Queued(n, "negotiating")' : k + 1 \in Queued(n, "negotiating")
  BY <1>2 DEF Queued
<1>4. \A m \in Node : \A k \in DOMAIN switches'[m] :
        \E j \in DOMAIN switches[m] : switches'[m][k] = switches[m][j]
  BY <1>2
<1>5. ShapeInv'
  <2>1. NeverOwnPeer'
    BY <1>2 DEF IInv, ShapeInv, NeverOwnPeer
  <2>2. QueueShapeOf(n)
    BY DEF IInv, ShapeInv, QueueShape
  <2>3. QueueShapeOf(n)'
    <3>1. phase[n] # "connecting"
      BY <1>2, <2>2 DEF QueueShapeOf
    <3>2. \A j, k \in Queued(n, "playing")' : j = k
      BY <1>3, <2>2 DEF QueueShapeOf
    <3>3. QED
      BY <1>3, <2>2, <3>1, <3>2 DEF QueueShapeOf
  <2>4. QueueShape'
    BY <1>2, <2>3, QueueShapeStep DEF IInv, ShapeInv
  <2>5. OffersMatchPeers' /\ OwnOffer'
    BY DEF IInv, ShapeInv, OffersMatchPeers, OwnOffer
  <2>6. QED
    BY <2>1, <2>4, <2>5 DEF ShapeInv
<1>6. \A m \in Node : round[m] <= round'[m]
  BY <1>1
<1>7. RoundsKnown'
  BY <1>1, <1>4, <1>6, RoundsKnownStep DEF IInv
<1>8. PlaysInRoundOfPeers'
  BY <1>1, <1>4, <1>6, PlaysInRoundStep DEF IInv
<1>9. QED
  BY <1>5, <1>7, <1>8 DEF IInv

LEMMA ExecuteSwitchStep ==
  ASSUME IInv, NEW n \in Node, ExecuteSwitch(n)
  PROVE  IInv'
<1> DEFINE sw == Head(switches[n])
<1>1. TypeOK /\ TypeOK'
  BY ExecuteSwitchType DEF IInv
<1>2. /\ 1 \in DOMAIN switches[n] /\ sw = switches[n][1] /\ sw \in Switch
      /\ \A m \in Node \ {n} : switches'[m] = switches[m]
      /\ \A k \in DOMAIN switches'[n] : /\ k + 1 \in DOMAIN switches[n]
                                        /\ switches'[n][k] = switches[n][k + 1]
  BY <1>1, TailFacts
<1>3. UNCHANGED <<wire, linked>>
  BY DEF ExecuteSwitch
<1>4. CASE /\ sw.to = phase[n]
           /\ UNCHANGED <<phase, round, loop, peers, connected, offers, generator,
                          ignoring, failing>>
  BY <1>1, <1>2, <1>3, <1>4, DroppedSwitchStep
<1>5. CASE sw.to = "negotiating" /\ EnterNegotiating(n, sw.peers, sw.mac, sw.offer)
  <2>1. Queued(n, "playing") = {}
    BY <1>2, <1>5 DEF IInv, ShapeInv, QueueShape, QueueShapeOf, Queued
  <2>2. n \notin sw.peers
    BY <1>2 DEF IInv, ShapeInv, NeverOwnPeer
  <2>3. sw.mac \in Node => sw.offer.round <= round[sw.mac]
    BY <1>2 DEF IInv, RoundsKnown
  <2>4. sw.peers \in SUBSET Node /\ sw.mac \in Mac /\ sw.offer \in Offer
    BY <1>2 DEF Switch
  <2> HIDE DEF sw
  <2>5. QED
    BY <1>1, <1>2, <1>3, <1>5, <2>1, <2>2, <2>3, <2>4, EnterNegotiatingStep
<1>6. CASE /\ sw.to = "playing" /\ phase[n] # "playing"
           /\ EnterPlaying(n, sw.peers, sw.mac)
  BY <1>1, <1>6, EnterOtherStep
<1>7. CASE sw.to = "idle" /\ EnterIdle(n)
  BY <1>1, <1>7, EnterOtherStep
<1>8. QED
  BY <1>4, <1>5, <1>6, <1>7 DEF ExecuteSwitch

-----------------------------------------------------------------------------
(* The remaining actions, each an instance of QuietStep or RequestStep.      *)

LEMMA WireTail ==
  ASSUME TypeOK, NEW n \in Node, NEW p \in Node, wire[p][n] # <<>>, ConsumeFrom(p, n)
  PROVE  /\ wire' \in [Node -> [Node -> Seq(Offer)]]
         /\ Head(wire[p][n]) \in Offer
         /\ 1 \in DOMAIN wire[p][n] /\ Head(wire[p][n]) = wire[p][n][1]
         /\ \A m, q \in Node : \A k \in DOMAIN wire'[q][m] :
              \E j \in DOMAIN wire[q][m] : wire'[q][m][k] = wire[q][m][j]
<1>1. wire[p][n] \in Seq(Offer) /\ wire \in [Node -> [Node -> Seq(Offer)]]
  BY DEF TypeOK
<1>2. wire' = [wire EXCEPT ![p][n] = Tail(wire[p][n])]
  BY DEF ConsumeFrom
<1>3. /\ Tail(wire[p][n]) \in Seq(Offer) /\ Head(wire[p][n]) \in Offer
      /\ 1 \in DOMAIN wire[p][n] /\ Head(wire[p][n]) = wire[p][n][1]
      /\ \A k \in DOMAIN Tail(wire[p][n]) :
           k + 1 \in DOMAIN wire[p][n] /\ Tail(wire[p][n])[k] = wire[p][n][k + 1]
  BY <1>1
<1>4. wire' \in [Node -> [Node -> Seq(Offer)]]
  BY <1>1, <1>2, <1>3
<1>5. \A m, q \in Node : \/ q = p /\ m = n /\ wire'[q][m] = Tail(wire[p][n])
                         \/ wire'[q][m] = wire[q][m]
  BY <1>1, <1>2
<1>6. ASSUME NEW m \in Node, NEW q \in Node, NEW k \in DOMAIN wire'[q][m]
      PROVE  \E j \in DOMAIN wire[q][m] : wire'[q][m][k] = wire[q][m][j]
  <2>1. CASE wire'[q][m] = wire[q][m]
    BY <1>6, <2>1
  <2>2. CASE q = p /\ m = n /\ wire'[q][m] = Tail(wire[p][n])
    BY <1>3, <1>6, <2>2
  <2>3. QED
    BY <1>5, <2>1, <2>2
<1>7. QED
  BY <1>3, <1>4, <1>6

(* Offers and peers lose one phone together. *)
LEMMA ForgetPeer ==
  ASSUME IInv, NEW n \in Node, NEW p \in Node \ {n},
         peers' = [peers EXCEPT ![n] = @ \ {p}],
         offers' = [offers EXCEPT ![n] =
           [m \in DOMAIN offers[n] \ {p} |-> offers[n][m]]],
         UNCHANGED <<phase, loop>>
  PROVE  /\ peers' \in [Node -> SUBSET Node]
         /\ DOMAIN offers' = Node /\ \A m \in Node : IsOfferMap(offers'[m])
         /\ OffersMatchPeers'
         /\ \A m \in Node : peers'[m] \subseteq peers[m]
         /\ \A m \in Node : \A q \in DOMAIN offers'[m] :
              q \in DOMAIN offers[m] /\ offers'[m][q] = offers[m][q]
<1>1. /\ peers \in [Node -> SUBSET Node] /\ DOMAIN offers = Node
      /\ \A m \in Node : IsOfferMap(offers[m])
  BY DEF IInv, TypeOK
<1>2. /\ \A m \in Node \ {n} : offers'[m] = offers[m] /\ peers'[m] = peers[m]
      /\ offers'[n] = [m \in DOMAIN offers[n] \ {p} |-> offers[n][m]]
      /\ peers'[n] = peers[n] \ {p}
  BY <1>1
<1>3. IsOfferMap(offers'[n])
  BY <1>1, <1>2 DEF IsOfferMap
<1>4. OffersMatchPeers'
  BY <1>2 DEF IInv, ShapeInv, OffersMatchPeers
<1>5. QED
  BY <1>1, <1>2, <1>3, <1>4

LEMMA ReceiveOfferStep ==
  ASSUME IInv, NEW n \in Node, NEW p \in Node \ {n}, ReceiveOffer(n, p)
  PROVE  IInv'
<1>1. /\ TypeOK /\ OffersMatchPeers /\ NeverOwnPeer
      /\ DOMAIN offers = Node /\ \A m \in Node : IsOfferMap(offers[m])
  BY DEF IInv, ShapeInv, TypeOK
<1>2. /\ wire[p][n] # <<>> /\ ConsumeFrom(p, n) /\ phase[n] = "negotiating"
      /\ UNCHANGED <<phase, switches, round, loop, peers, connected, generator,
                     ignoring, failing, linked>>
  BY DEF ReceiveOffer
<1>3. /\ wire' \in [Node -> [Node -> Seq(Offer)]]
      /\ Head(wire[p][n]) \in Offer
      /\ 1 \in DOMAIN wire[p][n] /\ Head(wire[p][n]) = wire[p][n][1]
      /\ \A m, q \in Node : \A k \in DOMAIN wire'[q][m] :
           \E j \in DOMAIN wire[q][m] : wire'[q][m][k] = wire[q][m][j]
  BY <1>1, <1>2, WireTail
<1>4. /\ OffersMatchPeers'
      /\ DOMAIN offers' = Node /\ \A m \in Node : IsOfferMap(offers'[m])
      /\ \A m \in Node : \A q \in DOMAIN offers'[m] :
           /\ q \in DOMAIN offers[m]
           /\ \/ offers'[m][q] = offers[m][q]
              \/ q # m /\ \E j \in DOMAIN wire[q][m] : offers'[m][q] = wire[q][m][j]
  <2>1. CASE p \in peers[n] /\ offers' = [offers EXCEPT ![n][p] = Head(wire[p][n])]
    <3>1. /\ DOMAIN offers' = Node
          /\ \A m \in Node \ {n} : offers'[m] = offers[m]
          /\ DOMAIN offers'[n] = DOMAIN offers[n]
          /\ \A q \in DOMAIN offers[n] :
               offers'[n][q] = IF q = p THEN Head(wire[p][n]) ELSE offers[n][q]
      BY <1>1, <2>1
    <3>2. OffersMatchPeers'
      BY <1>1, <1>2, <3>1 DEF OffersMatchPeers
    <3>3. IsOfferMap(offers'[n])
      <4>1. offers'[n] = [q \in DOMAIN offers[n] |->
                            IF q = p THEN Head(wire[p][n]) ELSE offers[n][q]]
        BY <1>1, <2>1
      <4>2. QED
        BY <1>1, <1>3, <4>1 DEF IsOfferMap
    <3>4. /\ \A m \in Node : IsOfferMap(offers'[m])
          /\ DOMAIN offers' = Node
      BY <1>1, <3>1, <3>3
    <3>5. ASSUME NEW m \in Node, NEW q \in DOMAIN offers'[m]
          PROVE  /\ q \in DOMAIN offers[m]
                 /\ \/ offers'[m][q] = offers[m][q]
                    \/ q # m /\ \E j \in DOMAIN wire[q][m] : offers'[m][q] = wire[q][m][j]
      <4>1. CASE m # n
        BY <3>1, <3>5, <4>1
      <4>2. CASE m = n /\ q # p
        BY <3>1, <3>5, <4>2
      <4>3. CASE m = n /\ q = p
        BY <1>3, <3>1, <3>5, <4>3
      <4>4. QED
        BY <4>1, <4>2, <4>3
    <3>6. QED
      BY <3>2, <3>4, <3>5
  <2>2. CASE UNCHANGED offers
    BY <1>1, <1>2, <2>2 DEF OffersMatchPeers
  <2>3. QED
    BY <2>1, <2>2 DEF ReceiveOffer
<1>5. TypeOK'
  BY <1>1, <1>2, <1>3, <1>4 DEF TypeOK
<1>6. QED
  BY <1>2, <1>3, <1>4, <1>5, QuietStep

LEMMA IgnoreOrDropStep ==
  ASSUME IInv, NEW n \in Node, NEW p \in Node \ {n}, IgnoreOffer(n, p) \/ DropOffer(n, p)
  PROVE  IInv'
<1>1. TypeOK /\ OffersMatchPeers
  BY DEF IInv, ShapeInv
<1>2. /\ wire[p][n] # <<>> /\ ConsumeFrom(p, n)
      /\ UNCHANGED <<phase, switches, round, loop, peers, offers, generator,
                     ignoring, failing, linked>>
      /\ connected' = connected
         \/ connected' = [connected EXCEPT ![n] = @ \cup ({p} \cap peers[n])]
  BY DEF IgnoreOffer, DropOffer
<1>3. /\ wire' \in [Node -> [Node -> Seq(Offer)]]
      /\ \A m, q \in Node : \A k \in DOMAIN wire'[q][m] :
           \E j \in DOMAIN wire[q][m] : wire'[q][m][k] = wire[q][m][j]
  BY <1>1, <1>2, WireTail
<1>4. /\ connected' \in [Node -> SUBSET Node]
      /\ \A m \in Node : connected'[m] \subseteq connected[m] \cup peers[m]
  <2>1. connected \in [Node -> SUBSET Node] /\ peers \in [Node -> SUBSET Node]
    BY <1>1 DEF TypeOK
  <2>2. CASE connected' = connected
    BY <2>1, <2>2
  <2>3. CASE connected' = [connected EXCEPT ![n] = connected[n] \cup ({p} \cap peers[n])]
    BY <2>1, <2>3
  <2>4. QED
    BY <1>2, <2>2, <2>3
<1>5. TypeOK'
  BY <1>1, <1>2, <1>3, <1>4 DEF TypeOK
<1>6. OffersMatchPeers'
  BY <1>1, <1>2 DEF OffersMatchPeers
<1>7. QED
  BY <1>2, <1>3, <1>4, <1>5, <1>6, QuietStep

LEMMA SendFailedStep ==
  ASSUME IInv, NEW n \in Node, NEW p \in Node \ {n}, SendFailed(n, p)
  PROVE  IInv'
<1>1. TypeOK /\ UNCHANGED <<phase, switches, round, loop, connected, generator, ignoring,
                            wire, linked>>
  BY DEF SendFailed, IInv
<1>2. /\ failing' \in [Node -> SUBSET Node]
      /\ \A m \in Node : failing'[m] \subseteq failing[m]
  BY <1>1 DEF SendFailed, TypeOK
<1>3. /\ peers' \in [Node -> SUBSET Node]
      /\ DOMAIN offers' = Node /\ \A m \in Node : IsOfferMap(offers'[m])
      /\ OffersMatchPeers'
      /\ \A m \in Node : peers'[m] \subseteq peers[m]
      /\ \A m \in Node : \A q \in DOMAIN offers'[m] :
           q \in DOMAIN offers[m] /\ offers'[m][q] = offers[m][q]
  BY ForgetPeer DEF SendFailed
<1>4. TypeOK'
  BY <1>1, <1>2, <1>3 DEF TypeOK
<1>5. QED
  BY <1>1, <1>2, <1>3, <1>4, QuietStep

(* The wire p -> n is emptied or kept. *)
LEMMA WireCleared ==
  ASSUME TypeOK, NEW n \in Node, NEW p \in Node,
         wire' = [wire EXCEPT ![p][n] = <<>>] \/ UNCHANGED wire
  PROVE  /\ wire' \in [Node -> [Node -> Seq(Offer)]]
         /\ \A m, q \in Node : \A k \in DOMAIN wire'[q][m] :
              \E j \in DOMAIN wire[q][m] : wire'[q][m][k] = wire[q][m][j]
<1>1. wire \in [Node -> [Node -> Seq(Offer)]] /\ <<>> \in Seq(Offer)
  BY DEF TypeOK
<1>2. CASE wire' = [wire EXCEPT ![p][n] = <<>>]
  <2>1. [wire[p] EXCEPT ![n] = <<>>] \in [Node -> Seq(Offer)]
    BY <1>1
  <2>2. wire' \in [Node -> [Node -> Seq(Offer)]]
    BY <1>1, <1>2, <2>1
  <2>3. ASSUME NEW m \in Node, NEW q \in Node
        PROVE  wire'[q][m] = <<>> \/ wire'[q][m] = wire[q][m]
    BY <1>1, <1>2
  <2>4. DOMAIN <<>> = {}
    OBVIOUS
  <2>5. ASSUME NEW m \in Node, NEW q \in Node, NEW k \in DOMAIN wire'[q][m]
        PROVE  \E j \in DOMAIN wire[q][m] : wire'[q][m][k] = wire[q][m][j]
    BY <2>3, <2>4, <2>5
  <2>6. QED
    BY <2>2, <2>5
<1>3. QED
  BY <1>1, <1>2

LEMMA ReadFailureNegotiatingStep ==
  ASSUME IInv, NEW n \in Node, NEW p \in Node \ {n}, ReadFailureNegotiating(n, p)
  PROVE  IInv'
<1>1. TypeOK /\ UNCHANGED <<phase, switches, round, loop, connected, generator, ignoring,
                            failing, linked>>
  BY DEF ReadFailureNegotiating, IInv
<1>2. /\ wire' \in [Node -> [Node -> Seq(Offer)]]
      /\ \A m, q \in Node : \A k \in DOMAIN wire'[q][m] :
           \E j \in DOMAIN wire[q][m] : wire'[q][m][k] = wire[q][m][j]
  BY <1>1, WireCleared DEF ReadFailureNegotiating
<1>3. /\ peers' \in [Node -> SUBSET Node]
      /\ DOMAIN offers' = Node /\ \A m \in Node : IsOfferMap(offers'[m])
      /\ OffersMatchPeers'
      /\ \A m \in Node : peers'[m] \subseteq peers[m]
      /\ \A m \in Node : \A q \in DOMAIN offers'[m] :
           q \in DOMAIN offers[m] /\ offers'[m][q] = offers[m][q]
  BY ForgetPeer DEF ReadFailureNegotiating
<1>4. TypeOK'
  BY <1>1, <1>2, <1>3 DEF TypeOK
<1>5. QED
  BY <1>1, <1>2, <1>3, <1>4, QuietStep

LEMMA QueueType ==
  ASSUME TypeOK, NEW n \in Node, NEW sw \in Switch, Queue(n, sw)
  PROVE  switches' \in [Node -> Seq(Switch)]
BY DEF Queue, TypeOK

LEMMA NegotiatingSwitch ==
  ASSUME NEW S \in SUBSET Node, NEW mac, NEW offer
  PROVE  LET sw == ToNegotiating(S, mac, offer)
         IN  /\ sw.to = "negotiating" /\ sw.peers = S /\ sw.mac = mac /\ sw.offer = offer
             /\ mac \in Mac /\ offer \in Offer => sw \in Switch
             /\ NoMac \in Mac \ Node /\ Blank \in Offer
BY SwitchTypes, NodeAssumption DEF ToNegotiating, Mac, Blank, Offer

LEMMA ReadFailurePlayingStep ==
  ASSUME IInv, NEW n \in Node, NEW p \in Node \ {n}, ReadFailurePlaying(n, p)
  PROVE  IInv'
<1>1. /\ TypeOK /\ OffersMatchPeers /\ NeverOwnPeer /\ phase[n] = "playing"
      /\ UNCHANGED <<phase, round, loop, peers, offers, generator, ignoring, failing,
                     linked>>
      /\ connected' = [connected EXCEPT ![n] = @ \ {p}]
  BY DEF ReadFailurePlaying, IInv, ShapeInv
<1>2. /\ wire' \in [Node -> [Node -> Seq(Offer)]]
      /\ \A m, q \in Node : \A k \in DOMAIN wire'[q][m] :
           \E j \in DOMAIN wire[q][m] : wire'[q][m][k] = wire[q][m][j]
  BY <1>1, WireCleared DEF ReadFailurePlaying
<1>3. /\ connected' \in [Node -> SUBSET Node]
      /\ \A m \in Node : connected'[m] \subseteq connected[m]
  BY <1>1 DEF TypeOK
<1>4. CASE UNCHANGED switches
  <2>1. TypeOK' /\ OffersMatchPeers'
    BY <1>1, <1>2, <1>3, <1>4 DEF TypeOK, OffersMatchPeers
  <2>2. QED
    BY <1>1, <1>2, <1>3, <1>4, <2>1, QuietStep
<1>5. CASE Queue(n, ToNegotiating(connected[n] \ {p}, NoMac, Blank))
  <2> DEFINE sw == ToNegotiating(connected[n] \ {p}, NoMac, Blank)
  <2>1. /\ sw \in Switch /\ sw.to = "negotiating" /\ n \notin sw.peers
        /\ sw.mac = NoMac /\ NoMac \notin Node
    BY <1>1, NegotiatingSwitch DEF TypeOK, NeverOwnPeer
  <2> HIDE DEF sw
  <2>2. TypeOK'
    BY <1>1, <1>2, <1>3, <1>5, <2>1, QueueType DEF TypeOK, sw
  <2>3. Queue(n, sw) /\ sw.to = "negotiating" /\ phase[n] = "playing"
    BY <1>1, <1>5, <2>1 DEF sw
  <2>4. /\ UNCHANGED <<phase, round, loop, offers, failing>>
        /\ sw.mac \in Node => sw.offer.round <= round[sw.mac]
    BY <1>1, <2>1
  <2>5. /\ \A m \in Node : peers'[m] \subseteq peers[m] /\ connected'[m] \subseteq connected[m]
        /\ \A m \in Node : phase[m] = "negotiating" => peers'[m] = peers[m]
    BY <1>1, <1>3
  <2>6. QED
    BY <1>2, <2>1, <2>2, <2>3, <2>4, <2>5, RequestStep
<1>6. QED
  BY <1>4, <1>5 DEF ReadFailurePlaying

LEMMA RenegotiateStep ==
  ASSUME IInv, NEW n \in Node, Renegotiate(n)
  PROVE  IInv'
<1> DEFINE sw == ToNegotiating(connected[n], NoMac, Blank)
<1>1. /\ TypeOK /\ NeverOwnPeer /\ phase[n] = "playing" /\ Queue(n, sw)
      /\ UNCHANGED <<phase, round, loop, peers, connected, offers, generator, ignoring,
                     failing, wire, linked>>
  BY DEF Renegotiate, IInv, ShapeInv
<1>2. /\ sw \in Switch /\ sw.to = "negotiating" /\ n \notin sw.peers
      /\ sw.mac = NoMac /\ NoMac \notin Node
  BY <1>1, NegotiatingSwitch DEF TypeOK, NeverOwnPeer
<1> HIDE DEF sw
<1>3. TypeOK'
  BY <1>1, <1>2, QueueType DEF TypeOK
<1>4. QED
  BY <1>1, <1>2, <1>3, RequestStep

LEMMA RejoinNegotiationStep ==
  ASSUME IInv, NEW n \in Node, NEW p \in Node \ {n}, RejoinNegotiation(n, p)
  PROVE  IInv'
<1> DEFINE sw == ToNegotiating(connected[n] \cup {p}, p, Head(wire[p][n]))
<1>1. /\ TypeOK /\ NeverOwnPeer /\ phase[n] = "playing" /\ Queue(n, sw)
      /\ wire[p][n] # <<>> /\ ConsumeFrom(p, n)
      /\ UNCHANGED <<phase, round, loop, offers, generator, ignoring, failing, linked>>
  BY DEF RejoinNegotiation, IInv, ShapeInv
<1>2. /\ wire' \in [Node -> [Node -> Seq(Offer)]]
      /\ Head(wire[p][n]) \in Offer
      /\ 1 \in DOMAIN wire[p][n] /\ Head(wire[p][n]) = wire[p][n][1]
      /\ \A m, q \in Node : \A k \in DOMAIN wire'[q][m] :
           \E j \in DOMAIN wire[q][m] : wire'[q][m][k] = wire[q][m][j]
  BY <1>1, WireTail
<1>3. /\ peers' \in [Node -> SUBSET Node] /\ connected' \in [Node -> SUBSET Node]
      /\ \A m \in Node : /\ peers'[m] \subseteq peers[m]
                         /\ connected'[m] \subseteq connected[m]
                         /\ m # n => peers'[m] = peers[m]
  BY <1>1 DEF TypeOK, RejoinNegotiation
<1>4. /\ sw \in Switch /\ sw.to = "negotiating" /\ n \notin sw.peers
      /\ sw.mac = p /\ sw.offer = Head(wire[p][n])
  <2>1. connected[n] \cup {p} \in SUBSET Node /\ n \notin connected[n] \cup {p}
    BY <1>1 DEF TypeOK, NeverOwnPeer
  <2>2. p \in Mac
    BY DEF Mac
  <2>3. QED
    BY <1>2, <2>1, <2>2, NegotiatingSwitch
<1>5. sw.offer.round <= round[p]
  BY <1>2, <1>4 DEF IInv, RoundsKnown
<1> HIDE DEF sw
<1>6. TypeOK'
  BY <1>1, <1>2, <1>3, <1>4, QueueType DEF TypeOK
<1>7. \A m \in Node : phase[m] = "negotiating" => peers'[m] = peers[m]
  <2>1. phase[n] = "playing"
    BY <1>1
  <2>2. ASSUME NEW m \in Node, phase[m] = "negotiating"
        PROVE  peers'[m] = peers[m]
    <3>1. m # n
      BY <2>1, <2>2
    <3>2. QED
      BY <1>3, <3>1
  <2>3. QED
    BY <2>2
<1>8. sw.mac \in Node => sw.offer.round <= round[sw.mac]
  BY <1>4, <1>5
<1>9. /\ \A m \in Node : peers'[m] \subseteq peers[m] /\ connected'[m] \subseteq connected[m]
      /\ \A m, q \in Node : \A k \in DOMAIN wire'[q][m] :
           \E j \in DOMAIN wire[q][m] : wire'[q][m][k] = wire[q][m][j]
      /\ UNCHANGED <<phase, round, loop, offers, failing>>
      /\ sw \in Switch /\ Queue(n, sw) /\ n \notin sw.peers
      /\ sw.to = "negotiating" /\ phase[n] = "playing"
  BY <1>1, <1>2, <1>3, <1>4
<1>10. QED
  BY <1>6, <1>7, <1>8, <1>9, RequestStep

LEMMA StopGameStep ==
  ASSUME IInv, NEW n \in Node, StopGame(n)
  PROVE  IInv'
<1>1. /\ TypeOK /\ phase[n] \in {"negotiating", "playing"} /\ Queue(n, ToIdle)
      /\ UNCHANGED <<phase, round, loop, peers, connected, offers, generator, ignoring,
                     failing, wire>>
      /\ linked' \subseteq linked
  BY DEF StopGame, IInv
<1>2. ToIdle \in Switch /\ ToIdle.to = "idle" /\ n \notin ToIdle.peers
      /\ ToIdle.mac \notin Node
  BY SwitchTypes, NodeAssumption DEF ToIdle
<1>3. TypeOK'
  BY <1>1, <1>2, QueueType DEF TypeOK
<1>4. QED
  BY <1>1, <1>2, <1>3, RequestStep

LEMMA RefusedOverOrBreaksStep ==
  ASSUME IInv, NEW n \in Node,
         NegotiationRefused(n) \/ IgnoreOver(n) \/ \E p \in Others(n) : LinkBreaks(n, p)
  PROVE  IInv'
<1>1. TypeOK /\ OffersMatchPeers
  BY DEF IInv, ShapeInv
<1>2. CASE NegotiationRefused(n)
  <2>1. TypeOK'
    BY <1>1, <1>2 DEF TypeOK, NegotiationRefused, Loop
  <2>2. OffersMatchPeers'
    BY <1>1, <1>2 DEF OffersMatchPeers, NegotiationRefused, TypeOK
  <2>3. \A m \in Node : \/ loop'[m] = loop[m]
                        \/ /\ loop[m] = "asked" /\ loop'[m] = "stuck"
                           /\ Queued(m, "negotiating") = {}
    BY <1>1, <1>2 DEF NegotiationRefused, TypeOK
  <2>4. UNCHANGED <<phase, switches, round, peers, connected, offers, failing, wire>>
    BY <1>2 DEF NegotiationRefused
  <2>5. QED
    BY <2>1, <2>2, <2>3, <2>4, QuietStep
<1>3. CASE IgnoreOver(n) \/ \E p \in Others(n) : LinkBreaks(n, p)
  <2>1. UNCHANGED <<phase, switches, round, loop, peers, connected, offers, failing, wire>>
    BY <1>3 DEF IgnoreOver, LinkBreaks
  <2>2. TypeOK' /\ OffersMatchPeers'
    BY <1>1, <1>3, <2>1 DEF TypeOK, OffersMatchPeers, IgnoreOver, LinkBreaks
  <2>3. QED
    BY <2>1, <2>2, QuietStep
<1>4. QED
  BY <1>2, <1>3

-----------------------------------------------------------------------------
(* The invariants.                                                           *)

LEMMA InitIInv ==
  ASSUME Init
  PROVE  IInv
<1>1. TypeOK
  <2>1. round \in [Node -> Nat]
    BY BoundAssumption DEF Init
  <2>2. \A n \in Node : IsOfferMap(offers[n])
    BY DEF Init, IsOfferMap, NoOffers
  <2>3. wire \in [Node -> [Node -> Seq(Offer)]]
    BY DEF Init
  <2>4. linked \subseteq AllLinks /\ switches \in [Node -> Seq(Switch)]
    BY DEF Init
  <2>5. QED
    BY <2>1, <2>2, <2>3, <2>4 DEF Init, TypeOK, Phase, Loop, Mac
<1>2. ShapeInv
  BY DEF Init, ShapeInv, NeverOwnPeer, QueueShape, QueueShapeOf, Queued,
         OffersMatchPeers, OwnOffer
<1>3. RoundsKnown
  BY DEF Init, RoundsKnown, NoOffers
<1>4. PlaysInRoundOfPeers
  BY DEF Init, PlaysInRoundOfPeers, Queued
<1>5. QED
  BY <1>1, <1>2, <1>3, <1>4 DEF IInv

LEMMA NextIInv ==
  ASSUME IInv, [Next]_vars
  PROVE  IInv'
<1>1. CASE UNCHANGED vars
  BY <1>1 DEF vars, IInv, TypeOK, ShapeInv, NeverOwnPeer, QueueShape, QueueShapeOf,
              Queued, OffersMatchPeers, OwnOffer, RoundsKnown, PlaysInRoundOfPeers
<1>2. CASE Next
  <2>1. \A n \in Node : Others(n) = Node \ {n}
    BY DEF Others
  <2>2. PICK n \in Node :
           \/ StartGame(n)
           \/ ExecuteSwitch(n)
           \/ LoopMayRun(n) /\ Agree(n)
           \/ LoopMayRun(n) /\ \E lost : Broadcast(n, lost)
           \/ NegotiationRefused(n)
           \/ IgnoreOver(n)
           \/ Renegotiate(n)
           \/ StopGame(n)
           \/ \E p \in Others(n) :
                \/ ReceiveOffer(n, p)
                \/ RejoinNegotiation(n, p)
                \/ IgnoreOffer(n, p)
                \/ DropOffer(n, p)
                \/ SendFailed(n, p)
                \/ ReadFailureNegotiating(n, p)
                \/ ReadFailurePlaying(n, p)
                \/ LinkBreaks(n, p)
    BY <1>2, NextCases
  <2>3. CASE StartGame(n)
    BY <2>3, StartGameStep
  <2>4. CASE ExecuteSwitch(n)
    BY <2>4, ExecuteSwitchStep
  <2>5. CASE LoopMayRun(n) /\ Agree(n)
    BY <2>5, AgreeStep
  <2>6. CASE LoopMayRun(n) /\ \E lost : Broadcast(n, lost)
    BY <2>6, BroadcastStep
  <2>7. CASE NegotiationRefused(n) \/ IgnoreOver(n)
    BY <2>7, RefusedOverOrBreaksStep
  <2>8. CASE Renegotiate(n)
    BY <2>8, RenegotiateStep
  <2>9. CASE StopGame(n)
    BY <2>9, StopGameStep
  <2>10. ASSUME NEW p \in Node \ {n},
                \/ ReceiveOffer(n, p)
                \/ RejoinNegotiation(n, p)
                \/ IgnoreOffer(n, p)
                \/ DropOffer(n, p)
                \/ SendFailed(n, p)
                \/ ReadFailureNegotiating(n, p)
                \/ ReadFailurePlaying(n, p)
                \/ LinkBreaks(n, p)
         PROVE  IInv'
    BY <2>1, <2>10, ReceiveOfferStep, RejoinNegotiationStep, IgnoreOrDropStep,
       SendFailedStep, ReadFailureNegotiatingStep, ReadFailurePlayingStep,
       RefusedOverOrBreaksStep
  <2>11. QED
    BY <2>1, <2>2, <2>3, <2>4, <2>5, <2>6, <2>7, <2>8, <2>9, <2>10
<1>3. QED
  BY <1>1, <1>2

THEOREM InductiveInvariant == Spec => []IInv
<1>1. Init => IInv
  BY InitIInv
<1>2. IInv /\ [Next]_vars => IInv'
  BY NextIInv
<1>3. QED
  BY <1>1, <1>2, PTL DEF Spec

(***************************************************************************)
(* The coroutines and state objects keep the shape the code gives them.     *)
(***************************************************************************)
THEOREM TypeCorrect == Spec => []TypeOK
<1>1. IInv => TypeOK
  BY DEF IInv
<1>2. QED
  BY <1>1, InductiveInvariant, PTL

(***************************************************************************)
(* m_offers.find(m_localMac) is found whenever UpdateAndBroadcastOffer      *)
(* dereferences it, and the loop waits for peers only, whatever fails.      *)
(***************************************************************************)
THEOREM OffersAlwaysMatchPeers == Spec => []OffersMatchPeers
<1>1. IInv => OffersMatchPeers
  BY DEF IInv, ShapeInv
<1>2. QED
  BY <1>1, InductiveInvariant, PTL

(***************************************************************************)
(* A phone that plays is not ahead of a phone it plays with, for any number *)
(* of phones and any losses: StatePlaying is entered from offers that were  *)
(* all of the local round, and no phone's round decreases.                  *)
(***************************************************************************)
THEOREM PlayersShareRounds == Spec => []PlaysInRoundOfPeers
<1>1. IInv => PlaysInRoundOfPeers
  BY DEF IInv
<1>2. QED
  BY <1>1, InductiveInvariant, PTL

-----------------------------------------------------------------------------
(***************************************************************************)
(* The election: what the negotiation promises the players.  One generator  *)
(* for all while nobody leaves and no link breaks, as in GeneratorElection; *)
(* and one generator for two phones that play with each other when phones   *)
(* leave a game of three.                                                   *)
(***************************************************************************)

-----------------------------------------------------------------------------
(* While nobody leaves every phone keeps negotiating with all the others, so *)
(* every nominee is computed from the whole set of phones.                   *)

OfAll(offer) == offer = Blank \/ offer.mac = Nominee(offer.round, Node)

OffersOfAll ==
  /\ \A p, n \in Node : \A k \in DOMAIN wire[p][n] : OfAll(wire[p][n][k])
  /\ \A n \in Node : \A p \in DOMAIN offers[n] : OfAll(offers[n][p])
  /\ \A n \in Node : \A k \in DOMAIN switches[n] : OfAll(switches[n][k].offer)

(* What leaving the loop with mac says: everybody has reached this round. *)
Elected(n, mac) ==
  /\ mac = Nominee(round[n], Node)
  /\ \A p \in Node : round[n] <= round[p]

KnowsAll(n) ==
  /\ phase[n] \in {"connecting", "negotiating", "playing"}
  /\ failing[n] = {}
  /\ \A k \in DOMAIN switches[n] : switches[n][k].to \in {"negotiating", "playing"}
  /\ phase[n] = "negotiating" /\ loop[n] # "done" => peers[n] = Others(n)
  /\ \A k \in Queued(n, "playing") :
       switches[n][k].peers = Others(n) /\ Elected(n, switches[n][k].mac)
  /\ phase[n] = "playing" =>
       /\ Elected(n, generator[n])
       /\ switches[n] = <<>> => connected[n] = Others(n)
       /\ switches[n] # <<>> => switches[n][1].peers = Others(n)

ReliableInv == IInv /\ linked = AllLinks /\ OffersOfAll /\ \A n \in Node : KnowsAll(n)

LEMMA ReliableCases ==
  ASSUME ReliableNext
  PROVE  \E n \in Node :
           \/ StartGame(n)
           \/ ExecuteSwitch(n)
           \/ LoopMayRun(n) /\ Agree(n)
           \/ LoopMayRun(n) /\ Broadcast(n, {})
           \/ IgnoreOver(n)
           \/ Renegotiate(n)
           \/ \E p \in Node \ {n} :
                \/ ReceiveOffer(n, p)
                \/ RejoinNegotiation(n, p)
                \/ IgnoreOffer(n, p)
                \/ DropOffer(n, p)
                \/ SendFailed(n, p)
                \/ ReadFailureNegotiating(n, p)
                \/ ReadFailurePlaying(n, p)
<1>1. PICK n \in Node : Step(n)
  BY DEF ReliableNext
<1>2. NegotiationStarted(n, {}) \/ LoopTimer(n, {}) =>
        LoopMayRun(n) /\ (Agree(n) \/ Broadcast(n, {}))
  BY DEF NegotiationStarted, LoopTimer, LoopMayRun
<1>3. QED
  BY <1>1, <1>2 DEF Step, Receive, ReadFailure, Others

LEMMA ReliableIsNext == [ReliableNext]_vars => [Next]_vars
BY DEF ReliableNext, Next

LEMMA AllLinked ==
  ASSUME linked = AllLinks, NEW n \in Node, NEW p \in Node \ {n}
  PROVE  Link(n, p) \in linked
<1>1. Link(n, p) \in {Link(m, q) : m \in Node, q \in Node}
  OBVIOUS
<1>2. \A m \in Node : Link(n, p) # {m}
  BY DEF Link
<1>3. QED
  BY <1>1, <1>2 DEF AllLinks

(* The offers that are stored after a step were stored before or name the    *)
(* nominee of all.                                                           *)
LEMMA OffersOfAllStep ==
  ASSUME OffersOfAll,
         \A m, p \in Node : \A k \in DOMAIN wire'[p][m] :
           \/ \E j \in DOMAIN wire[p][m] : wire'[p][m][k] = wire[p][m][j]
           \/ OfAll(wire'[p][m][k]),
         \A m \in Node : \A p \in DOMAIN offers'[m] :
           \/ p \in DOMAIN offers[m] /\ offers'[m][p] = offers[m][p]
           \/ OfAll(offers'[m][p]),
         \A m \in Node : \A k \in DOMAIN switches'[m] :
           \/ \E j \in DOMAIN switches[m] : switches'[m][k] = switches[m][j]
           \/ OfAll(switches'[m][k].offer)
  PROVE  OffersOfAll'
<1>1. \A offer : OfAll(offer)' <=> OfAll(offer)
  BY DEF OfAll
<1>2. ASSUME NEW p \in Node, NEW m \in Node, NEW k \in DOMAIN wire'[p][m]
      PROVE  OfAll(wire'[p][m][k])
  BY DEF OffersOfAll
<1>3. ASSUME NEW m \in Node, NEW p \in DOMAIN offers'[m]
      PROVE  OfAll(offers'[m][p])
  BY DEF OffersOfAll
<1>4. ASSUME NEW m \in Node, NEW k \in DOMAIN switches'[m]
      PROVE  OfAll(switches'[m][k].offer)
  BY DEF OffersOfAll
<1>5. QED
  BY <1>2, <1>3, <1>4 DEF OffersOfAll, OfAll

(* A step of one phone: the others stay as they are, and what they were      *)
(* elected in is not undone by rounds that grow.                             *)
LEMMA ReliableStep ==
  ASSUME ReliableInv, IInv', linked' = linked, OffersOfAll', NEW n \in Node,
         \A m \in Node \ {n} :
           /\ phase'[m] = phase[m] /\ loop'[m] = loop[m] /\ switches'[m] = switches[m]
           /\ peers'[m] = peers[m] /\ connected'[m] = connected[m]
           /\ failing'[m] = failing[m] /\ generator'[m] = generator[m]
           /\ round'[m] = round[m],
         round[n] <= round'[n],
         KnowsAll(n)'
  PROVE  ReliableInv'
<1>1. /\ \A m \in Node : round[m] \in Nat /\ round'[m] \in Nat
      /\ \A m \in Node : KnowsAll(m)
  BY DEF ReliableInv, IInv, TypeOK
<1>2. ASSUME NEW m \in Node \ {n}
      PROVE  KnowsAll(m)'
  <2>1. ASSUME NEW mac, Elected(m, mac)
        PROVE  /\ mac = Nominee(round'[m], Node)
               /\ \A p \in Node : round'[m] <= round'[p]
    BY <1>1, <2>1 DEF Elected
  <2>2. Queued(m, "playing")' = Queued(m, "playing")
    BY DEF Queued
  <2>3. \A k \in Queued(m, "playing")' :
          switches'[m][k].peers = Others(m) /\ Elected(m, switches[m][k].mac)
    BY <1>1, <2>2 DEF KnowsAll
  <2>4. phase'[m] = "playing" => Elected(m, generator[m])
    BY <1>1 DEF KnowsAll
  <2>5. QED
    BY <1>1, <2>1, <2>3, <2>4 DEF KnowsAll, Elected, Others
<1>3. QED
  BY <1>2, KnowsAll(n)' DEF ReliableInv

(* How far a phone that leaves the loop has got, and what it elected. *)
LEMMA AgreedNominee ==
  ASSUME ReliableInv, NEW n \in Node, LoopMayRun(n), AllOffersEqual(n)
  PROVE  peers[n] = Others(n) /\ Elected(n, offers[n][n].mac)
<1>1. phase[n] = "negotiating" /\ loop[n] # "done" /\ TypeOK
  BY DEF LoopMayRun, ReliableInv, IInv
<1>2. peers[n] = Others(n)
  BY <1>1 DEF ReliableInv, KnowsAll
<1>3. DOMAIN offers[n] = Node
  BY <1>1, <1>2 DEF ReliableInv, IInv, ShapeInv, OffersMatchPeers, Others
<1>4. offers[n][n].round = round[n] /\ offers[n][n].mac \in Node
  BY <1>1 DEF ReliableInv, IInv, ShapeInv, OwnOffer
<1>5. offers[n][n] # Blank
  BY <1>4, NodeAssumption DEF Blank
<1>6. OfAll(offers[n][n])
  BY <1>3 DEF ReliableInv, OffersOfAll
<1>7. \A p \in Node : round[n] <= round[p]
  BY <1>3, <1>4 DEF AllOffersEqual, ReliableInv, IInv, RoundsKnown
<1>8. QED
  BY <1>2, <1>4, <1>5, <1>6, <1>7 DEF OfAll, Elected

LEMMA ReliableAgree ==
  ASSUME ReliableInv, IInv', NEW n \in Node, LoopMayRun(n), Agree(n)
  PROVE  ReliableInv'
<1> DEFINE sw == ToPlaying(peers[n], offers[n][n].mac)
<1>1. peers[n] = Others(n) /\ Elected(n, offers[n][n].mac)
  BY AgreedNominee DEF Agree
<1>2. /\ UNCHANGED <<phase, round, connected, offers, generator, failing, wire, linked>>
      /\ peers' = [peers EXCEPT ![n] = {}]
      /\ loop' = [loop EXCEPT ![n] = "done"]
      /\ Queue(n, sw)
  BY DEF Agree
<1>3. /\ TypeOK /\ offers[n][n].mac \in Node
      /\ phase[n] = "negotiating" /\ Queued(n, "playing") = {}
      /\ KnowsAll(n) /\ OffersOfAll
  BY DEF LoopMayRun, ReliableInv, IInv, ShapeInv, OwnOffer, QueueShape, QueueShapeOf
<1>4. sw \in Switch
  BY <1>3, SwitchTypes DEF TypeOK
<1>5. /\ \A m \in Node \ {n} : switches'[m] = switches[m]
      /\ \A k \in DOMAIN switches'[n] :
           \/ k \in DOMAIN switches[n] /\ switches'[n][k] = switches[n][k]
           \/ switches'[n][k] = sw
  BY <1>2, <1>3, <1>4, QueueFacts
<1>6. sw.to = "playing" /\ sw.peers = Others(n) /\ Elected(n, sw.mac) /\ OfAll(sw.offer)
  BY <1>1 DEF ToPlaying, OfAll
<1> HIDE DEF sw
<1>7. OffersOfAll'
  BY <1>2, <1>3, <1>5, <1>6, OffersOfAllStep
<1>8. /\ loop \in [Node -> Loop] /\ peers \in [Node -> SUBSET Node]
      /\ \A m \in Node : round[m] \in Nat
  BY <1>3 DEF TypeOK
<1>9. KnowsAll(n)'
  <2>1. \A k \in Queued(n, "playing")' :
          switches'[n][k].peers = Others(n) /\ Elected(n, switches'[n][k].mac)
    BY <1>3, <1>5, <1>6 DEF Queued
  <2>2. \A k \in DOMAIN switches'[n] : switches'[n][k].to \in {"negotiating", "playing"}
    BY <1>3, <1>5, <1>6 DEF KnowsAll
  <2>3. phase'[n] = "negotiating" /\ loop'[n] = "done" /\ failing'[n] = {}
    BY <1>2, <1>3, <1>8 DEF KnowsAll
  <2>4. QED
    BY <1>2, <2>1, <2>2, <2>3 DEF KnowsAll, Elected, Others
<1>10. QED
  BY <1>2, <1>5, <1>7, <1>8, <1>9, ReliableStep

(* The offer of a phone that knows all is the nominee of all. *)
LEMMA ReliableBroadcast ==
  ASSUME ReliableInv, IInv', NEW n \in Node, LoopMayRun(n), Broadcast(n, {})
  PROVE  ReliableInv'
<1> DEFINE r == MaxOfferRound(n)
           offer == [round |-> r, mac |-> Nominee(r, DOMAIN offers[n])]
<1>1. /\ TypeOK /\ KnowsAll(n) /\ OffersOfAll /\ linked = AllLinks
      /\ phase[n] = "negotiating" /\ loop[n] # "done" /\ Queued(n, "playing") = {}
  BY DEF LoopMayRun, ReliableInv, IInv, ShapeInv, QueueShape, QueueShapeOf
<1>2. peers[n] = Others(n)
  BY <1>1 DEF KnowsAll
<1>3. DOMAIN offers[n] = Node
  <2>1. DOMAIN offers[n] = peers[n] \cup {n}
    BY <1>1 DEF ReliableInv, IInv, ShapeInv, OffersMatchPeers
  <2>2. QED
    BY <1>2, <2>1 DEF Others
<1>4. r \in Nat /\ round[n] <= r
  BY <1>1, MaxOfferRoundType
<1>5. OfAll(offer)
  BY <1>3 DEF OfAll
<1>6. /\ round' = [round EXCEPT ![n] = r]
      /\ offers' = [offers EXCEPT ![n][n] = offer]
      /\ loop' = [loop EXCEPT ![n] = "running"]
      /\ failing' = [failing EXCEPT ![n] =
           @ \cup (peers[n] \ {p \in peers[n] : Link(n, p) \in linked})]
      /\ UNCHANGED <<phase, switches, peers, connected, generator, linked>>
  BY DEF Broadcast
<1>7. \A m, p \in Node : \/ wire'[p][m] = wire[p][m]
                         \/ wire'[p][m] = Append(wire[p][m], offer)
  BY <1>1 DEF Broadcast, TypeOK
<1>8. /\ DOMAIN offers = Node /\ \A m, p \in Node : wire[p][m] \in Seq(Offer)
      /\ round \in [Node -> Nat] /\ loop \in [Node -> Loop]
      /\ failing \in [Node -> SUBSET Node]
  BY <1>1 DEF TypeOK
<1> HIDE DEF offer
<1>9. OffersOfAll'
  <2>1. ASSUME NEW m \in Node, NEW p \in Node, NEW k \in DOMAIN wire'[p][m]
        PROVE  \/ \E j \in DOMAIN wire[p][m] : wire'[p][m][k] = wire[p][m][j]
               \/ OfAll(wire'[p][m][k])
    <3>1. CASE wire'[p][m] = wire[p][m]
      BY <3>1
    <3>2. CASE wire'[p][m] = Append(wire[p][m], offer)
      <4>1. \/ k \in DOMAIN wire[p][m] /\ wire'[p][m][k] = wire[p][m][k]
            \/ wire'[p][m][k] = offer
        BY <1>8, <3>2
      <4>2. QED
        BY <1>5, <4>1
    <3>3. QED
      BY <1>7, <3>1, <3>2
  <2>2. ASSUME NEW m \in Node, NEW p \in DOMAIN offers'[m]
        PROVE  \/ p \in DOMAIN offers[m] /\ offers'[m][p] = offers[m][p]
               \/ OfAll(offers'[m][p])
    <3>1. CASE m = n /\ p = n
      BY <1>3, <1>5, <1>6, <1>8, <3>1
    <3>2. CASE ~ (m = n /\ p = n)
      BY <1>6, <1>8, <3>2
    <3>3. QED
      BY <3>1, <3>2
  <2>3. QED
    BY <1>1, <1>6, <2>1, <2>2, OffersOfAllStep
<1>10. \A p \in peers[n] : Link(n, p) \in linked
  BY <1>1, <1>2, AllLinked DEF Others
<1>11. failing'[n] = {} /\ Queued(n, "playing")' = {}
  BY <1>1, <1>6, <1>8, <1>10 DEF KnowsAll, Queued
<1>12. KnowsAll(n)'
  BY <1>1, <1>2, <1>6, <1>11 DEF KnowsAll, Others
<1>13. QED
  BY <1>4, <1>6, <1>8, <1>9, <1>12, ReliableStep

(* A new negotiation with everybody, from either of the two states. *)
LEMMA ReliableEnterNegotiating ==
  ASSUME ReliableInv, IInv', NEW n \in Node, NEW sender, NEW offer,
         EnterNegotiating(n, Others(n), sender, offer), OfAll(offer),
         UNCHANGED <<wire, linked>>,
         \A m \in Node \ {n} : switches'[m] = switches[m],
         \A k \in DOMAIN switches'[n] :
           /\ switches'[n][k].to = "negotiating"
           /\ \E j \in DOMAIN switches[n] : switches'[n][k] = switches[n][j]
  PROVE  ReliableInv'
<1> DEFINE own == [round |-> round[n] + 1, mac |-> Nominee(round[n] + 1, Others(n) \cup {n})]
           map == [m \in Others(n) \cup {n} |-> IF m = n THEN own
                                                ELSE IF m = sender THEN offer ELSE Blank]
<1>1. TypeOK /\ OffersOfAll
  BY DEF ReliableInv, IInv
<1>2. /\ phase' = [phase EXCEPT ![n] = "negotiating"]
      /\ round' = [round EXCEPT ![n] = round[n] + 1]
      /\ loop' = [loop EXCEPT ![n] = "asked"]
      /\ peers' = [peers EXCEPT ![n] = Others(n)]
      /\ offers' = [offers EXCEPT ![n] = map]
      /\ connected' = [connected EXCEPT ![n] = {}]
      /\ failing' = [failing EXCEPT ![n] = {}]
      /\ generator' = [generator EXCEPT ![n] = NoMac]
  BY DEF EnterNegotiating, BeginNegotiation
<1>3. Others(n) \cup {n} = Node
  BY DEF Others
<1>4. OfAll(own) /\ OfAll(Blank)
  BY <1>3 DEF OfAll
<1>5. \A p \in Node : OfAll(map[p])
  BY <1>3, <1>4
<1> HIDE DEF map
<1>6. /\ phase \in [Node -> Phase] /\ round \in [Node -> Nat] /\ loop \in [Node -> Loop]
      /\ peers \in [Node -> SUBSET Node] /\ connected \in [Node -> SUBSET Node]
      /\ failing \in [Node -> SUBSET Node] /\ generator \in [Node -> Mac]
      /\ DOMAIN offers = Node
  BY <1>1 DEF TypeOK
<1>7. OffersOfAll'
  <2>1. DOMAIN offers'[n] \subseteq Node
    BY <1>2, <1>3, <1>6 DEF map
  <2>2. ASSUME NEW m \in Node, NEW p \in DOMAIN offers'[m]
        PROVE  \/ p \in DOMAIN offers[m] /\ offers'[m][p] = offers[m][p]
               \/ OfAll(offers'[m][p])
    BY <1>2, <1>5, <1>6, <2>1
  <2>3. \A m \in Node : \A k \in DOMAIN switches'[m] :
          \E j \in DOMAIN switches[m] : switches'[m][k] = switches[m][j]
    OBVIOUS
  <2>4. QED
    BY <1>1, <2>2, <2>3, OffersOfAllStep
<1>8. KnowsAll(n)'
  <2>1. Queued(n, "playing")' = {}
    BY DEF Queued
  <2>2. /\ phase'[n] = "negotiating" /\ failing'[n] = {} /\ peers'[n] = Others(n)
        /\ Others(n)' = Others(n)
    BY <1>2, <1>6 DEF Others
  <2>3. QED
    BY <2>1, <2>2 DEF KnowsAll
<1>9. round[n] <= round'[n]
  BY <1>2, <1>6
<1>10. \A m \in Node \ {n} :
         /\ phase'[m] = phase[m] /\ loop'[m] = loop[m] /\ switches'[m] = switches[m]
         /\ peers'[m] = peers[m] /\ connected'[m] = connected[m]
         /\ failing'[m] = failing[m] /\ generator'[m] = generator[m]
         /\ round'[m] = round[m]
  BY <1>2, <1>6
<1>11. QED
  BY <1>7, <1>8, <1>9, <1>10, ReliableStep

LEMMA ReliableStartGame ==
  ASSUME ReliableInv, IInv', NEW n \in Node, StartGame(n)
  PROVE  ReliableInv'
<1>1. {p \in Others(n) : Link(n, p) \in linked} = Others(n)
  BY AllLinked DEF ReliableInv, Others
<1>2. switches[n] = <<>> /\ UNCHANGED <<switches, wire, linked>>
  BY DEF StartGame, ReliableInv, IInv, ShapeInv, QueueShape, QueueShapeOf
<1>3. EnterNegotiating(n, Others(n), NoMac, Blank) /\ OfAll(Blank)
  BY <1>1 DEF StartGame, OfAll
<1>4. DOMAIN switches'[n] = {}
  BY <1>2
<1>5. QED
  BY <1>2, <1>3, <1>4, ReliableEnterNegotiating

(* The shape of the queue when its head is executed. *)
LEMMA ReliableQueue ==
  ASSUME ReliableInv, NEW n \in Node, ExecuteSwitch(n)
  PROVE  /\ 1 \in DOMAIN switches[n] /\ Head(switches[n]) = switches[n][1]
         /\ switches[n][1].to \in {"negotiating", "playing"}
         /\ switches[n][1].to = "playing" =>
              /\ phase[n] = "negotiating" /\ loop[n] = "done"
              /\ 1 \in Queued(n, "playing")
              /\ switches'[n] = <<>>
         /\ switches[n][1].to = "negotiating" =>
              /\ phase[n] \in {"negotiating", "playing"}
              /\ Queued(n, "playing") = {}
<1>1. TypeOK /\ KnowsAll(n) /\ QueueShapeOf(n)
  BY DEF ReliableInv, IInv, ShapeInv, QueueShape
<1>2. switches[n] \in Seq(Switch) /\ switches[n] # <<>> /\ switches'[n] = Tail(switches[n])
  BY <1>1 DEF ExecuteSwitch, TypeOK
<1>3. /\ 1 \in DOMAIN switches[n] /\ Head(switches[n]) = switches[n][1]
      /\ switches[n][1].to \in {"negotiating", "playing"}
  BY <1>1, <1>2 DEF KnowsAll
<1>4. CASE switches[n][1].to = "playing"
  <2>1. /\ phase[n] = "negotiating" /\ loop[n] = "done" /\ 1 \in Queued(n, "playing")
        /\ Queued(n, "negotiating") = {} /\ \A j, k \in Queued(n, "playing") : j = k
    BY <1>1, <1>3, <1>4 DEF QueueShapeOf, Queued, KnowsAll
  <2>2. \A k \in DOMAIN switches[n] : k = 1
    BY <1>1, <2>1 DEF Queued, KnowsAll
  <2>3. Len(switches[n]) = 1
    <3>1. Len(switches[n]) \in Nat \ {0} /\ DOMAIN switches[n] = 1 .. Len(switches[n])
      BY <1>2
    <3>2. Len(switches[n]) \in DOMAIN switches[n]
      BY <3>1
    <3>3. QED
      BY <2>2, <3>2
  <2>4. Tail(switches[n]) = <<>>
    <3>1. Tail(switches[n]) \in Seq(Switch) /\ Len(Tail(switches[n])) = 0
      BY <1>2, <2>3
    <3>2. QED
      BY <3>1, EmptySeq
  <2>5. QED
    BY <1>2, <1>3, <1>4, <2>1, <2>4
<1>5. CASE switches[n][1].to = "negotiating"
  <2>1. 1 \in Queued(n, "negotiating")
    BY <1>3, <1>5 DEF Queued
  <2>2. phase[n] \in {"negotiating", "playing"} /\ Queued(n, "playing") = {}
    BY <1>1, <1>2, <2>1 DEF QueueShapeOf, KnowsAll
  <2>3. QED
    BY <1>3, <1>5, <2>2
<1>6. QED
  BY <1>3, <1>4, <1>5

LEMMA ReliableExecuteSwitch ==
  ASSUME ReliableInv, IInv', NEW n \in Node, ExecuteSwitch(n)
  PROVE  ReliableInv'
<1> DEFINE sw == switches[n][1]
<1>1. /\ TypeOK /\ KnowsAll(n) /\ OffersOfAll /\ UNCHANGED <<wire, linked>>
      /\ DOMAIN offers = Node
  BY DEF ExecuteSwitch, ReliableInv, IInv, TypeOK
<1>2. /\ \A m \in Node \ {n} : switches'[m] = switches[m]
      /\ \A k \in DOMAIN switches'[n] :
           k + 1 \in DOMAIN switches[n] /\ switches'[n][k] = switches[n][k + 1]
  BY <1>1, TailFacts
<1>3. /\ 1 \in DOMAIN switches[n] /\ Head(switches[n]) = sw
      /\ sw.to \in {"negotiating", "playing"}
      /\ sw.to = "playing" =>
           /\ phase[n] = "negotiating" /\ loop[n] = "done"
           /\ 1 \in Queued(n, "playing")
           /\ switches'[n] = <<>>
      /\ sw.to = "negotiating" =>
           /\ phase[n] \in {"negotiating", "playing"}
           /\ Queued(n, "playing") = {}
  BY ReliableQueue
<1>4. \A m \in Node : \A k \in DOMAIN switches'[m] :
        \E j \in DOMAIN switches[m] : switches'[m][k] = switches[m][j]
  BY <1>2
<1>5. CASE sw.to = phase[n]
  <2>1. UNCHANGED <<phase, round, loop, peers, connected, offers, generator, failing>>
    BY <1>3, <1>5 DEF ExecuteSwitch
  <2>2. phase[n] = "negotiating" /\ Queued(n, "playing") = {}
    BY <1>3, <1>5
  <2>3. OffersOfAll'
    BY <1>1, <1>4, <2>1, OffersOfAllStep
  <2>4. Queued(n, "playing")' = {}
    BY <1>2, <2>2 DEF Queued
  <2>5. \A k \in DOMAIN switches'[n] : switches'[n][k].to \in {"negotiating", "playing"}
    BY <1>1, <1>2 DEF KnowsAll
  <2>6. KnowsAll(n)'
    BY <1>1, <2>1, <2>2, <2>4, <2>5 DEF KnowsAll, Others
  <2>7. round[n] <= round'[n]
    BY <1>1, <2>1 DEF TypeOK
  <2>8. QED
    BY <1>1, <1>2, <2>1, <2>3, <2>6, <2>7, ReliableStep
<1>6. CASE sw.to # phase[n] /\ sw.to = "negotiating"
  <2>1. phase[n] = "playing"
    BY <1>3, <1>6
  <2>2. sw.peers = Others(n) /\ OfAll(sw.offer)
    BY <1>1, <1>3, <2>1 DEF KnowsAll, OffersOfAll
  <2>3. EnterNegotiating(n, Others(n), sw.mac, sw.offer)
    BY <1>3, <1>6, <2>2 DEF ExecuteSwitch
  <2>4. \A k \in DOMAIN switches'[n] : switches'[n][k].to = "negotiating"
    BY <1>1, <1>2, <1>3, <1>6 DEF KnowsAll, Queued
  <2>5. QED
    BY <1>1, <1>2, <1>4, <2>2, <2>3, <2>4, ReliableEnterNegotiating
<1>7. CASE sw.to # phase[n] /\ sw.to = "playing"
  <2>1. sw.peers = Others(n) /\ Elected(n, sw.mac)
    BY <1>1, <1>3, <1>7 DEF KnowsAll
  <2>2. EnterPlaying(n, Others(n), sw.mac)
    BY <1>3, <1>7, <2>1 DEF ExecuteSwitch
  <2>3. /\ phase' = [phase EXCEPT ![n] = "playing"]
        /\ loop' = [loop EXCEPT ![n] = "none"]
        /\ peers' = [peers EXCEPT ![n] = Others(n)]
        /\ connected' = [connected EXCEPT ![n] = Others(n)]
        /\ offers' = [offers EXCEPT ![n] = NoOffers]
        /\ generator' = [generator EXCEPT ![n] = sw.mac]
        /\ failing' = [failing EXCEPT ![n] = {}]
        /\ round' = round
    BY <2>2 DEF EnterPlaying
  <2>4. /\ phase \in [Node -> Phase] /\ round \in [Node -> Nat] /\ loop \in [Node -> Loop]
        /\ peers \in [Node -> SUBSET Node] /\ connected \in [Node -> SUBSET Node]
        /\ failing \in [Node -> SUBSET Node] /\ generator \in [Node -> Mac]
    BY <1>1 DEF TypeOK
  <2>5. OffersOfAll'
    <3>1. ASSUME NEW m \in Node, NEW p \in DOMAIN offers'[m]
          PROVE  p \in DOMAIN offers[m] /\ offers'[m][p] = offers[m][p]
      BY <1>1, <2>3 DEF NoOffers
    <3>2. QED
      BY <1>1, <1>4, <3>1, OffersOfAllStep
  <2>6. KnowsAll(n)'
    <3>1. Queued(n, "playing")' = {} /\ switches'[n] = <<>>
      BY <1>3, <1>7 DEF Queued
    <3>2. /\ phase'[n] = "playing" /\ connected'[n] = Others(n) /\ failing'[n] = {}
          /\ generator'[n] = sw.mac
      BY <2>3, <2>4
    <3>3. Elected(n, generator[n])'
      BY <2>1, <2>3, <3>2 DEF Elected
    <3>4. QED
      BY <3>1, <3>2, <3>3 DEF KnowsAll, Others
  <2>7. round[n] <= round'[n]
    BY <2>3, <2>4
  <2>8. \A m \in Node \ {n} :
          /\ phase'[m] = phase[m] /\ loop'[m] = loop[m] /\ switches'[m] = switches[m]
          /\ peers'[m] = peers[m] /\ connected'[m] = connected[m]
          /\ failing'[m] = failing[m] /\ generator'[m] = generator[m]
          /\ round'[m] = round[m]
    BY <1>2, <2>3, <2>4
  <2>9. QED
    BY <1>1, <2>5, <2>6, <2>7, <2>8, ReliableStep
<1>8. QED
  BY <1>3, <1>5, <1>6, <1>7

(* Steps that take an offer off a wire, or nothing. *)
LEMMA ReliableQuiet ==
  ASSUME ReliableInv, IInv', NEW n \in Node,
         UNCHANGED <<phase, switches, round, loop, peers, generator, failing, linked>>,
         \A m \in Node \ {n} : connected'[m] = connected[m],
         connected[n] \subseteq connected'[n],
         \A m, p \in Node : \A k \in DOMAIN wire'[p][m] :
           \E j \in DOMAIN wire[p][m] : wire'[p][m][k] = wire[p][m][j],
         \A m \in Node : \A p \in DOMAIN offers'[m] :
           \/ p \in DOMAIN offers[m] /\ offers'[m][p] = offers[m][p]
           \/ OfAll(offers'[m][p])
  PROVE  ReliableInv'
<1>1. /\ TypeOK /\ TypeOK' /\ NeverOwnPeer' /\ KnowsAll(n) /\ OffersOfAll
      /\ round[n] <= round'[n]
  BY DEF ReliableInv, IInv, ShapeInv, TypeOK
<1>2. OffersOfAll'
  BY <1>1, OffersOfAllStep
<1>3. connected'[n] \subseteq Others(n)
  BY <1>1 DEF TypeOK, NeverOwnPeer, Others
<1>4. KnowsAll(n)'
  BY <1>1, <1>3 DEF KnowsAll, Queued, Elected, Others
<1>5. QED
  BY <1>1, <1>2, <1>4, ReliableStep

LEMMA ReliableConsume ==
  ASSUME ReliableInv, IInv', NEW n \in Node, NEW p \in Node \ {n},
         ReceiveOffer(n, p) \/ IgnoreOffer(n, p) \/ DropOffer(n, p)
  PROVE  ReliableInv'
<1>1. /\ TypeOK /\ OffersOfAll /\ wire[p][n] # <<>>
      /\ wire' = [wire EXCEPT ![p][n] = Tail(@)]
      /\ UNCHANGED <<phase, switches, round, loop, peers, generator, failing, linked>>
  BY DEF ReceiveOffer, IgnoreOffer, DropOffer, ConsumeFrom, ReliableInv, IInv
<1>2. /\ wire[p][n] \in Seq(Offer) /\ DOMAIN offers = Node
      /\ connected \in [Node -> SUBSET Node]
  BY <1>1 DEF TypeOK
<1>3. \A m, q \in Node : \A k \in DOMAIN wire'[q][m] :
        \E j \in DOMAIN wire[q][m] : wire'[q][m][k] = wire[q][m][j]
  BY <1>1, WireTail DEF ConsumeFrom
<1>4. 1 \in DOMAIN wire[p][n] /\ Head(wire[p][n]) = wire[p][n][1]
  BY <1>1, <1>2
<1>5. OfAll(Head(wire[p][n]))
  BY <1>1, <1>4 DEF OffersOfAll
<1>6. ASSUME NEW m \in Node, NEW q \in DOMAIN offers'[m]
      PROVE  \/ q \in DOMAIN offers[m] /\ offers'[m][q] = offers[m][q]
             \/ OfAll(offers'[m][q])
  <2>1. CASE offers' = offers
    BY <2>1
  <2>2. CASE offers' = [offers EXCEPT ![n][p] = Head(wire[p][n])]
    BY <1>2, <1>5, <2>2
  <2>3. QED
    BY <2>1, <2>2 DEF ReceiveOffer, IgnoreOffer, DropOffer
<1>7. /\ \A m \in Node \ {n} : connected'[m] = connected[m]
      /\ connected[n] \subseteq connected'[n]
  BY <1>2 DEF ReceiveOffer, IgnoreOffer, DropOffer
<1>8. QED
  BY <1>1, <1>3, <1>6, <1>7, ReliableQuiet

(* A phone that plays asks for a negotiation with all the others. *)
LEMMA ReliableRequest ==
  ASSUME ReliableInv, IInv', NEW n \in Node, phase[n] = "playing",
         NEW sw \in Switch, Queue(n, sw), sw.to = "negotiating", OfAll(sw.offer),
         switches[n] = <<>> => sw.peers = Others(n),
         UNCHANGED <<phase, round, loop, offers, generator, failing, linked>>,
         \A m \in Node \ {n} : connected'[m] = connected[m] /\ peers'[m] = peers[m],
         \A m, p \in Node : \A k \in DOMAIN wire'[p][m] :
           \E j \in DOMAIN wire[p][m] : wire'[p][m][k] = wire[p][m][j]
  PROVE  ReliableInv'
<1>1. /\ TypeOK /\ KnowsAll(n) /\ OffersOfAll /\ round[n] <= round'[n]
      /\ Queued(n, "playing") = {} /\ switches[n] \in Seq(Switch)
      /\ switches'[n] = Append(switches[n], sw)
  <2>1. TypeOK /\ KnowsAll(n) /\ OffersOfAll /\ QueueShapeOf(n)
    BY DEF ReliableInv, IInv, ShapeInv, QueueShape
  <2>2. round[n] <= round'[n] /\ switches[n] \in Seq(Switch)
    BY <2>1 DEF TypeOK
  <2>3. switches'[n] = Append(switches[n], sw)
    BY <2>1 DEF TypeOK, Queue
  <2>4. Queued(n, "playing") = {}
    BY <2>1 DEF QueueShapeOf
  <2>5. QED
    BY <2>1, <2>2, <2>3, <2>4
<1>2. /\ \A m \in Node \ {n} : switches'[m] = switches[m]
      /\ \A k \in DOMAIN switches'[n] :
           \/ k \in DOMAIN switches[n] /\ switches'[n][k] = switches[n][k]
           \/ switches'[n][k] = sw
  BY <1>1, QueueFacts
<1>3. switches'[n][1].peers = Others(n) /\ switches'[n] # <<>>
  <2>1. CASE switches[n] = <<>>
    BY <1>1, <2>1
  <2>2. CASE switches[n] # <<>>
    <3>1. switches[n][1].peers = Others(n)
      BY <1>1, <2>2 DEF KnowsAll
    <3>2. switches'[n][1] = switches[n][1] /\ switches'[n] # <<>>
      BY <1>1, <2>2
    <3>3. QED
      BY <3>1, <3>2
  <2>3. QED
    BY <2>1, <2>2
<1>4. OffersOfAll'
  BY <1>1, <1>2, OffersOfAllStep
<1>5. Queued(n, "playing")' = {}
  BY <1>1, <1>2 DEF Queued
<1>6. \A k \in DOMAIN switches'[n] : switches'[n][k].to \in {"negotiating", "playing"}
  BY <1>1, <1>2 DEF KnowsAll
<1>7. KnowsAll(n)'
  BY <1>1, <1>3, <1>5, <1>6 DEF KnowsAll, Elected, Others
<1>8. QED
  BY <1>1, <1>2, <1>4, <1>7, ReliableStep

LEMMA ReliableRenegotiate ==
  ASSUME ReliableInv, IInv', NEW n \in Node, Renegotiate(n)
  PROVE  ReliableInv'
<1> DEFINE sw == ToNegotiating(connected[n], NoMac, Blank)
<1>1. /\ TypeOK /\ KnowsAll(n) /\ phase[n] = "playing" /\ Queue(n, sw)
      /\ UNCHANGED <<phase, round, loop, offers, generator, failing, linked, wire,
                     connected, peers>>
  BY DEF Renegotiate, ReliableInv, IInv
<1>2. Blank \in Offer /\ NoMac \in Mac
  BY DEF Blank, Offer, Mac
<1>3. sw \in Switch
  BY <1>1, <1>2, SwitchTypes DEF TypeOK
<1>4. sw.to = "negotiating" /\ OfAll(sw.offer) /\ sw.peers = connected[n]
  BY DEF ToNegotiating, OfAll
<1>5. switches[n] = <<>> => sw.peers = Others(n)
  BY <1>1, <1>4 DEF KnowsAll
<1> HIDE DEF sw
<1>6. QED
  BY <1>1, <1>3, <1>4, <1>5, ReliableRequest

LEMMA ReliableRejoin ==
  ASSUME ReliableInv, IInv', NEW n \in Node, NEW p \in Node \ {n}, RejoinNegotiation(n, p)
  PROVE  ReliableInv'
<1> DEFINE sw == ToNegotiating(connected[n] \cup {p}, p, Head(wire[p][n]))
<1>1. /\ TypeOK /\ KnowsAll(n) /\ OffersOfAll
      /\ phase[n] = "playing" /\ Queue(n, sw) /\ wire[p][n] # <<>>
      /\ wire' = [wire EXCEPT ![p][n] = Tail(@)]
      /\ peers' = [peers EXCEPT ![n] = {}]
      /\ connected' = [connected EXCEPT ![n] = {}]
      /\ UNCHANGED <<phase, round, loop, offers, generator, failing, linked>>
  BY DEF RejoinNegotiation, ConsumeFrom, ReliableInv, IInv
<1>2. wire[p][n] \in Seq(Offer)
  BY <1>1 DEF TypeOK
<1>3. /\ 1 \in DOMAIN wire[p][n] /\ Head(wire[p][n]) = wire[p][n][1]
      /\ Head(wire[p][n]) \in Offer
  BY <1>1, <1>2
<1>4. sw \in Switch
  BY <1>1, <1>3, SwitchTypes DEF TypeOK, Mac
<1>5. sw.to = "negotiating" /\ OfAll(sw.offer) /\ sw.peers = connected[n] \cup {p}
  BY <1>1, <1>3 DEF ToNegotiating, OffersOfAll
<1>6. switches[n] = <<>> => sw.peers = Others(n)
  BY <1>1, <1>5 DEF KnowsAll, Others
<1>7. \A m \in Node \ {n} : connected'[m] = connected[m] /\ peers'[m] = peers[m]
  BY <1>1 DEF TypeOK
<1>8. \A m, q \in Node : \A k \in DOMAIN wire'[q][m] :
        \E j \in DOMAIN wire[q][m] : wire'[q][m][k] = wire[q][m][j]
  BY <1>1, WireTail DEF ConsumeFrom
<1> HIDE DEF sw
<1>9. QED
  BY <1>1, <1>4, <1>5, <1>6, <1>7, <1>8, ReliableRequest

LEMMA ReliableInit ==
  ASSUME Init
  PROVE  ReliableInv
<1>1. OffersOfAll /\ linked = AllLinks
  BY DEF Init, OffersOfAll, NoOffers
<1>2. \A n \in Node : KnowsAll(n)
  BY DEF Init, KnowsAll, Queued
<1>3. QED
  BY <1>1, <1>2, InitIInv DEF ReliableInv

LEMMA ReliableNextInv ==
  ASSUME ReliableInv, [ReliableNext]_vars
  PROVE  ReliableInv'
<1>1. IInv'
  BY ReliableIsNext, NextIInv DEF ReliableInv
<1>2. CASE UNCHANGED vars
  BY <1>1, <1>2 DEF vars, ReliableInv, OffersOfAll, OfAll, KnowsAll, Elected, Queued, Others
<1>3. CASE ReliableNext
  <2>1. PICK n \in Node :
           \/ StartGame(n)
           \/ ExecuteSwitch(n)
           \/ LoopMayRun(n) /\ Agree(n)
           \/ LoopMayRun(n) /\ Broadcast(n, {})
           \/ IgnoreOver(n)
           \/ Renegotiate(n)
           \/ \E p \in Node \ {n} :
                \/ ReceiveOffer(n, p)
                \/ RejoinNegotiation(n, p)
                \/ IgnoreOffer(n, p)
                \/ DropOffer(n, p)
                \/ SendFailed(n, p)
                \/ ReadFailureNegotiating(n, p)
                \/ ReadFailurePlaying(n, p)
    BY <1>3, ReliableCases
  <2>2. CASE StartGame(n) \/ ExecuteSwitch(n)
    BY <1>1, <2>2, ReliableStartGame, ReliableExecuteSwitch
  <2>3. CASE LoopMayRun(n) /\ (Agree(n) \/ Broadcast(n, {}))
    BY <1>1, <2>3, ReliableAgree, ReliableBroadcast
  <2>4. CASE IgnoreOver(n)
    <3>1. UNCHANGED <<phase, switches, round, loop, peers, connected, offers, generator,
                      failing, wire, linked>>
      BY <2>4 DEF IgnoreOver
    <3>2. QED
      BY <1>1, <3>1, ReliableQuiet
  <2>5. CASE Renegotiate(n)
    BY <1>1, <2>5, ReliableRenegotiate
  <2>6. ASSUME NEW p \in Node \ {n},
               \/ ReceiveOffer(n, p)
               \/ RejoinNegotiation(n, p)
               \/ IgnoreOffer(n, p)
               \/ DropOffer(n, p)
               \/ SendFailed(n, p)
               \/ ReadFailureNegotiating(n, p)
               \/ ReadFailurePlaying(n, p)
        PROVE  ReliableInv'
    <3>1. p \notin failing[n] /\ Link(n, p) \in linked
      BY AllLinked DEF ReliableInv, KnowsAll
    <3>2. ~ (SendFailed(n, p) \/ ReadFailureNegotiating(n, p) \/ ReadFailurePlaying(n, p))
      BY <3>1 DEF SendFailed, ReadFailureNegotiating, ReadFailurePlaying
    <3>3. QED
      BY <1>1, <2>6, <3>2, ReliableConsume, ReliableRejoin
  <2>7. QED
    BY <2>1, <2>2, <2>3, <2>4, <2>5, <2>6
<1>4. QED
  BY <1>2, <1>3

THEOREM ReliableInductiveInvariant == ReliableSpec => []ReliableInv
<1>1. Init => ReliableInv
  BY ReliableInit
<1>2. ReliableInv /\ [ReliableNext]_vars => ReliableInv'
  BY ReliableNextInv
<1>3. QED
  BY <1>1, <1>2, PTL DEF ReliableSpec

(***************************************************************************)
(* If nobody leaves and no link breaks, phones that play obey one           *)
(* generator, for any number of phones and whatever the interleaving of     *)
(* offers, timers and renegotiations (UpdateAndBroadcastOffer).             *)
(***************************************************************************)
THEOREM PlayersAgree == ReliableSpec => []Agreement
<1>1. ReliableInv => Agreement
  <2>1. SUFFICES ASSUME ReliableInv, NEW n \in Node, NEW p \in Node,
                        phase[n] = "playing", phase[p] = "playing"
                 PROVE  generator[n] = generator[p]
    BY DEF Agreement
  <2>2. Elected(n, generator[n]) /\ Elected(p, generator[p])
    BY <2>1 DEF ReliableInv, KnowsAll
  <2>3. round[n] = round[p]
    BY <2>1, <2>2 DEF Elected, ReliableInv, IInv, TypeOK
  <2>4. QED
    BY <2>2, <2>3 DEF Elected
<1>2. QED
  BY <1>1, ReliableInductiveInvariant, PTL

-----------------------------------------------------------------------------
(* The refinement of GeneratorElection, step by step.                        *)

Obeys == [n \in Node |-> IF phase[n] = "playing" THEN generator[n] ELSE NoMac]

ElectionStep ==
  \/ \E n \in Node : \/ Election!Begin(n)
                     \/ Election!Learn(n)
                     \/ \E g \in Node : Election!Elect(n, g)
  \/ round' = round /\ Obeys' = Obeys

(* The constructor of StateNegotiating begins a term. *)
LEMMA BeginsTerm ==
  ASSUME TypeOK, NEW n \in Node, NEW S, NEW sender, NEW offer,
         EnterNegotiating(n, S, sender, offer)
  PROVE  Election!Begin(n)
<1>1. /\ round' = [round EXCEPT ![n] = @ + 1]
      /\ phase' = [phase EXCEPT ![n] = "negotiating"]
      /\ generator' = [generator EXCEPT ![n] = NoMac]
  BY DEF EnterNegotiating, BeginNegotiation
<1>2. Obeys' = [Obeys EXCEPT ![n] = NoMac]
  BY <1>1 DEF Obeys, TypeOK
<1>3. QED
  BY <1>1, <1>2 DEF Election!Begin, Obeys

(* Adopting the highest round of the offers learns of a term somebody is in. *)
LEMMA LearnsTerm ==
  ASSUME IInv, NEW n \in Node, LoopMayRun(n), NEW lost, Broadcast(n, lost)
  PROVE  Election!Learn(n) \/ (round' = round /\ Obeys' = Obeys)
<1> DEFINE r == MaxOfferRound(n)
<1>1. /\ TypeOK /\ phase[n] = "negotiating" /\ Obeys' = Obeys
      /\ round' = [round EXCEPT ![n] = r]
  BY DEF LoopMayRun, IInv, Broadcast, Obeys
<1>2. /\ r \in Nat /\ round[n] <= r
      /\ \/ r = round[n]
         \/ \E m \in DOMAIN offers[n] : r = offers[n][m].round
  BY <1>1, MaxOfferRoundType
<1>3. round \in [Node -> Nat] /\ DOMAIN offers[n] \subseteq Node
  BY <1>1 DEF TypeOK, IsOfferMap
<1> HIDE DEF r
<1>4. CASE r = round[n]
  BY <1>1, <1>3, <1>4
<1>5. CASE r # round[n]
  <2>1. PICK m \in Node : m \in DOMAIN offers[n] /\ r = offers[n][m].round
    BY <1>2, <1>3, <1>5
  <2>2. r <= round[m]
    BY <2>1 DEF IInv, RoundsKnown
  <2>3. r \in round[n] + 1 .. round[m]
    BY <1>2, <1>3, <1>5, <2>2
  <2>4. Obeys[n] = NoMac
    BY <1>1 DEF Obeys
  <2>5. QED
    BY <1>1, <2>3, <2>4 DEF Election!Learn, Obeys
<1>6. QED
  BY <1>4, <1>5

(* The constructor of StatePlaying elects. *)
LEMMA ElectsGenerator ==
  ASSUME ReliableInv, NEW n \in Node, phase[n] = "negotiating",
         NEW mac \in Node, Elected(n, mac), NEW S, EnterPlaying(n, S, mac)
  PROVE  Election!Elect(n, mac)
<1>1. TypeOK /\ \A m \in Node : round[m] \in Nat
  BY DEF ReliableInv, IInv, TypeOK
<1>2. Obeys[n] = NoMac
  BY DEF Obeys
<1>3. ASSUME NEW m \in Node
      PROVE  /\ round[n] <= round[m]
             /\ Obeys[m] # NoMac => round[m] = round[n] /\ Obeys[m] = mac
  <2>1. round[n] <= round[m]
    BY DEF Elected
  <2>2. ASSUME Obeys[m] # NoMac
        PROVE  round[m] = round[n] /\ Obeys[m] = mac
    <3>1. phase[m] = "playing" /\ Obeys[m] = generator[m]
      BY <2>2 DEF Obeys
    <3>2. Elected(m, generator[m])
      BY <3>1 DEF ReliableInv, KnowsAll
    <3>3. round[m] = round[n]
      BY <1>1, <2>1, <3>2 DEF Elected
    <3>4. QED
      BY <3>1, <3>2, <3>3 DEF Elected
  <2>3. QED
    BY <2>1, <2>2
<1>4. Obeys' = [Obeys EXCEPT ![n] = mac] /\ round' = round
  BY <1>1 DEF EnterPlaying, Obeys, TypeOK
<1>5. QED
  BY <1>2, <1>3, <1>4 DEF Election!Elect, Obeys

LEMMA StepsElect ==
  ASSUME ReliableInv, [ReliableNext]_vars
  PROVE  ElectionStep
<1>1. TypeOK /\ IInv
  BY DEF ReliableInv, IInv
<1>2. CASE UNCHANGED <<phase, round, generator>>
  BY <1>2 DEF ElectionStep, Obeys
<1>3. CASE ReliableNext
  <2>1. PICK n \in Node :
           \/ StartGame(n)
           \/ ExecuteSwitch(n)
           \/ LoopMayRun(n) /\ Agree(n)
           \/ LoopMayRun(n) /\ Broadcast(n, {})
           \/ IgnoreOver(n)
           \/ Renegotiate(n)
           \/ \E p \in Node \ {n} :
                \/ ReceiveOffer(n, p)
                \/ RejoinNegotiation(n, p)
                \/ IgnoreOffer(n, p)
                \/ DropOffer(n, p)
                \/ SendFailed(n, p)
                \/ ReadFailureNegotiating(n, p)
                \/ ReadFailurePlaying(n, p)
    BY <1>3, ReliableCases
  <2>2. CASE StartGame(n)
    <3>1. \E S, sender, offer : EnterNegotiating(n, S, sender, offer)
      BY <2>2 DEF StartGame
    <3>2. QED
      BY <1>1, <3>1, BeginsTerm DEF ElectionStep
  <2>3. CASE LoopMayRun(n) /\ Broadcast(n, {})
    BY <1>1, <2>3, LearnsTerm DEF ElectionStep
  <2>4. CASE ExecuteSwitch(n)
    <3>1. /\ 1 \in DOMAIN switches[n] /\ Head(switches[n]) = switches[n][1]
          /\ switches[n][1].to \in {"negotiating", "playing"}
          /\ switches[n][1].to = "playing" =>
               phase[n] = "negotiating" /\ 1 \in Queued(n, "playing")
      BY <2>4, ReliableQueue
    <3>2. CASE switches[n][1].to = phase[n]
      BY <1>2, <2>4, <3>1, <3>2 DEF ExecuteSwitch
    <3>3. CASE switches[n][1].to # phase[n] /\ switches[n][1].to = "negotiating"
      <4>1. \E S, sender, offer : EnterNegotiating(n, S, sender, offer)
        BY <2>4, <3>1, <3>3 DEF ExecuteSwitch
      <4>2. QED
        BY <1>1, <4>1, BeginsTerm DEF ElectionStep
    <3>4. CASE switches[n][1].to # phase[n] /\ switches[n][1].to = "playing"
      <4>1. Elected(n, switches[n][1].mac)
        BY <3>1, <3>4 DEF ReliableInv, KnowsAll
      <4>2. switches[n][1].mac \in Node
        BY <1>1, <4>1, NomineeType DEF Elected, TypeOK
      <4>3. EnterPlaying(n, switches[n][1].peers, switches[n][1].mac)
        BY <2>4, <3>1, <3>4 DEF ExecuteSwitch
      <4>4. \E mac \in Node : \E S : Elected(n, mac) /\ EnterPlaying(n, S, mac)
        BY <4>1, <4>2, <4>3
      <4>5. \E mac \in Node : Election!Elect(n, mac)
        BY <3>1, <3>4, <4>4, ElectsGenerator
      <4>6. QED
        BY <4>5 DEF ElectionStep
    <3>5. QED
      BY <3>1, <3>2, <3>3, <3>4
  <2>5. CASE \/ Agree(n) \/ IgnoreOver(n) \/ Renegotiate(n)
             \/ \E p \in Node \ {n} :
                  \/ ReceiveOffer(n, p)
                  \/ RejoinNegotiation(n, p)
                  \/ IgnoreOffer(n, p)
                  \/ DropOffer(n, p)
                  \/ SendFailed(n, p)
                  \/ ReadFailureNegotiating(n, p)
                  \/ ReadFailurePlaying(n, p)
    BY <1>2, <2>5
       DEF Agree, IgnoreOver, Renegotiate, ReceiveOffer, RejoinNegotiation, IgnoreOffer,
           DropOffer, SendFailed, ReadFailureNegotiating, ReadFailurePlaying
  <2>6. QED
    BY <2>1, <2>2, <2>3, <2>4, <2>5
<1>4. QED
  BY <1>2, <1>3 DEF vars

(***************************************************************************)
(* The negotiation implements the election of GeneratorElection: the rounds *)
(* of dice::Offer serve as terms although no message closes one.            *)
(***************************************************************************)
THEOREM ImplementsElection == ReliableSpec => ElectionSpec
<1>1. Init => Election!Init
  BY BoundAssumption DEF Init, Election!Init
<1>2. ReliableInv /\ [ReliableNext]_vars => [Election!Next]_(Election!vars)
  BY StepsElect DEF ElectionStep, Obeys, Election!Next, Election!vars
<1>3. QED
  BY <1>1, <1>2, ReliableInductiveInvariant, PTL
     DEF ReliableSpec, ElectionSpec, Election!Spec

-----------------------------------------------------------------------------
(* When phones leave or links break, the phones compute nominees from        *)
(* different sets.  What holds then is said of everything a phone is known   *)
(* to have nominated, wherever that is stored.                               *)

(* n plays, or is about to, with q in the game and mac as the generator. *)
PlaysWith(n, q, mac) ==
  \/ \E k \in Queued(n, "playing") :
       q \in switches[n][k].peers \cup {n} /\ mac = switches[n][k].mac
  \/ phase[n] = "playing" /\ q \in peers[n] \cup {n} /\ mac = generator[n]

(* Offers of p that somebody holds or will, and what phones that left the    *)
(* loop took for its offer.                                                  *)
HeardOf(p, offer) ==
  /\ offer # Blank
  /\ \/ \E n \in Node : \E k \in DOMAIN wire[p][n] : offer = wire[p][n][k]
     \/ \E n \in Node : p \in DOMAIN offers[n] /\ offer = offers[n][p]
     \/ \E n \in Node : \E k \in Queued(n, "negotiating") :
          switches[n][k].mac = p /\ offer = switches[n][k].offer
     \/ \E n \in Node : \E mac \in Mac :
          PlaysWith(n, p, mac) /\ offer = [round |-> round[n], mac |-> mac]

LoopRuns(n) == phase[n] = "negotiating" /\ loop[n] # "done"

(* The last nomination of p in its round was made among B, which holds all   *)
(* that p still reckons with; its earlier ones were made among more phones.  *)
NominatesFrom(p, B) ==
  /\ p \in B
  /\ LoopRuns(p) => DOMAIN offers[p] \subseteq B /\ offers[p][p].mac = Nominee(round[p], B)
  /\ \A q, mac : PlaysWith(p, q, mac) => q \in B /\ mac = Nominee(round[p], B)
  /\ \A offer : HeardOf(p, offer) /\ offer.round = round[p] =>
       \E D \in SUBSET Node : B \subseteq D /\ offer.mac = Nominee(offer.round, D)

ViewsInv == IInv /\ \A p \in Node : \E B \in SUBSET Node : NominatesFrom(p, B)

LEMMA HeardRounds ==
  ASSUME IInv, NEW p \in Node, NEW offer, HeardOf(p, offer)
  PROVE  offer.round \in Nat /\ offer.round <= round[p]
<1>1. TypeOK /\ RoundsKnown /\ PlaysInRoundOfPeers /\ \A m \in Node : round[m] \in Nat
  BY DEF IInv, TypeOK
<1>2. CASE \E n \in Node : \E k \in DOMAIN wire[p][n] : offer = wire[p][n][k]
  <2>1. PICK n \in Node : \E k \in DOMAIN wire[p][n] : offer = wire[p][n][k]
    BY <1>2
  <2>2. wire[p][n] \in Seq(Offer)
    BY <1>1 DEF TypeOK
  <2>3. offer \in Offer
    BY <2>1, <2>2
  <2>4. QED
    BY <1>1, <2>1, <2>3 DEF RoundsKnown, Offer
<1>3. CASE \E n \in Node : p \in DOMAIN offers[n] /\ offer = offers[n][p]
  BY <1>1, <1>3 DEF RoundsKnown, TypeOK, IsOfferMap, Offer
<1>4. CASE \E n \in Node : \E k \in Queued(n, "negotiating") :
             switches[n][k].mac = p /\ offer = switches[n][k].offer
  <2>1. PICK n \in Node : \E k \in DOMAIN switches[n] :
          switches[n][k].mac = p /\ offer = switches[n][k].offer
    BY <1>4 DEF Queued
  <2>2. PICK k \in DOMAIN switches[n] :
          switches[n][k].mac = p /\ offer = switches[n][k].offer
    BY <2>1
  <2>3. switches[n] \in Seq(Switch)
    BY <1>1 DEF TypeOK
  <2>4. switches[n][k] \in Switch
    BY <2>2, <2>3
  <2>5. offer.round \in Nat
    BY <2>2, <2>4 DEF Switch, Offer
  <2>6. QED
    BY <1>1, <2>2, <2>5 DEF RoundsKnown
<1>5. CASE \E n \in Node : \E mac \in Mac :
             PlaysWith(n, p, mac) /\ offer = [round |-> round[n], mac |-> mac]
  <2>1. PICK n \in Node, mac \in Mac :
          PlaysWith(n, p, mac) /\ offer = [round |-> round[n], mac |-> mac]
    BY <1>5
  <2>2. round[n] <= round[p]
    BY <1>1, <2>1 DEF PlaysWith, PlaysInRoundOfPeers
  <2>3. QED
    BY <1>1, <2>1, <2>2
<1>6. QED
  BY <1>2, <1>3, <1>4, <1>5 DEF HeardOf

(* The offers known after a step were known before, but for those of Fresh.  *)
LEMMA HeardStep ==
  ASSUME NEW p \in Node, NEW Fresh,
         \A m \in Node : \A k \in DOMAIN wire'[p][m] :
           \/ \E j \in DOMAIN wire[p][m] : wire'[p][m][k] = wire[p][m][j]
           \/ wire'[p][m][k] \in Fresh,
         \A m \in Node : p \in DOMAIN offers'[m] =>
           \/ p \in DOMAIN offers[m] /\ offers'[m][p] = offers[m][p]
           \/ HeardOf(p, offers'[m][p])
           \/ offers'[m][p] \in Fresh \cup {Blank},
         \A m \in Node : \A k \in Queued(m, "negotiating")' :
           \/ \E j \in DOMAIN switches[m] : switches'[m][k] = switches[m][j]
           \/ switches'[m][k].mac = p =>
                HeardOf(p, switches'[m][k].offer) \/ switches'[m][k].offer = Blank,
         \A m \in Node : \A mac \in Mac : PlaysWith(m, p, mac)' =>
           \/ PlaysWith(m, p, mac) /\ round'[m] = round[m]
           \/ HeardOf(p, [round |-> round'[m], mac |-> mac])
  PROVE  \A offer : HeardOf(p, offer)' => HeardOf(p, offer) \/ offer \in Fresh
<1>1. SUFFICES ASSUME NEW offer, HeardOf(p, offer)'
               PROVE  HeardOf(p, offer) \/ offer \in Fresh
  OBVIOUS
<1>2. offer # Blank
  BY <1>1 DEF HeardOf, Blank
<1>3. CASE \E n \in Node : \E k \in DOMAIN wire'[p][n] : offer = wire'[p][n][k]
  BY <1>2, <1>3 DEF HeardOf
<1>4. CASE \E n \in Node : p \in DOMAIN offers'[n] /\ offer = offers'[n][p]
  BY <1>2, <1>4 DEF HeardOf
<1>5. CASE \E n \in Node : \E k \in Queued(n, "negotiating")' :
             switches'[n][k].mac = p /\ offer = switches'[n][k].offer
  <2>1. PICK n \in Node : \E k \in Queued(n, "negotiating")' :
          switches'[n][k].mac = p /\ offer = switches'[n][k].offer
    BY <1>5
  <2>2. PICK k \in Queued(n, "negotiating")' :
          switches'[n][k].mac = p /\ offer = switches'[n][k].offer
    BY <2>1
  <2>3. CASE \E j \in DOMAIN switches[n] : switches'[n][k] = switches[n][j]
    <3>1. PICK j \in DOMAIN switches[n] : switches'[n][k] = switches[n][j]
      BY <2>3
    <3>2. switches[n][j].to = "negotiating"
      BY <2>2, <3>1 DEF Queued
    <3>3. j \in Queued(n, "negotiating")
      BY <3>2 DEF Queued
    <3>4. QED
      BY <1>2, <2>2, <3>1, <3>3 DEF HeardOf
  <2>4. CASE HeardOf(p, switches'[n][k].offer) \/ switches'[n][k].offer = Blank
    BY <1>2, <2>2, <2>4
  <2>5. QED
    BY <2>2, <2>3, <2>4
<1>6. CASE \E n \in Node : \E mac \in Mac :
             PlaysWith(n, p, mac)' /\ offer = [round |-> round'[n], mac |-> mac]
  <2>1. PICK n \in Node, mac \in Mac :
             PlaysWith(n, p, mac)' /\ offer = [round |-> round'[n], mac |-> mac]
    BY <1>6
  <2>2. CASE PlaysWith(n, p, mac) /\ round'[n] = round[n]
    BY <1>2, <2>1, <2>2 DEF HeardOf
  <2>3. QED
    BY <2>1, <2>2
<1>7. QED
  BY <1>1, <1>3, <1>4, <1>5, <1>6 DEF HeardOf, Mac

(* A step in which no phone makes an offer. *)
LEMMA ViewsKept ==
  ASSUME ViewsInv, IInv', round' = round,
         \A m, p \in Node : \A k \in DOMAIN wire'[p][m] :
           \E j \in DOMAIN wire[p][m] : wire'[p][m][k] = wire[p][m][j],
         \A m \in Node : \A p \in DOMAIN offers'[m] :
           \/ p \in DOMAIN offers[m] /\ offers'[m][p] = offers[m][p]
           \/ HeardOf(p, offers'[m][p])
           \/ offers'[m][p] = Blank,
         \A m \in Node : \A k \in Queued(m, "negotiating")' :
           \/ \E j \in DOMAIN switches[m] : switches'[m][k] = switches[m][j]
           \/ switches'[m][k].mac \in Node =>
                \/ HeardOf(switches'[m][k].mac, switches'[m][k].offer)
                \/ switches'[m][k].offer = Blank,
         \A m \in Node : \A q, mac : PlaysWith(m, q, mac)' =>
           \/ PlaysWith(m, q, mac)
           \/ /\ LoopRuns(m) /\ AllOffersEqual(m)
              /\ q \in DOMAIN offers[m] /\ mac = offers[m][m].mac,
         \A m \in Node : LoopRuns(m)' =>
           /\ LoopRuns(m)
           /\ DOMAIN offers'[m] \subseteq DOMAIN offers[m]
           /\ offers'[m][m] = offers[m][m]
  PROVE  ViewsInv'
<1>1. TypeOK /\ OffersMatchPeers /\ OwnOffer
  BY DEF ViewsInv, IInv, ShapeInv
<1>2. ASSUME NEW p \in Node
      PROVE  \E B \in SUBSET Node : NominatesFrom(p, B)'
  <2>1. PICK B \in SUBSET Node : NominatesFrom(p, B)
    BY DEF ViewsInv
  <2>2. ASSUME NEW m \in Node, NEW mac \in Mac, PlaysWith(m, p, mac)'
        PROVE  \/ PlaysWith(m, p, mac) /\ round'[m] = round[m]
               \/ HeardOf(p, [round |-> round'[m], mac |-> mac])
    <3>1. CASE PlaysWith(m, p, mac)
      BY <3>1
    <3>2. CASE /\ LoopRuns(m) /\ AllOffersEqual(m)
               /\ p \in DOMAIN offers[m] /\ mac = offers[m][m].mac
      <4>1. offers[m][m].round = round[m] /\ offers[m][m].mac \in Node /\ m \in DOMAIN offers[m]
        BY <1>1, <3>2 DEF OwnOffer, LoopRuns, OffersMatchPeers
      <4>2. offers[m][m] \in Offer
        BY <1>1, <4>1 DEF TypeOK, IsOfferMap
      <4>3. offers[m][m] = [round |-> round[m], mac |-> mac]
        BY <3>2, <4>1, <4>2 DEF Offer
      <4>4. offers[m][p] = offers[m][m] /\ offers[m][m] # Blank
        BY <3>2, <4>1, NodeAssumption DEF AllOffersEqual, Blank
      <4>5. QED
        BY <3>2, <4>3, <4>4 DEF HeardOf
    <3>3. QED
      BY <2>2, <3>1, <3>2
  <2>3. \A offer : HeardOf(p, offer)' => HeardOf(p, offer)
    <3> DEFINE Fresh == {}
    <3>1. \A m \in Node : p \in DOMAIN offers'[m] =>
            \/ p \in DOMAIN offers[m] /\ offers'[m][p] = offers[m][p]
            \/ HeardOf(p, offers'[m][p])
            \/ offers'[m][p] \in Fresh \cup {Blank}
      OBVIOUS
    <3>2. \A m \in Node : \A k \in Queued(m, "negotiating")' :
            \/ \E j \in DOMAIN switches[m] : switches'[m][k] = switches[m][j]
            \/ switches'[m][k].mac = p =>
                 HeardOf(p, switches'[m][k].offer) \/ switches'[m][k].offer = Blank
      OBVIOUS
    <3>3. \A m \in Node : \A k \in DOMAIN wire'[p][m] :
            \/ \E j \in DOMAIN wire[p][m] : wire'[p][m][k] = wire[p][m][j]
            \/ wire'[p][m][k] \in Fresh
      OBVIOUS
    <3>4. \A m \in Node : \A mac \in Mac : PlaysWith(m, p, mac)' =>
            \/ PlaysWith(m, p, mac) /\ round'[m] = round[m]
            \/ HeardOf(p, [round |-> round'[m], mac |-> mac])
      BY <2>2
    <3>5. \A offer : HeardOf(p, offer)' => HeardOf(p, offer) \/ offer \in Fresh
      <4> HIDE DEF Fresh
      <4>1. QED
        BY <3>1, <3>2, <3>3, <3>4, HeardStep, Zenon
    <3>6. QED
      BY <3>5
  <2>4. LoopRuns(p)' => DOMAIN offers'[p] \subseteq B
                        /\ offers'[p][p].mac = Nominee(round'[p], B)
    BY <2>1 DEF NominatesFrom
  <2>5. \A q, mac : PlaysWith(p, q, mac)' => q \in B /\ mac = Nominee(round'[p], B)
    BY <2>1 DEF NominatesFrom
  <2>6. \A offer : HeardOf(p, offer)' /\ offer.round = round'[p] =>
          \E D \in SUBSET Node : B \subseteq D /\ offer.mac = Nominee(offer.round, D)
    BY <2>1, <2>3 DEF NominatesFrom
  <2>7. p \in B
    BY <2>1 DEF NominatesFrom
  <2>8. NominatesFrom(p, B)'
    BY <2>4, <2>5, <2>6, <2>7 DEF NominatesFrom
  <2>9. QED
    BY <2>8
<1>3. QED
  BY <1>2 DEF ViewsInv

(* A step in which n nominates among D, in a later round or in its round     *)
(* among no more phones than before.                                         *)
Nominates(n, r, D, own) ==
  /\ r \in Nat /\ D \in SUBSET Node /\ n \in D
  /\ own = [round |-> r, mac |-> Nominee(r, D)]
  /\ \/ round[n] < r
     \/ r = round[n] /\ LoopRuns(n) /\ D \subseteq DOMAIN offers[n]
  /\ round' = [round EXCEPT ![n] = r]
  /\ phase'[n] = "negotiating" /\ DOMAIN offers'[n] = D /\ offers'[n][n] = own
  /\ \A m \in Node \ {n} :
       phase'[m] = phase[m] /\ loop'[m] = loop[m] /\ offers'[m] = offers[m]
  /\ \A m, p \in Node : \A k \in DOMAIN wire'[p][m] :
       \/ \E j \in DOMAIN wire[p][m] : wire'[p][m][k] = wire[p][m][j]
       \/ p = n /\ wire'[p][m][k] = own
  /\ \A p \in D \ {n} :
       \/ p \in DOMAIN offers[n] /\ offers'[n][p] = offers[n][p]
       \/ HeardOf(p, offers'[n][p])
       \/ offers'[n][p] = Blank
  /\ \A m \in Node : \A k \in DOMAIN switches'[m] :
       \E j \in DOMAIN switches[m] : switches'[m][k] = switches[m][j]
  /\ \A q, mac : ~ PlaysWith(n, q, mac)'
  /\ \A m \in Node \ {n} : \A q, mac : PlaysWith(m, q, mac)' => PlaysWith(m, q, mac)

LEMMA ViewsNominate ==
  ASSUME ViewsInv, IInv', NEW n \in Node, NEW r, NEW D, NEW own, Nominates(n, r, D, own)
  PROVE  ViewsInv'
<1> USE DEF Nominates
<1>1. /\ TypeOK /\ IInv /\ round \in [Node -> Nat] /\ DOMAIN offers = Node
      /\ round'[n] = r /\ \A m \in Node \ {n} : round'[m] = round[m]
  BY DEF ViewsInv, IInv, TypeOK
<1>2. ASSUME NEW p \in Node
      PROVE  \A offer : HeardOf(p, offer)' =>
               HeardOf(p, offer) \/ offer \in {o \in {own} : p = n}
  <2> DEFINE Fresh == {o \in {own} : p = n}
  <2>1. \A m \in Node : \A k \in DOMAIN wire'[p][m] :
          \/ \E j \in DOMAIN wire[p][m] : wire'[p][m][k] = wire[p][m][j]
          \/ wire'[p][m][k] \in Fresh
    OBVIOUS
  <2>2. \A m \in Node : p \in DOMAIN offers'[m] =>
          \/ p \in DOMAIN offers[m] /\ offers'[m][p] = offers[m][p]
          \/ HeardOf(p, offers'[m][p])
          \/ offers'[m][p] \in Fresh \cup {Blank}
    <3>1. ASSUME NEW m \in Node \ {n}
          PROVE  offers'[m] = offers[m]
      OBVIOUS
    <3>2. p \in DOMAIN offers'[n] =>
            \/ p \in DOMAIN offers[n] /\ offers'[n][p] = offers[n][p]
            \/ HeardOf(p, offers'[n][p])
            \/ offers'[n][p] \in Fresh \cup {Blank}
      OBVIOUS
    <3>3. QED
      BY <3>1, <3>2
  <2>3. \A m \in Node : \A k \in Queued(m, "negotiating")' :
          \/ \E j \in DOMAIN switches[m] : switches'[m][k] = switches[m][j]
          \/ switches'[m][k].mac = p =>
               HeardOf(p, switches'[m][k].offer) \/ switches'[m][k].offer = Blank
    BY DEF Queued
  <2>4. \A m \in Node : \A mac \in Mac : PlaysWith(m, p, mac)' =>
          \/ PlaysWith(m, p, mac) /\ round'[m] = round[m]
          \/ HeardOf(p, [round |-> round'[m], mac |-> mac])
    BY <1>1
  <2> HIDE DEF Fresh
  <2>5. \A offer : HeardOf(p, offer)' => HeardOf(p, offer) \/ offer \in Fresh
    BY <2>1, <2>2, <2>3, <2>4, HeardStep, Zenon
  <2>6. QED
    BY <2>5 DEF Fresh
<1>3. ASSUME NEW p \in Node \ {n}
      PROVE  \E B \in SUBSET Node : NominatesFrom(p, B)'
  <2>1. PICK B \in SUBSET Node : NominatesFrom(p, B)
    BY DEF ViewsInv
  <2>2. \A offer : HeardOf(p, offer)' => HeardOf(p, offer)
    BY <1>2
  <2>3. LoopRuns(p)' => DOMAIN offers'[p] \subseteq B
                        /\ offers'[p][p].mac = Nominee(round'[p], B)
    BY <1>1, <2>1 DEF NominatesFrom, LoopRuns
  <2>4. \A q, mac : PlaysWith(p, q, mac)' => q \in B /\ mac = Nominee(round'[p], B)
    BY <1>1, <2>1 DEF NominatesFrom
  <2>5. \A offer : HeardOf(p, offer)' /\ offer.round = round'[p] =>
          \E E \in SUBSET Node : B \subseteq E /\ offer.mac = Nominee(offer.round, E)
    BY <1>1, <2>1, <2>2 DEF NominatesFrom
  <2>6. p \in B
    BY <2>1 DEF NominatesFrom
  <2>7. NominatesFrom(p, B)'
    BY <2>3, <2>4, <2>5, <2>6 DEF NominatesFrom
  <2>8. QED
    BY <2>7
<1>4. NominatesFrom(n, D)'
  <2>1. PICK B \in SUBSET Node : NominatesFrom(n, B)
    BY DEF ViewsInv
  <2>2. ASSUME NEW offer, HeardOf(n, offer)', offer.round = r
        PROVE  \E E \in SUBSET Node : D \subseteq E /\ offer.mac = Nominee(offer.round, E)
    <3>1. CASE offer = own
      BY <3>1
    <3>2. CASE HeardOf(n, offer)
      <4>1. offer.round <= round[n]
        BY <1>1, <3>2, HeardRounds
      <4>2. r = round[n] /\ LoopRuns(n) /\ D \subseteq DOMAIN offers[n]
        BY <1>1, <2>2, <4>1
      <4>3. D \subseteq B
        BY <2>1, <4>2 DEF NominatesFrom
      <4>4. QED
        BY <2>1, <2>2, <3>2, <4>2, <4>3 DEF NominatesFrom
    <3>3. QED
      BY <1>2, <2>2, <3>1, <3>2
  <2>3. LoopRuns(n)' => DOMAIN offers'[n] \subseteq D
                        /\ offers'[n][n].mac = Nominee(round'[n], D)
    BY <1>1
  <2>4. QED
    BY <1>1, <2>2, <2>3 DEF NominatesFrom
<1>5. QED
  BY <1>3, <1>4 DEF ViewsInv

LEMMA ViewsBroadcast ==
  ASSUME ViewsInv, IInv', NEW n \in Node, LoopMayRun(n), NEW lost, Broadcast(n, lost)
  PROVE  ViewsInv'
<1> DEFINE r == MaxOfferRound(n)
           D == DOMAIN offers[n]
           own == [round |-> r, mac |-> Nominee(r, D)]
<1>1. /\ IInv /\ TypeOK /\ LoopRuns(n) /\ phase[n] = "negotiating"
      /\ Queued(n, "playing") = {}
  BY DEF LoopMayRun, LoopRuns, ViewsInv, IInv, ShapeInv, QueueShape, QueueShapeOf
<1>2. n \in D /\ D \in SUBSET Node
  BY <1>1 DEF IInv, ShapeInv, OffersMatchPeers, LoopRuns, TypeOK, IsOfferMap
<1>3. r \in Nat /\ round[n] <= r
  BY <1>1, MaxOfferRoundType
<1>4. /\ round' = [round EXCEPT ![n] = r]
      /\ offers' = [offers EXCEPT ![n][n] = own]
      /\ loop' = [loop EXCEPT ![n] = "running"]
      /\ UNCHANGED <<phase, switches, peers, generator>>
  BY DEF Broadcast
<1>5. /\ DOMAIN offers = Node /\ \A m, p \in Node : wire[p][m] \in Seq(Offer)
      /\ round \in [Node -> Nat] /\ loop \in [Node -> Loop]
  BY <1>1 DEF TypeOK
<1>6. \A m, p \in Node : \/ wire'[p][m] = wire[p][m]
                         \/ p = n /\ wire'[p][m] = Append(wire[p][m], own)
  BY <1>1 DEF Broadcast, TypeOK
<1> HIDE DEF r, own
<1>7. /\ DOMAIN offers'[n] = D /\ offers'[n][n] = own
      /\ \A p \in D \ {n} : offers'[n][p] = offers[n][p]
      /\ \A m \in Node \ {n} : offers'[m] = offers[m] /\ loop'[m] = loop[m]
  BY <1>2, <1>4, <1>5
<1>8. ASSUME NEW m \in Node, NEW p \in Node, NEW k \in DOMAIN wire'[p][m]
      PROVE  \/ \E j \in DOMAIN wire[p][m] : wire'[p][m][k] = wire[p][m][j]
             \/ p = n /\ wire'[p][m][k] = own
  <2>1. CASE wire'[p][m] = wire[p][m]
    BY <2>1
  <2>2. CASE p = n /\ wire'[p][m] = Append(wire[p][m], own)
    <3>1. \/ k \in DOMAIN wire[p][m] /\ wire'[p][m][k] = wire[p][m][k]
          \/ wire'[p][m][k] = own
      BY <1>5, <2>2
    <3>2. QED
      BY <2>2, <3>1
  <2>3. QED
    BY <1>6, <2>1, <2>2
<1>9. \A m \in Node : \A q, mac : PlaysWith(m, q, mac)' => PlaysWith(m, q, mac)
  BY <1>4 DEF PlaysWith, Queued
<1>10. \A q, mac : ~ PlaysWith(n, q, mac)'
  BY <1>1, <1>4 DEF PlaysWith, Queued
<1>11. round[n] < r \/ (r = round[n] /\ LoopRuns(n) /\ D \subseteq DOMAIN offers[n])
  BY <1>1, <1>3, <1>5
<1>12. own = [round |-> r, mac |-> Nominee(r, D)]
  BY DEF own
<1> HIDE DEF D
<1>13. \A m \in Node \ {n} :
         phase'[m] = phase[m] /\ loop'[m] = loop[m] /\ offers'[m] = offers[m]
  BY <1>4, <1>7
<1>14. phase'[n] = "negotiating"
  BY <1>1, <1>4
<1>15. \A m \in Node : \A k \in DOMAIN switches'[m] :
         \E j \in DOMAIN switches[m] : switches'[m][k] = switches[m][j]
  BY <1>4
<1>16. \A p \in D \ {n} :
         \/ p \in DOMAIN offers[n] /\ offers'[n][p] = offers[n][p]
         \/ HeardOf(p, offers'[n][p])
         \/ offers'[n][p] = Blank
  BY <1>7 DEF D
<1>17. \A m \in Node \ {n} : \A q, mac : PlaysWith(m, q, mac)' => PlaysWith(m, q, mac)
  BY <1>9
<1>18. \A m, p \in Node : \A k \in DOMAIN wire'[p][m] :
         \/ \E j \in DOMAIN wire[p][m] : wire'[p][m][k] = wire[p][m][j]
         \/ p = n /\ wire'[p][m][k] = own
  BY <1>8
<1>19. round' = [round EXCEPT ![n] = r] /\ DOMAIN offers'[n] = D /\ offers'[n][n] = own
       /\ r \in Nat /\ D \in SUBSET Node /\ n \in D
  BY <1>2, <1>3, <1>4, <1>7
<1>20. Nominates(n, r, D, own)
  BY <1>10, <1>11, <1>12, <1>13, <1>14, <1>15, <1>16, <1>17, <1>18, <1>19 DEF Nominates
<1>21. QED
  BY <1>20, ViewsNominate

LEMMA ViewsEnterNegotiating ==
  ASSUME ViewsInv, IInv', NEW n \in Node, NEW S \in SUBSET Node,
         NEW sender, NEW offer, EnterNegotiating(n, S, sender, offer), UNCHANGED wire,
         sender \in Node => HeardOf(sender, offer) \/ offer = Blank,
         Queued(n, "playing")' = {},
         \A m \in Node \ {n} : switches'[m] = switches[m],
         \A k \in DOMAIN switches'[n] :
           \E j \in DOMAIN switches[n] : switches'[n][k] = switches[n][j]
  PROVE  ViewsInv'
<1> DEFINE r == round[n] + 1
           D == S \cup {n}
           own == [round |-> r, mac |-> Nominee(r, D)]
           map == [m \in D |-> IF m = n THEN own ELSE IF m = sender THEN offer ELSE Blank]
<1>1. /\ TypeOK /\ phase \in [Node -> Phase] /\ round \in [Node -> Nat]
      /\ loop \in [Node -> Loop] /\ peers \in [Node -> SUBSET Node]
      /\ DOMAIN offers = Node /\ generator \in [Node -> Mac]
  BY DEF ViewsInv, IInv, TypeOK
<1>2. /\ phase' = [phase EXCEPT ![n] = "negotiating"]
      /\ round' = [round EXCEPT ![n] = r]
      /\ loop' = [loop EXCEPT ![n] = "asked"]
      /\ peers' = [peers EXCEPT ![n] = S]
      /\ offers' = [offers EXCEPT ![n] = map]
      /\ generator' = [generator EXCEPT ![n] = NoMac]
  BY DEF EnterNegotiating, BeginNegotiation
<1>3. /\ DOMAIN map = D /\ map[n] = own
      /\ \A p \in D \ {n} : map[p] = Blank \/ HeardOf(p, map[p])
  OBVIOUS
<1>4. r \in Nat /\ round[n] < r /\ own = [round |-> r, mac |-> Nominee(r, D)]
      /\ D \in SUBSET Node /\ n \in D
  BY <1>1
<1> HIDE DEF r, D, own, map
<1>5. /\ phase'[n] = "negotiating" /\ offers'[n] = map
      /\ \A m \in Node \ {n} :
           /\ phase'[m] = phase[m] /\ loop'[m] = loop[m] /\ offers'[m] = offers[m]
           /\ peers'[m] = peers[m] /\ generator'[m] = generator[m]
  BY <1>1, <1>2
<1>6. \A q, mac : ~ PlaysWith(n, q, mac)'
  BY <1>5 DEF PlaysWith
<1>7. \A m \in Node \ {n} : \A q, mac : PlaysWith(m, q, mac)' => PlaysWith(m, q, mac)
  BY <1>5 DEF PlaysWith, Queued
<1>8. \A m \in Node : \A k \in DOMAIN switches'[m] :
        \E j \in DOMAIN switches[m] : switches'[m][k] = switches[m][j]
  OBVIOUS
<1>9. \A m, p \in Node : \A k \in DOMAIN wire'[p][m] :
        \/ \E j \in DOMAIN wire[p][m] : wire'[p][m][k] = wire[p][m][j]
        \/ p = n /\ wire'[p][m][k] = own
  OBVIOUS
<1>10. Nominates(n, r, D, own)
  BY <1>2, <1>3, <1>4, <1>5, <1>6, <1>7, <1>8, <1>9 DEF Nominates
<1>11. QED
  BY <1>10, ViewsNominate

LEMMA ViewsExecuteSwitch ==
  ASSUME ViewsInv, IInv', NEW n \in Node, ExecuteSwitch(n)
  PROVE  ViewsInv'
<1> DEFINE sw == Head(switches[n])
<1>1. /\ IInv /\ TypeOK /\ phase \in [Node -> Phase]
      /\ loop \in [Node -> Loop] /\ peers \in [Node -> SUBSET Node]
      /\ DOMAIN offers = Node /\ generator \in [Node -> Mac]
  BY DEF ViewsInv, IInv, TypeOK
<1>2. /\ 1 \in DOMAIN switches[n] /\ sw = switches[n][1] /\ sw \in Switch
      /\ \A m \in Node \ {n} : switches'[m] = switches[m]
      /\ \A k \in DOMAIN switches'[n] : /\ k + 1 \in DOMAIN switches[n]
                                        /\ switches'[n][k] = switches[n][k + 1]
  BY <1>1, TailFacts
<1>3. UNCHANGED wire
  BY DEF ExecuteSwitch
<1>4. \A m \in Node : \A k \in DOMAIN switches'[m] :
        \E j \in DOMAIN switches[m] : switches'[m][k] = switches[m][j]
  BY <1>2
<1>5. \A k \in Queued(n, "playing")' :
        k + 1 \in Queued(n, "playing") /\ switches'[n][k] = switches[n][k + 1]
  BY <1>2 DEF Queued
<1> HIDE DEF sw
<1>6. ASSUME round' = round,
             \A m \in Node \ {n} :
               /\ phase'[m] = phase[m] /\ loop'[m] = loop[m] /\ peers'[m] = peers[m]
               /\ offers'[m] = offers[m] /\ generator'[m] = generator[m],
             offers'[n] \in {offers[n], NoOffers},
             LoopRuns(n)' => LoopRuns(n) /\ offers'[n] = offers[n],
             \A q, mac : phase'[n] = "playing" /\ q \in peers'[n] \cup {n}
                         /\ mac = generator'[n] => PlaysWith(n, q, mac)
      PROVE  ViewsInv'
  <2>1. ASSUME NEW m \in Node, NEW q, NEW mac, PlaysWith(m, q, mac)'
        PROVE  PlaysWith(m, q, mac)
    <3>1. CASE m = n
      <4>1. CASE phase'[n] = "playing" /\ q \in peers'[n] \cup {n} /\ mac = generator'[n]
        BY <1>6, <3>1, <4>1
      <4>2. CASE \E k \in Queued(n, "playing")' :
                   q \in switches'[n][k].peers \cup {n} /\ mac = switches'[n][k].mac
        BY <1>5, <3>1, <4>2 DEF PlaysWith
      <4>3. QED
        BY <2>1, <3>1, <4>1, <4>2 DEF PlaysWith
    <3>2. CASE m # n
      BY <1>2, <1>6, <2>1, <3>2 DEF PlaysWith, Queued
    <3>3. QED
      BY <3>1, <3>2
  <2>2. \A m \in Node : \A p \in DOMAIN offers'[m] :
          p \in DOMAIN offers[m] /\ offers'[m][p] = offers[m][p]
    BY <1>6 DEF NoOffers
  <2>3. \A m \in Node : LoopRuns(m)' => LoopRuns(m) /\ offers'[m] = offers[m]
    BY <1>6 DEF LoopRuns
  <2>4. \A m \in Node : \A k \in Queued(m, "negotiating")' :
          \E j \in DOMAIN switches[m] : switches'[m][k] = switches[m][j]
    BY <1>4 DEF Queued
  <2>5. \A m, p \in Node : \A k \in DOMAIN wire'[p][m] :
          \E j \in DOMAIN wire[p][m] : wire'[p][m][k] = wire[p][m][j]
    BY <1>3
  <2>6. QED
    BY <1>6, <2>1, <2>2, <2>3, <2>4, <2>5, ViewsKept
<1>7. CASE UNCHANGED <<phase, round, loop, peers, connected, offers, generator,
                       ignoring, failing>> /\ sw.to = phase[n]
  <2>1. \A q, mac : phase'[n] = "playing" /\ q \in peers'[n] \cup {n}
                    /\ mac = generator'[n] => PlaysWith(n, q, mac)
    BY <1>7 DEF PlaysWith
  <2>2. LoopRuns(n)' => LoopRuns(n)
    BY <1>7 DEF LoopRuns
  <2>3. QED
    BY <1>6, <1>7, <2>1, <2>2
<1>8. CASE sw.to = "negotiating" /\ EnterNegotiating(n, sw.peers, sw.mac, sw.offer)
  <2>1. 1 \in Queued(n, "negotiating")
    BY <1>2, <1>8 DEF Queued
  <2>2. Queued(n, "playing") = {}
    BY <1>1, <2>1 DEF IInv, ShapeInv, QueueShape, QueueShapeOf
  <2>3. Queued(n, "playing")' = {}
    BY <1>5, <2>2
  <2>4. sw.mac \in Node => HeardOf(sw.mac, sw.offer) \/ sw.offer = Blank
    BY <1>2, <2>1 DEF HeardOf
  <2>5. sw.peers \in SUBSET Node
    BY <1>2 DEF Switch
  <2>6. QED
    BY <1>2, <1>3, <1>4, <1>8, <2>3, <2>4, <2>5, ViewsEnterNegotiating
<1>9. CASE sw.to = "playing" /\ EnterPlaying(n, sw.peers, sw.mac)
  <2>1. /\ phase' = [phase EXCEPT ![n] = "playing"]
        /\ loop' = [loop EXCEPT ![n] = "none"]
        /\ peers' = [peers EXCEPT ![n] = sw.peers]
        /\ offers' = [offers EXCEPT ![n] = NoOffers]
        /\ generator' = [generator EXCEPT ![n] = sw.mac]
        /\ round' = round
    BY <1>9 DEF EnterPlaying
  <2>2. 1 \in Queued(n, "playing")
    BY <1>2, <1>9 DEF Queued
  <2>3. /\ phase'[n] = "playing" /\ peers'[n] = sw.peers /\ generator'[n] = sw.mac
        /\ offers'[n] = NoOffers
        /\ \A m \in Node \ {n} :
             /\ phase'[m] = phase[m] /\ loop'[m] = loop[m] /\ peers'[m] = peers[m]
             /\ offers'[m] = offers[m] /\ generator'[m] = generator[m]
    BY <1>1, <2>1
  <2>4. \A q, mac : phase'[n] = "playing" /\ q \in peers'[n] \cup {n}
                    /\ mac = generator'[n] => PlaysWith(n, q, mac)
    BY <1>2, <2>2, <2>3 DEF PlaysWith
  <2>5. ~ LoopRuns(n)'
    BY <2>3 DEF LoopRuns
  <2>6. QED
    BY <1>6, <2>1, <2>3, <2>4, <2>5
<1>10. CASE sw.to = "idle" /\ EnterIdle(n)
  <2>1. /\ phase' = [phase EXCEPT ![n] = "idle"]
        /\ loop' = [loop EXCEPT ![n] = "none"]
        /\ peers' = [peers EXCEPT ![n] = {}]
        /\ offers' = [offers EXCEPT ![n] = NoOffers]
        /\ generator' = [generator EXCEPT ![n] = NoMac]
        /\ round' = round
    BY <1>10 DEF EnterIdle
  <2>2. /\ phase'[n] = "idle" /\ offers'[n] = NoOffers
        /\ \A m \in Node \ {n} :
             /\ phase'[m] = phase[m] /\ loop'[m] = loop[m] /\ peers'[m] = peers[m]
             /\ offers'[m] = offers[m] /\ generator'[m] = generator[m]
    BY <1>1, <2>1
  <2>3. ~ LoopRuns(n)'
    BY <2>2 DEF LoopRuns
  <2>4. QED
    BY <1>6, <2>1, <2>2, <2>3
<1>11. QED
  BY <1>7, <1>8, <1>9, <1>10 DEF ExecuteSwitch, sw

LEMMA ViewsAgree ==
  ASSUME ViewsInv, IInv', NEW n \in Node, LoopMayRun(n), Agree(n)
  PROVE  ViewsInv'
<1> DEFINE sw == ToPlaying(peers[n], offers[n][n].mac)
<1>1. /\ IInv /\ TypeOK /\ LoopRuns(n) /\ AllOffersEqual(n)
      /\ Queue(n, sw) /\ round' = round
      /\ loop' = [loop EXCEPT ![n] = "done"]
      /\ peers' = [peers EXCEPT ![n] = {}]
      /\ UNCHANGED <<phase, offers, generator, wire>>
  BY DEF LoopMayRun, LoopRuns, Agree, ViewsInv, IInv
<1>2. DOMAIN offers[n] = peers[n] \cup {n} /\ offers[n][n].mac \in Node
  BY <1>1 DEF IInv, ShapeInv, OffersMatchPeers, OwnOffer, LoopRuns
<1>3. sw \in Switch
  BY <1>1, <1>2, SwitchTypes DEF TypeOK
<1>4. sw.to = "playing" /\ sw.peers = peers[n] /\ sw.mac = offers[n][n].mac
  BY DEF ToPlaying
<1> HIDE DEF sw
<1>5. /\ \A m \in Node \ {n} : switches'[m] = switches[m]
      /\ \A k \in DOMAIN switches'[n] :
           \/ k \in DOMAIN switches[n] /\ switches'[n][k] = switches[n][k]
           \/ switches'[n][k] = sw
  BY <1>1, <1>3, QueueFacts
<1>6. \A m \in Node : \A k \in Queued(m, "negotiating")' :
        \E j \in DOMAIN switches[m] : switches'[m][k] = switches[m][j]
  BY <1>4, <1>5 DEF Queued
<1>7. ASSUME NEW m \in Node, NEW q, NEW mac, PlaysWith(m, q, mac)'
      PROVE  \/ PlaysWith(m, q, mac)
             \/ /\ LoopRuns(m) /\ AllOffersEqual(m)
                /\ q \in DOMAIN offers[m] /\ mac = offers[m][m].mac
  <2>1. peers \in [Node -> SUBSET Node] /\ phase[n] # "playing"
    BY <1>1 DEF TypeOK, LoopRuns
  <2>2. CASE m = n
    <3>1. PICK k \in DOMAIN switches'[n] : /\ switches'[n][k].to = "playing"
                                          /\ q \in switches'[n][k].peers \cup {n}
                                          /\ mac = switches'[n][k].mac
      BY <1>1, <1>7, <2>1, <2>2 DEF PlaysWith, Queued
    <3>2. CASE k \in DOMAIN switches[n] /\ switches'[n][k] = switches[n][k]
      BY <2>2, <3>1, <3>2 DEF PlaysWith, Queued
    <3>3. CASE switches'[n][k] = sw
      BY <1>1, <1>2, <1>4, <2>2, <3>1, <3>3
    <3>4. QED
      BY <1>5, <3>2, <3>3
  <2>3. CASE m # n
    BY <1>1, <1>5, <1>7, <2>1, <2>3 DEF PlaysWith, Queued
  <2>4. QED
    BY <2>2, <2>3
<1>8. \A m \in Node : LoopRuns(m)' => LoopRuns(m)
  BY <1>1 DEF LoopRuns, TypeOK
<1>9. QED
  BY <1>1, <1>6, <1>7, <1>8, ViewsKept

(* The remaining actions: events and their requests. *)
LEMMA ViewsEvent ==
  ASSUME ViewsInv, IInv', UNCHANGED <<phase, round, generator>>,
         \A m \in Node : peers'[m] \subseteq peers[m],
         \A m, p \in Node : \A k \in DOMAIN wire'[p][m] :
           \E j \in DOMAIN wire[p][m] : wire'[p][m][k] = wire[p][m][j],
         \A m \in Node : \A p \in DOMAIN offers'[m] :
           /\ p \in DOMAIN offers[m]
           /\ \/ offers'[m][p] = offers[m][p]
              \/ p # m /\ HeardOf(p, offers'[m][p])
              \/ p # m /\ offers'[m][p] = Blank,
         \A m \in Node : loop'[m] = loop[m] \/ loop[m] # "done",
         \A m \in Node : \A k \in DOMAIN switches'[m] :
           \/ k \in DOMAIN switches[m] /\ switches'[m][k] = switches[m][k]
           \/ /\ switches'[m][k].to # "playing"
              /\ \/ switches'[m][k].mac \notin Node
                 \/ HeardOf(switches'[m][k].mac, switches'[m][k].offer)
                 \/ switches'[m][k].offer = Blank
  PROVE  ViewsInv'
<1>1. ASSUME NEW m \in Node, NEW q, NEW mac, PlaysWith(m, q, mac)'
      PROVE  PlaysWith(m, q, mac)
  <2>1. \A k \in Queued(m, "playing")' :
          k \in Queued(m, "playing") /\ switches'[m][k] = switches[m][k]
    BY DEF Queued
  <2>2. QED
    BY <1>1, <2>1 DEF PlaysWith
<1>2. ASSUME NEW m \in Node, LoopRuns(m)'
      PROVE  /\ LoopRuns(m)
             /\ DOMAIN offers'[m] \subseteq DOMAIN offers[m]
             /\ offers'[m][m] = offers[m][m]
  <2>1. LoopRuns(m)
    BY <1>2 DEF LoopRuns
  <2>2. m \in DOMAIN offers'[m]
    BY <1>2 DEF LoopRuns, IInv, ShapeInv, OffersMatchPeers
  <2>3. QED
    BY <2>1, <2>2
<1>3. \A m \in Node : \A k \in Queued(m, "negotiating")' :
        \/ \E j \in DOMAIN switches[m] : switches'[m][k] = switches[m][j]
        \/ switches'[m][k].mac \in Node =>
             \/ HeardOf(switches'[m][k].mac, switches'[m][k].offer)
             \/ switches'[m][k].offer = Blank
  BY DEF Queued
<1>4. QED
  BY <1>1, <1>2, <1>3, ViewsKept

LEMMA HeadIsHeard ==
  ASSUME TypeOK, NEW n \in Node, NEW p \in Node, wire[p][n] # <<>>
  PROVE  HeardOf(p, Head(wire[p][n])) \/ Head(wire[p][n]) = Blank
<1>1. wire[p][n] \in Seq(Offer)
  BY DEF TypeOK
<1>2. 1 \in DOMAIN wire[p][n] /\ Head(wire[p][n]) = wire[p][n][1]
  BY <1>1
<1>3. QED
  BY <1>2 DEF HeardOf

LEMMA ViewsReceive ==
  ASSUME ViewsInv, IInv', NEW n \in Node, NEW p \in Node \ {n},
         ReceiveOffer(n, p) \/ IgnoreOffer(n, p) \/ DropOffer(n, p)
  PROVE  ViewsInv'
<1>1. /\ IInv /\ TypeOK /\ wire[p][n] # <<>> /\ ConsumeFrom(p, n)
      /\ UNCHANGED <<phase, switches, round, loop, peers, generator>>
  BY DEF ReceiveOffer, IgnoreOffer, DropOffer, ViewsInv, IInv
<1>2. \A m, q \in Node : \A k \in DOMAIN wire'[q][m] :
        \E j \in DOMAIN wire[q][m] : wire'[q][m][k] = wire[q][m][j]
  BY <1>1, WireTail
<1>3. HeardOf(p, Head(wire[p][n])) \/ Head(wire[p][n]) = Blank
  BY <1>1, HeadIsHeard
<1>4. /\ TypeOK' /\ DOMAIN offers = Node
      /\ \A m \in Node : peers'[m] \subseteq peers[m]
  BY <1>1 DEF TypeOK, IInv
<1>5. ASSUME NEW m \in Node, NEW q \in DOMAIN offers'[m]
      PROVE  /\ q \in DOMAIN offers[m]
             /\ \/ offers'[m][q] = offers[m][q]
                \/ q # m /\ HeardOf(q, offers'[m][q])
                \/ q # m /\ offers'[m][q] = Blank
  <2>1. CASE offers' = offers
    BY <2>1
  <2>2. CASE offers' = [offers EXCEPT ![n][p] = Head(wire[p][n])]
    BY <1>3, <1>4, <2>2
  <2>3. QED
    BY <2>1, <2>2 DEF ReceiveOffer, IgnoreOffer, DropOffer
<1>6. QED
  BY <1>1, <1>2, <1>4, <1>5, ViewsEvent

(* A request to leave the state, which makes no offer of its own. *)
LEMMA ViewsRequest ==
  ASSUME ViewsInv, IInv', NEW n \in Node, NEW sw \in Switch, Queue(n, sw),
         sw.to # "playing",
         sw.mac \notin Node \/ HeardOf(sw.mac, sw.offer) \/ sw.offer = Blank,
         UNCHANGED <<phase, round, loop, offers, generator>>,
         \A m \in Node : peers'[m] \subseteq peers[m],
         \A m, p \in Node : \A k \in DOMAIN wire'[p][m] :
           \E j \in DOMAIN wire[p][m] : wire'[p][m][k] = wire[p][m][j]
  PROVE  ViewsInv'
<1>1. /\ \A m \in Node \ {n} : switches'[m] = switches[m]
      /\ \A k \in DOMAIN switches'[n] :
           \/ k \in DOMAIN switches[n] /\ switches'[n][k] = switches[n][k]
           \/ switches'[n][k] = sw
  BY QueueFacts DEF ViewsInv, IInv
<1>2. \A m \in Node : \A k \in DOMAIN switches'[m] :
        \/ k \in DOMAIN switches[m] /\ switches'[m][k] = switches[m][k]
        \/ /\ switches'[m][k].to # "playing"
           /\ \/ switches'[m][k].mac \notin Node
              \/ HeardOf(switches'[m][k].mac, switches'[m][k].offer)
              \/ switches'[m][k].offer = Blank
  BY <1>1
<1>3. QED
  BY <1>2, ViewsEvent

LEMMA ViewsRequests ==
  ASSUME ViewsInv, IInv', NEW n \in Node,
         Renegotiate(n) \/ StopGame(n) \/ \E p \in Node \ {n} : RejoinNegotiation(n, p)
  PROVE  ViewsInv'
<1>1. TypeOK /\ \A m \in Node : peers[m] \subseteq Node /\ connected[m] \subseteq Node
  BY DEF ViewsInv, IInv, TypeOK
<1>2. CASE Renegotiate(n)
  <2> DEFINE sw == ToNegotiating(connected[n], NoMac, Blank)
  <2>1. sw \in Switch /\ sw.to = "negotiating" /\ sw.mac = NoMac /\ NoMac \notin Node
    BY <1>1, NegotiatingSwitch
  <2>2. /\ Queue(n, sw)
        /\ UNCHANGED <<phase, round, loop, peers, offers, generator, wire>>
    BY <1>2 DEF Renegotiate
  <2> HIDE DEF sw
  <2>3. QED
    BY <2>1, <2>2, ViewsRequest
<1>3. CASE StopGame(n)
  <2>1. ToIdle \in Switch /\ ToIdle.to = "idle" /\ ToIdle.offer = Blank
    BY SwitchTypes DEF ToIdle
  <2>2. /\ Queue(n, ToIdle)
        /\ UNCHANGED <<phase, round, loop, peers, offers, generator, wire>>
    BY <1>3 DEF StopGame
  <2>3. QED
    BY <2>1, <2>2, ViewsRequest
<1>4. ASSUME NEW p \in Node \ {n}, RejoinNegotiation(n, p)
      PROVE  ViewsInv'
  <2> DEFINE sw == ToNegotiating(connected[n] \cup {p}, p, Head(wire[p][n]))
  <2>1. /\ Queue(n, sw) /\ wire[p][n] # <<>> /\ ConsumeFrom(p, n)
        /\ peers' = [peers EXCEPT ![n] = {}]
        /\ UNCHANGED <<phase, round, loop, offers, generator>>
    BY <1>4 DEF RejoinNegotiation
  <2>2. Head(wire[p][n]) \in Offer /\ p \in Mac
    BY <1>1, <2>1, WireTail DEF Mac
  <2>3. /\ sw \in Switch /\ sw.to = "negotiating"
        /\ sw.mac = p /\ sw.offer = Head(wire[p][n])
    BY <1>1, <2>2, NegotiatingSwitch
  <2>4. HeardOf(sw.mac, sw.offer) \/ sw.offer = Blank
    BY <1>1, <2>1, <2>3, HeadIsHeard
  <2>5. \A m, q \in Node : \A k \in DOMAIN wire'[q][m] :
          \E j \in DOMAIN wire[q][m] : wire'[q][m][k] = wire[q][m][j]
    BY <1>1, <2>1, WireTail
  <2>6. \A m \in Node : peers'[m] \subseteq peers[m]
    BY <1>1, <2>1 DEF TypeOK
  <2> HIDE DEF sw
  <2>7. QED
    BY <2>1, <2>3, <2>4, <2>5, <2>6, ViewsRequest
<1>5. QED
  BY <1>2, <1>3, <1>4

LEMMA ViewsFailures ==
  ASSUME ViewsInv, IInv', NEW n \in Node, NEW p \in Node \ {n},
         SendFailed(n, p) \/ ReadFailureNegotiating(n, p) \/ ReadFailurePlaying(n, p)
  PROVE  ViewsInv'
<1>1. IInv /\ TypeOK /\ \A m \in Node : peers[m] \subseteq Node /\ connected[m] \subseteq Node
  BY DEF ViewsInv, IInv, TypeOK
<1>2. CASE SendFailed(n, p) \/ ReadFailureNegotiating(n, p)
  <2>1. /\ \A m \in Node : peers'[m] \subseteq peers[m]
        /\ \A m \in Node : \A q \in DOMAIN offers'[m] :
             q \in DOMAIN offers[m] /\ offers'[m][q] = offers[m][q]
    BY <1>1, <1>2, ForgetPeer DEF SendFailed, ReadFailureNegotiating
  <2>2. UNCHANGED <<phase, switches, round, loop, generator>>
    BY <1>2 DEF SendFailed, ReadFailureNegotiating
  <2>3. wire' = [wire EXCEPT ![p][n] = <<>>] \/ UNCHANGED wire
    BY <1>2 DEF SendFailed, ReadFailureNegotiating
  <2>4. \A m, q \in Node : \A k \in DOMAIN wire'[q][m] :
          \E j \in DOMAIN wire[q][m] : wire'[q][m][k] = wire[q][m][j]
    BY <1>1, <2>3, WireCleared
  <2>5. QED
    BY <2>1, <2>2, <2>4, ViewsEvent
<1>3. CASE ReadFailurePlaying(n, p)
  <2>1. /\ UNCHANGED <<phase, round, loop, peers, offers, generator>>
        /\ wire' = [wire EXCEPT ![p][n] = <<>>] \/ UNCHANGED wire
    BY <1>3 DEF ReadFailurePlaying
  <2>2. \A m, q \in Node : \A k \in DOMAIN wire'[q][m] :
          \E j \in DOMAIN wire[q][m] : wire'[q][m][k] = wire[q][m][j]
    BY <1>1, <2>1, WireCleared
  <2>3. CASE UNCHANGED switches
    BY <2>1, <2>2, <2>3, ViewsEvent
  <2>4. CASE Queue(n, ToNegotiating(connected[n] \ {p}, NoMac, Blank))
    <3> DEFINE sw == ToNegotiating(connected[n] \ {p}, NoMac, Blank)
    <3>1. sw \in Switch /\ sw.to = "negotiating" /\ sw.offer = Blank
      BY <1>1, NegotiatingSwitch
    <3>2. Queue(n, sw)
      BY <2>4
    <3> HIDE DEF sw
    <3>3. QED
      BY <2>1, <2>2, <3>1, <3>2, ViewsRequest
  <2>5. QED
    BY <1>3, <2>3, <2>4 DEF ReadFailurePlaying
<1>4. QED
  BY <1>2, <1>3

LEMMA ViewsOther ==
  ASSUME ViewsInv, IInv', NEW n \in Node,
         \/ NegotiationRefused(n) \/ IgnoreOver(n)
         \/ \E p \in Node \ {n} : LinkBreaks(n, p)
  PROVE  ViewsInv'
<1>1. /\ UNCHANGED <<phase, switches, round, peers, offers, generator, wire>>
      /\ \/ loop' = loop
         \/ loop[n] = "asked" /\ loop' = [loop EXCEPT ![n] = "stuck"]
  BY DEF NegotiationRefused, IgnoreOver, LinkBreaks
<1>2. \A m \in Node : loop'[m] = loop[m] \/ loop[m] # "done"
  BY <1>1 DEF ViewsInv, IInv, TypeOK
<1>3. QED
  BY <1>1, <1>2, ViewsEvent

LEMMA ViewsInit ==
  ASSUME Init
  PROVE  ViewsInv
<1>1. ASSUME NEW p \in Node
      PROVE  NominatesFrom(p, {p})
  <2>1. /\ phase = [n \in Node |-> "connecting"] /\ switches = [n \in Node |-> <<>>]
        /\ offers = [n \in Node |-> NoOffers]
        /\ wire = [q \in Node |-> [n \in Node |-> <<>>]]
    BY DEF Init
  <2>2. \A n \in Node : \A to : Queued(n, to) = {}
    BY <2>1 DEF Queued
  <2>3. \A n \in Node : \A q, mac : ~ PlaysWith(n, q, mac)
    BY <2>1, <2>2 DEF PlaysWith
  <2>4. \A offer : ~ HeardOf(p, offer)
    BY <2>1, <2>2, <2>3 DEF HeardOf, NoOffers
  <2>5. ~ LoopRuns(p)
    BY <2>1 DEF LoopRuns
  <2>6. QED
    BY <2>3, <2>4, <2>5 DEF NominatesFrom
<1>2. QED
  BY <1>1, InitIInv DEF ViewsInv

LEMMA ViewsNext ==
  ASSUME ViewsInv, [Next]_vars
  PROVE  ViewsInv'
<1>1. IInv'
  BY NextIInv DEF ViewsInv
<1>2. CASE UNCHANGED vars
  BY <1>1, <1>2, ViewsEvent DEF vars
<1>3. CASE Next
  <2>1. \A n \in Node : Others(n) = Node \ {n}
    BY DEF Others
  <2>2. PICK n \in Node :
           \/ StartGame(n)
           \/ ExecuteSwitch(n)
           \/ LoopMayRun(n) /\ Agree(n)
           \/ LoopMayRun(n) /\ \E lost : Broadcast(n, lost)
           \/ NegotiationRefused(n)
           \/ IgnoreOver(n)
           \/ Renegotiate(n)
           \/ StopGame(n)
           \/ \E p \in Others(n) :
                \/ ReceiveOffer(n, p)
                \/ RejoinNegotiation(n, p)
                \/ IgnoreOffer(n, p)
                \/ DropOffer(n, p)
                \/ SendFailed(n, p)
                \/ ReadFailureNegotiating(n, p)
                \/ ReadFailurePlaying(n, p)
                \/ LinkBreaks(n, p)
    BY <1>3, NextCases
  <2>3. CASE StartGame(n)
    <3>1. /\ phase[n] = "connecting" /\ UNCHANGED <<switches, wire>>
          /\ EnterNegotiating(n, {p \in Others(n) : Link(n, p) \in linked}, NoMac, Blank)
      BY <2>3 DEF StartGame
    <3>2. Queued(n, "playing")' = {}
      BY <3>1 DEF ViewsInv, IInv, ShapeInv, QueueShape, QueueShapeOf, Queued
    <3>3. {p \in Others(n) : Link(n, p) \in linked} \in SUBSET Node /\ NoMac \notin Node
      BY NodeAssumption DEF Others
    <3>4. QED
      BY <1>1, <3>1, <3>2, <3>3, ViewsEnterNegotiating
  <2>4. CASE ExecuteSwitch(n)
    BY <1>1, <2>4, ViewsExecuteSwitch
  <2>5. CASE LoopMayRun(n) /\ Agree(n)
    BY <1>1, <2>5, ViewsAgree
  <2>6. CASE LoopMayRun(n) /\ \E lost : Broadcast(n, lost)
    BY <1>1, <2>6, ViewsBroadcast
  <2>7. CASE NegotiationRefused(n) \/ IgnoreOver(n)
    BY <1>1, <2>7, ViewsOther
  <2>8. CASE Renegotiate(n) \/ StopGame(n)
    BY <1>1, <2>8, ViewsRequests
  <2>9. ASSUME NEW p \in Node \ {n},
               \/ ReceiveOffer(n, p)
               \/ RejoinNegotiation(n, p)
               \/ IgnoreOffer(n, p)
               \/ DropOffer(n, p)
               \/ SendFailed(n, p)
               \/ ReadFailureNegotiating(n, p)
               \/ ReadFailurePlaying(n, p)
               \/ LinkBreaks(n, p)
        PROVE  ViewsInv'
    BY <1>1, <2>9, ViewsReceive, ViewsRequests, ViewsFailures, ViewsOther
  <2>10. QED
    BY <2>1, <2>2, <2>3, <2>4, <2>5, <2>6, <2>7, <2>8, <2>9
<1>4. QED
  BY <1>2, <1>3

(***************************************************************************)
(* For any number of phones, any departures and any losses: what a phone    *)
(* nominated in its round it computed from a set that holds every phone it  *)
(* still reckons with, and it never computes from more phones later in the  *)
(* round (SendOffer and OnSocketReadFailure only erase).                    *)
(***************************************************************************)
THEOREM NominationsShrink == Spec => []ViewsInv
<1>1. Init => ViewsInv
  BY ViewsInit
<1>2. ViewsInv /\ [Next]_vars => ViewsInv'
  BY ViewsNext
<1>3. QED
  BY <1>1, <1>2, PTL DEF Spec

(* Two phones that play with each other took each other's last nomination    *)
(* or an earlier one.                                                        *)
LEMMA MutualNominations ==
  ASSUME ViewsInv, NEW n \in Node, NEW p \in Node,
         phase[n] = "playing", phase[p] = "playing", p \in peers[n], n \in peers[p]
  PROVE  \E B, C, D, E \in SUBSET Node :
           /\ peers[n] \cup {n} \subseteq B /\ B \subseteq E
           /\ peers[p] \cup {p} \subseteq C /\ C \subseteq D
           /\ generator[n] = Nominee(round[n], B) /\ generator[n] = Nominee(round[n], D)
           /\ generator[p] = Nominee(round[n], C) /\ generator[p] = Nominee(round[n], E)
<1>1. TypeOK /\ round[n] = round[p]
  BY DEF ViewsInv, IInv, TypeOK, PlaysInRoundOfPeers
<1>2. /\ \A q \in peers[n] \cup {n} : PlaysWith(n, q, generator[n])
      /\ \A q \in peers[p] \cup {p} : PlaysWith(p, q, generator[p])
  BY DEF PlaysWith
<1>3. PICK B \in SUBSET Node : NominatesFrom(n, B)
  BY DEF ViewsInv
<1>4. PICK C \in SUBSET Node : NominatesFrom(p, C)
  BY DEF ViewsInv
<1>5. /\ peers[n] \cup {n} \subseteq B /\ generator[n] = Nominee(round[n], B)
      /\ peers[p] \cup {p} \subseteq C /\ generator[p] = Nominee(round[p], C)
  BY <1>2, <1>3, <1>4 DEF NominatesFrom
<1>6. generator[n] \in Node /\ generator[p] \in Node
  <2>1. round[n] \in Nat
    BY <1>1 DEF TypeOK
  <2>2. QED
    BY <1>1, <1>5, <2>1, NomineeType
<1>7. /\ HeardOf(p, [round |-> round[n], mac |-> generator[n]])
      /\ HeardOf(n, [round |-> round[p], mac |-> generator[p]])
  BY <1>2, <1>6, NodeAssumption DEF HeardOf, Blank, Mac
<1>8. PICK D \in SUBSET Node : C \subseteq D /\ generator[n] = Nominee(round[n], D)
  BY <1>1, <1>4, <1>7 DEF NominatesFrom
<1>9. PICK E \in SUBSET Node : B \subseteq E /\ generator[p] = Nominee(round[n], E)
  BY <1>1, <1>3, <1>7 DEF NominatesFrom
<1>10. QED
  BY <1>1, <1>5, <1>8, <1>9

(***************************************************************************)
(* In a game of at most three phones, two that play with each other obey    *)
(* one generator, whoever leaves and whatever link breaks and at whatever   *)
(* moment the phones learn of it (UpdateAndBroadcastOffer, SendOffer,       *)
(* OnSocketReadFailure).                                                    *)
(***************************************************************************)
THEOREM ThreePlayersAgree ==
  ASSUME Cardinality(Node) <= 3
  PROVE  Spec => []PeerAgreement
<1>1. ViewsInv => PeerAgreement
  <2>1. SUFFICES ASSUME ViewsInv, NEW n \in Node, NEW p \in Node,
                        phase[n] = "playing", phase[p] = "playing",
                        p \in peers[n], n \in peers[p]
                 PROVE  generator[n] = generator[p]
    BY DEF PeerAgreement
  <2>2. PICK B, C, D, E \in SUBSET Node :
           /\ peers[n] \cup {n} \subseteq B /\ B \subseteq E
           /\ peers[p] \cup {p} \subseteq C /\ C \subseteq D
           /\ generator[n] = Nominee(round[n], B) /\ generator[n] = Nominee(round[n], D)
           /\ generator[p] = Nominee(round[n], C) /\ generator[p] = Nominee(round[n], E)
    BY <2>1, MutualNominations
  <2>3. ASSUME NEW S \in SUBSET Node, {n, p} \subseteq S
        PROVE  S = {n, p} \/ S = Node
    <3>1. n # p
      BY <2>1 DEF ViewsInv, IInv, ShapeInv, NeverOwnPeer
    <3>2. ASSUME NEW x \in S \ {n, p}, NEW y \in Node \ S
          PROVE  FALSE
      <4>1. IsFiniteSet(Node)
        BY NodeAssumption
      <4>2. /\ Cardinality({n, p}) = 2 /\ IsFiniteSet({n, p})
        <5>1. Cardinality({n}) = 1 /\ IsFiniteSet({n}) /\ {n, p} = {n} \cup {p} /\ p \notin {n}
          BY <3>1, FS_Singleton
        <5>2. QED
          BY <5>1, FS_AddElement
      <4>3. /\ Cardinality({n, p, x}) = 3 /\ IsFiniteSet({n, p, x})
        <5>1. {n, p, x} = {n, p} \cup {x} /\ x \notin {n, p}
          OBVIOUS
        <5>2. IsFiniteSet({n, p} \cup {x})
              /\ Cardinality({n, p} \cup {x}) = Cardinality({n, p}) + 1
          BY <4>2, <5>1, FS_AddElement
        <5>3. QED
          BY <4>2, <5>1, <5>2
      <4>4. /\ Cardinality({n, p, x, y}) = 4
        <5>1. {n, p, x, y} = {n, p, x} \cup {y} /\ y \notin {n, p, x}
          BY <2>3
        <5>2. IsFiniteSet({n, p, x} \cup {y})
              /\ Cardinality({n, p, x} \cup {y}) = Cardinality({n, p, x}) + 1
          BY <4>3, <5>1, FS_AddElement
        <5>3. QED
          BY <4>3, <5>1, <5>2
      <4>5. {n, p, x, y} \subseteq Node
        OBVIOUS
      <4>6. Cardinality({n, p, x, y}) <= Cardinality(Node) /\ Cardinality(Node) \in Nat
        BY <4>1, <4>5, FS_Subset, FS_CardinalityType
      <4>7. QED
        BY <4>4, <4>6
    <3>3. QED
      BY <2>3, <3>2
  <2>4. CASE B = C
    BY <2>2, <2>4
  <2>5. CASE B = Node
    <3>1. E = B
      BY <2>2, <2>5
    <3>2. QED
      BY <2>2, <3>1
  <2>6. CASE C = Node
    <3>1. D = C
      BY <2>2, <2>6
    <3>2. QED
      BY <2>2, <3>1
  <2>7. B = C \/ B = Node \/ C = Node
    <3>1. B = {n, p} \/ B = Node
      BY <2>1, <2>2, <2>3
    <3>2. C = {n, p} \/ C = Node
      BY <2>1, <2>2, <2>3
    <3>3. QED
      BY <3>1, <3>2
  <2>8. QED
    BY <2>4, <2>5, <2>6, <2>7
<1>2. QED
  BY <1>1, NominationsShrink, PTL

-----------------------------------------------------------------------------
(* One departure from a game of any size: the phones that stay lose sight of *)
(* nobody but the phone that leaves.                                         *)

StaysWithAll(n, gone) ==
  LET Stay == Others(n) \ {gone}
  IN /\ phase[n] \in {"connecting", "negotiating", "playing"}
     /\ failing[n] \subseteq {gone}
     /\ \A k \in DOMAIN switches[n] : switches[n][k].to \in {"negotiating", "playing"}
     /\ LoopRuns(n) => Stay \subseteq peers[n]
     /\ \A k \in Queued(n, "playing") : Stay \subseteq switches[n][k].peers
     /\ phase[n] = "playing" =>
          /\ peers[n] = {} \/ Stay \subseteq peers[n]
          /\ switches[n] = <<>> => Stay \subseteq connected[n]
          /\ switches[n] # <<>> => Stay \subseteq switches[n][1].peers

DepartureInv(gone) ==
  /\ IInv
  /\ \A l \in AllLinks : l \in linked \/ gone \in l
  /\ \A n \in Node \ {gone} : StaysWithAll(n, gone)

(* Which links work, seen from a phone that stays. *)
LEMMA StillLinked ==
  ASSUME NEW gone, \A l \in AllLinks : l \in linked \/ gone \in l,
         NEW n \in Node \ {gone}, NEW p \in Node \ {n, gone}
  PROVE  Link(n, p) \in linked
<1>1. Link(n, p) \in {Link(m, q) : m \in Node, q \in Node}
  OBVIOUS
<1>2. \A m \in Node : Link(n, p) # {m}
  BY DEF Link
<1>3. Link(n, p) \in AllLinks
  BY <1>1, <1>2 DEF AllLinks
<1>4. gone \notin Link(n, p)
  BY DEF Link
<1>5. QED
  BY <1>3, <1>4

(* A phone moves alone: no action changes the state of another one. *)
Alone(n) ==
  \A m \in Node \ {n} :
    /\ phase'[m] = phase[m] /\ loop'[m] = loop[m] /\ switches'[m] = switches[m]
    /\ peers'[m] = peers[m] /\ connected'[m] = connected[m] /\ failing'[m] = failing[m]

LEMMA DepartureStep ==
  ASSUME NEW gone, DepartureInv(gone), IInv', NEW n \in Node, Alone(n),
         linked' = linked \/ linked' = {l \in linked : gone \notin l},
         n # gone => StaysWithAll(n, gone)'
  PROVE  DepartureInv(gone)'
<1>1. \A l \in AllLinks : l \in linked' \/ gone \in l
  BY DEF DepartureInv
<1>2. ASSUME NEW m \in Node \ {gone}, m # n
      PROVE  StaysWithAll(m, gone)'
  BY <1>2 DEF DepartureInv, StaysWithAll, Alone, LoopRuns, Queued, Others
<1>3. QED
  BY <1>1, <1>2 DEF DepartureInv, AllLinks, Link

LEMMA StepsAlone ==
  ASSUME TypeOK, NEW n \in Node,
         \/ StartGame(n) \/ ExecuteSwitch(n) \/ Agree(n) \/ \E lost : Broadcast(n, lost)
         \/ NegotiationRefused(n) \/ IgnoreOver(n) \/ Renegotiate(n) \/ StopGame(n)
         \/ \E p \in Others(n) :
              \/ ReceiveOffer(n, p) \/ RejoinNegotiation(n, p) \/ IgnoreOffer(n, p)
              \/ DropOffer(n, p) \/ SendFailed(n, p) \/ ReadFailureNegotiating(n, p)
              \/ ReadFailurePlaying(n, p) \/ LinkBreaks(n, p)
  PROVE  Alone(n)
<1>1. /\ phase \in [Node -> Phase] /\ loop \in [Node -> Loop]
      /\ switches \in [Node -> Seq(Switch)] /\ peers \in [Node -> SUBSET Node]
      /\ connected \in [Node -> SUBSET Node] /\ failing \in [Node -> SUBSET Node]
  BY DEF TypeOK
<1>2. CASE \E S, sender, offer :
             EnterNegotiating(n, S, sender, offer) /\ switches' = switches
  BY <1>1, <1>2 DEF Alone, EnterNegotiating, BeginNegotiation
<1>3. CASE StartGame(n)
  BY <1>2, <1>3 DEF StartGame
<1>4. CASE ExecuteSwitch(n)
  <2>1. \A m \in Node \ {n} : switches'[m] = switches[m]
    BY <1>1, <1>4 DEF ExecuteSwitch
  <2>2. \A m \in Node \ {n} :
          /\ phase'[m] = phase[m] /\ loop'[m] = loop[m]
          /\ peers'[m] = peers[m] /\ connected'[m] = connected[m]
          /\ failing'[m] = failing[m]
    <3>1. CASE UNCHANGED <<phase, loop, peers, connected, failing>>
      BY <3>1
    <3>2. CASE \E S, sender, offer : EnterNegotiating(n, S, sender, offer)
      BY <1>1, <3>2 DEF EnterNegotiating, BeginNegotiation
    <3>3. CASE \E S, mac : EnterPlaying(n, S, mac)
      BY <1>1, <3>3 DEF EnterPlaying
    <3>4. CASE EnterIdle(n)
      BY <1>1, <3>4 DEF EnterIdle
    <3>5. QED
      BY <1>4, <3>1, <3>2, <3>3, <3>4 DEF ExecuteSwitch
  <2>3. QED
    BY <2>1, <2>2 DEF Alone
<1>5. CASE Agree(n)
  BY <1>1, <1>5 DEF Agree, Queue, Alone
<1>6. CASE \E lost : Broadcast(n, lost)
  BY <1>1, <1>6 DEF Broadcast, Alone
<1>7. CASE NegotiationRefused(n) \/ IgnoreOver(n) \/ Renegotiate(n) \/ StopGame(n)
  BY <1>1, <1>7 DEF NegotiationRefused, IgnoreOver, Renegotiate, StopGame, Queue, Alone
<1>8. ASSUME NEW p \in Others(n),
             \/ ReceiveOffer(n, p) \/ RejoinNegotiation(n, p) \/ IgnoreOffer(n, p)
             \/ DropOffer(n, p) \/ SendFailed(n, p) \/ ReadFailureNegotiating(n, p)
             \/ ReadFailurePlaying(n, p) \/ LinkBreaks(n, p)
      PROVE  Alone(n)
  BY <1>1, <1>8 DEF ReceiveOffer, RejoinNegotiation, IgnoreOffer, DropOffer, SendFailed,
                    ReadFailureNegotiating, ReadFailurePlaying, LinkBreaks, Queue, Alone
<1>9. QED
  BY <1>3, <1>4, <1>5, <1>6, <1>7, <1>8

(* What is requested by a phone that stays. *)
LEMMA DepartureQueue ==
  ASSUME NEW gone, TypeOK, NEW n \in Node \ {gone}, StaysWithAll(n, gone),
         NEW sw \in Switch, Queue(n, sw), sw.to \in {"negotiating", "playing"}
  PROVE  /\ \A k \in DOMAIN switches'[n] : switches'[n][k].to \in {"negotiating", "playing"}
         /\ \A k \in Queued(n, "playing")' :
              \/ k \in Queued(n, "playing") /\ switches'[n][k] = switches[n][k]
              \/ switches'[n][k] = sw /\ sw.to = "playing"
         /\ switches'[n] # <<>>
         /\ switches[n] # <<>> => switches'[n][1] = switches[n][1]
         /\ switches[n] = <<>> => switches'[n][1] = sw
<1>1. \A k \in DOMAIN switches'[n] :
        \/ k \in DOMAIN switches[n] /\ switches'[n][k] = switches[n][k]
        \/ switches'[n][k] = sw
  BY QueueFacts
<1>2. switches[n] \in Seq(Switch) /\ switches'[n] = Append(switches[n], sw)
  BY DEF TypeOK, Queue
<1>3. switches'[n] # <<>> /\ (switches[n] # <<>> => switches'[n][1] = switches[n][1])
      /\ (switches[n] = <<>> => switches'[n][1] = sw)
  BY <1>2
<1>4. QED
  BY <1>1, <1>3 DEF StaysWithAll, Queued

LEMMA StayerExecutes ==
  ASSUME NEW gone, DepartureInv(gone), NEW n \in Node \ {gone}, ExecuteSwitch(n)
  PROVE  StaysWithAll(n, gone)'
<1> DEFINE sw == Head(switches[n])
           Stay == Others(n) \ {gone}
<1>1. TypeOK /\ StaysWithAll(n, gone) /\ QueueShapeOf(n)
  BY DEF DepartureInv, IInv, ShapeInv, QueueShape
<1>2. /\ 1 \in DOMAIN switches[n] /\ sw = switches[n][1]
      /\ \A k \in DOMAIN switches'[n] :
           k + 1 \in DOMAIN switches[n] /\ switches'[n][k] = switches[n][k + 1]
  BY <1>1, TailFacts
<1>3. /\ switches[n] \in Seq(Switch) /\ phase \in [Node -> Phase] /\ loop \in [Node -> Loop]
      /\ peers \in [Node -> SUBSET Node] /\ connected \in [Node -> SUBSET Node]
      /\ failing \in [Node -> SUBSET Node]
      /\ switches[n] # <<>> /\ switches'[n] = Tail(switches[n])
  BY <1>1 DEF TypeOK, ExecuteSwitch
<1>4. \A k \in DOMAIN switches'[n] : switches'[n][k].to \in {"negotiating", "playing"}
  BY <1>1, <1>2 DEF StaysWithAll
<1>5. \A k \in Queued(n, "playing")' : Stay \subseteq switches'[n][k].peers
  BY <1>1, <1>2 DEF StaysWithAll, Queued
<1>6. sw.to \in {"negotiating", "playing"}
  BY <1>1, <1>2 DEF StaysWithAll
<1>7. CASE sw.to = phase[n]
  <2>1. UNCHANGED <<phase, loop, peers, connected, failing>>
    BY <1>6, <1>7 DEF ExecuteSwitch
  <2>2. phase[n] = "negotiating"
    <3>1. sw.to = "playing" => 1 \in Queued(n, "playing")
      BY <1>2 DEF Queued
    <3>2. QED
      BY <1>1, <1>6, <1>7, <3>1 DEF QueueShapeOf
  <2>3. QED
    BY <1>1, <1>4, <1>5, <2>1, <2>2 DEF StaysWithAll, LoopRuns, Others
<1>8. CASE sw.to # phase[n] /\ sw.to = "negotiating"
  <2>1. phase[n] = "playing"
    BY <1>1, <1>3, <1>8 DEF StaysWithAll, QueueShapeOf
  <2>2. Stay \subseteq sw.peers
    BY <1>1, <1>2, <1>3, <2>1 DEF StaysWithAll
  <2>3. phase'[n] = "negotiating" /\ peers'[n] = sw.peers /\ failing'[n] = {}
    BY <1>3, <1>8 DEF ExecuteSwitch, EnterNegotiating, BeginNegotiation
  <2> HIDE DEF sw
  <2>4. QED
    BY <1>4, <1>5, <2>2, <2>3 DEF StaysWithAll, LoopRuns, Others
<1>9. CASE sw.to # phase[n] /\ sw.to = "playing"
  <2>1. 1 \in Queued(n, "playing")
    BY <1>2, <1>9 DEF Queued
  <2>2. Queued(n, "negotiating") = {} /\ \A j, k \in Queued(n, "playing") : j = k
    BY <1>1, <2>1 DEF QueueShapeOf
  <2>3. \A k \in DOMAIN switches[n] : k = 1
    BY <1>1, <2>1, <2>2 DEF Queued, StaysWithAll
  <2>4. switches'[n] = <<>>
    <3>1. Len(switches[n]) \in Nat \ {0} /\ DOMAIN switches[n] = 1 .. Len(switches[n])
      BY <1>3
    <3>2. Len(switches[n]) \in DOMAIN switches[n]
      BY <3>1
    <3>3. Len(switches[n]) = 1
      BY <2>3, <3>2
    <3>4. Tail(switches[n]) \in Seq(Switch) /\ Len(Tail(switches[n])) = 0
      BY <1>3, <3>3
    <3>5. QED
      BY <1>3, <3>4, EmptySeq
  <2>5. Stay \subseteq sw.peers
    BY <1>1, <1>2, <2>1 DEF StaysWithAll
  <2>6. /\ phase'[n] = "playing" /\ peers'[n] = sw.peers /\ connected'[n] = sw.peers
        /\ failing'[n] = {}
    BY <1>3, <1>9 DEF ExecuteSwitch, EnterPlaying
  <2> HIDE DEF sw
  <2>7. QED
    BY <1>4, <1>5, <2>4, <2>5, <2>6 DEF StaysWithAll, LoopRuns, Others
<1>10. QED
  BY <1>6, <1>7, <1>8, <1>9

LEMMA StayerLoops ==
  ASSUME NEW gone, DepartureInv(gone), NEW n \in Node \ {gone}, LoopMayRun(n),
         Agree(n) \/ \E lost : Broadcast(n, lost)
  PROVE  StaysWithAll(n, gone)'
<1>1. /\ TypeOK /\ StaysWithAll(n, gone) /\ LoopRuns(n) /\ phase[n] = "negotiating"
      /\ Queued(n, "playing") = {} /\ OwnOffer
  BY DEF DepartureInv, IInv, ShapeInv, QueueShape, QueueShapeOf, LoopMayRun, LoopRuns
<1>2. /\ loop \in [Node -> Loop] /\ peers \in [Node -> SUBSET Node]
      /\ failing \in [Node -> SUBSET Node]
      /\ Others(n) \ {gone} \subseteq peers[n]
  BY <1>1 DEF TypeOK, StaysWithAll
<1>3. CASE Agree(n)
  <2> DEFINE sw == ToPlaying(peers[n], offers[n][n].mac)
  <2>1. offers[n][n].mac \in Node
    BY <1>1 DEF OwnOffer, LoopRuns
  <2>2. sw \in Switch
    BY <1>2, <2>1, SwitchTypes
  <2>3. sw.to = "playing" /\ sw.peers = peers[n]
    BY DEF ToPlaying
  <2>4. /\ Queue(n, sw) /\ UNCHANGED <<phase, failing>>
        /\ loop' = [loop EXCEPT ![n] = "done"]
    BY <1>3 DEF Agree
  <2> HIDE DEF sw
  <2>5. /\ \A k \in DOMAIN switches'[n] : switches'[n][k].to \in {"negotiating", "playing"}
        /\ \A k \in Queued(n, "playing")' : switches'[n][k] = sw
    BY <1>1, <2>2, <2>3, <2>4, DepartureQueue
  <2>6. phase'[n] = "negotiating" /\ loop'[n] = "done" /\ failing'[n] = failing[n]
    BY <1>1, <1>2, <2>4
  <2>7. QED
    BY <1>1, <1>2, <2>3, <2>5, <2>6 DEF StaysWithAll, LoopRuns, Others
<1>4. CASE \E lost : Broadcast(n, lost)
  <2>1. /\ UNCHANGED <<phase, switches, peers>>
        /\ failing'[n] = failing[n] \cup
             (peers[n] \ {p \in peers[n] : Link(n, p) \in linked})
    BY <1>2, <1>4 DEF Broadcast
  <2>2. n \notin peers[n]
    BY DEF DepartureInv, IInv, ShapeInv, NeverOwnPeer
  <2>3. failing'[n] \subseteq {gone}
    <3>1. ASSUME NEW p \in peers[n], p # gone
          PROVE  Link(n, p) \in linked
      <4>1. p \in Node \ {n, gone}
        BY <1>2, <2>2, <3>1
      <4>2. QED
        BY <4>1, StillLinked DEF DepartureInv
    <3>2. QED
      BY <1>1, <2>1, <3>1 DEF StaysWithAll
  <2>4. QED
    BY <1>1, <1>2, <2>1, <2>3 DEF StaysWithAll, LoopRuns, Queued, Others
<1>5. QED
  BY <1>3, <1>4

LEMMA StayerStarts ==
  ASSUME NEW gone, DepartureInv(gone), NEW n \in Node \ {gone}, StartGame(n)
  PROVE  StaysWithAll(n, gone)'
<1>1. TypeOK /\ switches[n] = <<>> /\ switches' = switches
  BY DEF StartGame, DepartureInv, IInv, ShapeInv, QueueShape, QueueShapeOf
<1>2. Others(n) \ {gone} \subseteq {p \in Others(n) : Link(n, p) \in linked}
  BY StillLinked DEF DepartureInv, Others
<1>3. /\ phase'[n] = "negotiating" /\ failing'[n] = {}
      /\ peers'[n] = {p \in Others(n) : Link(n, p) \in linked}
  BY <1>1 DEF StartGame, EnterNegotiating, BeginNegotiation, TypeOK
<1>4. Queued(n, "playing")' = {}
  BY <1>1 DEF Queued
<1>5. QED
  BY <1>1, <1>2, <1>3, <1>4 DEF StaysWithAll, LoopRuns, Others

(* A request from StatePlaying, or none; the peers that stay are kept. *)
KeepsStayers(n, gone) ==
  /\ phase' = phase /\ failing' = failing
  /\ loop'[n] = loop[n] \/ loop[n] # "done"
  /\ \/ switches' = switches
     \/ /\ phase[n] = "playing"
        /\ \E sw \in Switch : /\ Queue(n, sw) /\ sw.to = "negotiating"
                               /\ connected[n] \ {gone} \subseteq sw.peers
  /\ \/ peers[n] \ {gone} \subseteq peers'[n] /\ peers'[n] \subseteq peers[n]
     \/ phase[n] = "playing" /\ peers'[n] = {}
  /\ switches' = switches => connected[n] \ {gone} \subseteq connected'[n]

(* Events of a phone that stays. *)
LEMMA StayerEvent ==
  ASSUME NEW gone, DepartureInv(gone), NEW n \in Node \ {gone}, KeepsStayers(n, gone)
  PROVE  StaysWithAll(n, gone)'
<1> DEFINE Stay == Others(n) \ {gone}
<1>1. TypeOK /\ StaysWithAll(n, gone)
  BY DEF DepartureInv, IInv
<1>2. LoopRuns(n)' => Stay \subseteq peers'[n]
  BY <1>1 DEF StaysWithAll, LoopRuns, KeepsStayers
<1>3. phase[n] = "playing" => peers'[n] = {} \/ Stay \subseteq peers'[n]
  BY <1>1 DEF StaysWithAll, KeepsStayers
<1>4. CASE switches' = switches
  <2>1. phase[n] = "playing" /\ switches[n] = <<>> => Stay \subseteq connected'[n]
    BY <1>1, <1>4 DEF StaysWithAll, KeepsStayers
  <2>2. QED
    BY <1>1, <1>2, <1>3, <1>4, <2>1 DEF StaysWithAll, KeepsStayers, Queued, Others
<1>5. ASSUME phase[n] = "playing", NEW sw \in Switch, Queue(n, sw),
             sw.to = "negotiating", connected[n] \ {gone} \subseteq sw.peers
      PROVE  StaysWithAll(n, gone)'
  <2>1. /\ \A k \in DOMAIN switches'[n] : switches'[n][k].to \in {"negotiating", "playing"}
        /\ \A k \in Queued(n, "playing")' :
              k \in Queued(n, "playing") /\ switches'[n][k] = switches[n][k]
        /\ switches'[n] # <<>>
        /\ switches[n] # <<>> => switches'[n][1] = switches[n][1]
        /\ switches[n] = <<>> => switches'[n][1] = sw
    BY <1>1, <1>5, DepartureQueue
  <2>2. Stay \subseteq switches'[n][1].peers
    BY <1>1, <1>5, <2>1 DEF StaysWithAll
  <2>3. QED
    BY <1>1, <1>2, <1>3, <1>5, <2>1, <2>2 DEF StaysWithAll, KeepsStayers, Others
<1>6. QED
  BY <1>4, <1>5 DEF KeepsStayers

LEMMA StayerReceives ==
  ASSUME NEW gone, DepartureInv(gone), NEW n \in Node \ {gone}, NEW p \in Node \ {n},
         ReceiveOffer(n, p) \/ RejoinNegotiation(n, p) \/ IgnoreOffer(n, p) \/ DropOffer(n, p)
  PROVE  StaysWithAll(n, gone)'
<1>1. TypeOK /\ peers[n] \in SUBSET Node /\ connected[n] \in SUBSET Node
  BY DEF DepartureInv, IInv, TypeOK
<1>2. CASE ReceiveOffer(n, p) \/ IgnoreOffer(n, p) \/ DropOffer(n, p)
  <2>1. UNCHANGED <<phase, switches, loop, peers, failing>>
        /\ connected[n] \subseteq connected'[n]
    BY <1>1, <1>2 DEF ReceiveOffer, IgnoreOffer, DropOffer, TypeOK
  <2>2. KeepsStayers(n, gone)
    BY <1>1, <2>1 DEF KeepsStayers
  <2>3. QED
    BY <2>2, StayerEvent
<1>3. CASE RejoinNegotiation(n, p)
  <2> DEFINE sw == ToNegotiating(connected[n] \cup {p}, p, Head(wire[p][n]))
  <2>1. /\ Queue(n, sw) /\ wire[p][n] # <<>> /\ ConsumeFrom(p, n)
        /\ peers' = [peers EXCEPT ![n] = {}] /\ phase[n] = "playing"
        /\ UNCHANGED <<phase, loop, failing>>
    BY <1>3 DEF RejoinNegotiation
  <2>2. Head(wire[p][n]) \in Offer /\ p \in Mac
    BY <1>1, <2>1, WireTail DEF Mac
  <2>3. /\ sw \in Switch /\ sw.to = "negotiating" /\ sw.peers = connected[n] \cup {p}
    BY <1>1, <2>2, NegotiatingSwitch
  <2> HIDE DEF sw
  <2>4. peers'[n] = {} /\ switches' # switches
    <3>1. switches[n] \in Seq(Switch) /\ switches'[n] = Append(switches[n], sw)
      BY <1>1, <2>1 DEF TypeOK, Queue
    <3>2. Len(switches'[n]) = Len(switches[n]) + 1 /\ Len(switches[n]) \in Nat
      BY <2>3, <3>1
    <3>3. QED
      BY <1>1, <2>1, <3>2 DEF TypeOK
  <2>5. KeepsStayers(n, gone)
    BY <1>1, <2>1, <2>3, <2>4 DEF KeepsStayers
  <2>6. QED
    BY <2>5, StayerEvent
<1>4. QED
  BY <1>2, <1>3

LEMMA StayerFails ==
  ASSUME NEW gone, DepartureInv(gone), NEW n \in Node \ {gone}, NEW p \in Node \ {n},
         SendFailed(n, p) \/ ReadFailureNegotiating(n, p) \/ ReadFailurePlaying(n, p)
  PROVE  StaysWithAll(n, gone)'
<1>1. TypeOK /\ peers[n] \in SUBSET Node /\ connected[n] \in SUBSET Node
      /\ StaysWithAll(n, gone)
  BY DEF DepartureInv, IInv, TypeOK
<1>2. p = gone
  <2>1. CASE SendFailed(n, p)
    BY <1>1, <2>1 DEF SendFailed, StaysWithAll
  <2>2. CASE ReadFailureNegotiating(n, p) \/ ReadFailurePlaying(n, p)
    BY <2>2, StillLinked DEF ReadFailureNegotiating, ReadFailurePlaying, DepartureInv
  <2>3. QED
    BY <2>1, <2>2
<1>3. CASE SendFailed(n, p)
  <2>1. /\ failing'[n] \subseteq failing[n] /\ peers'[n] = peers[n] \ {gone}
        /\ UNCHANGED <<phase, switches, loop, connected>>
    BY <1>1, <1>2, <1>3 DEF SendFailed, TypeOK
  <2>2. phase[n] = "negotiating"
    BY <1>3 DEF SendFailed
  <2>3. QED
    BY <1>1, <2>1, <2>2 DEF StaysWithAll, LoopRuns, Queued, Others
<1>4. CASE ReadFailureNegotiating(n, p)
  <2>1. /\ peers'[n] = peers[n] \ {gone}
        /\ UNCHANGED <<phase, switches, loop, connected, failing>>
    BY <1>1, <1>2, <1>4 DEF ReadFailureNegotiating, TypeOK
  <2>2. KeepsStayers(n, gone)
    BY <1>1, <2>1 DEF KeepsStayers
  <2>3. QED
    BY <2>2, StayerEvent
<1>5. CASE ReadFailurePlaying(n, p)
  <2>1. /\ connected'[n] = connected[n] \ {gone} /\ phase[n] = "playing"
        /\ UNCHANGED <<phase, loop, peers, failing>>
    BY <1>1, <1>2, <1>5 DEF ReadFailurePlaying, TypeOK
  <2>2. CASE switches' = switches
    <3>1. KeepsStayers(n, gone)
      BY <1>1, <2>1, <2>2 DEF KeepsStayers
    <3>2. QED
      BY <3>1, StayerEvent
  <2>3. CASE Queue(n, ToNegotiating(connected[n] \ {p}, NoMac, Blank))
    <3> DEFINE sw == ToNegotiating(connected[n] \ {p}, NoMac, Blank)
    <3>1. sw \in Switch /\ sw.to = "negotiating" /\ sw.peers = connected[n] \ {gone}
      BY <1>1, <1>2, NegotiatingSwitch
    <3>2. Queue(n, sw)
      BY <2>3
    <3> HIDE DEF sw
    <3>3. KeepsStayers(n, gone)
      BY <1>1, <2>1, <3>1, <3>2 DEF KeepsStayers
    <3>4. QED
      BY <3>3, StayerEvent
  <2>4. QED
    BY <1>5, <2>2, <2>3 DEF ReadFailurePlaying
<1>6. QED
  BY <1>3, <1>4, <1>5

LEMMA StayerRenegotiates ==
  ASSUME NEW gone, DepartureInv(gone), NEW n \in Node \ {gone},
         Renegotiate(n) \/ NegotiationRefused(n) \/ IgnoreOver(n)
  PROVE  StaysWithAll(n, gone)'
<1>1. TypeOK /\ connected[n] \in SUBSET Node
  BY DEF DepartureInv, IInv, TypeOK
<1>2. CASE Renegotiate(n)
  <2> DEFINE sw == ToNegotiating(connected[n], NoMac, Blank)
  <2>1. sw \in Switch /\ sw.to = "negotiating" /\ sw.peers = connected[n]
    BY <1>1, NegotiatingSwitch
  <2>2. /\ Queue(n, sw) /\ phase[n] = "playing"
        /\ UNCHANGED <<phase, loop, peers, connected, failing>>
    BY <1>2 DEF Renegotiate
  <2> HIDE DEF sw
  <2>3. KeepsStayers(n, gone)
    BY <1>1, <2>1, <2>2 DEF KeepsStayers
  <2>4. QED
    BY <2>3, StayerEvent
<1>3. CASE NegotiationRefused(n) \/ IgnoreOver(n)
  <2>1. /\ UNCHANGED <<phase, switches, peers, connected, failing>>
        /\ loop'[n] = loop[n] \/ loop[n] # "done"
    BY <1>3 DEF NegotiationRefused, IgnoreOver
  <2>2. KeepsStayers(n, gone)
    BY <1>1, <2>1 DEF KeepsStayers
  <2>3. QED
    BY <2>2, StayerEvent
<1>4. QED
  BY <1>2, <1>3

LEMMA DepartureNextInv ==
  ASSUME NEW gone, MayLeave \subseteq {gone}, MayBreak = {},
         DepartureInv(gone), [Next]_vars
  PROVE  DepartureInv(gone)'
<1>1. IInv' /\ TypeOK
  BY NextIInv DEF DepartureInv, IInv
<1>2. CASE UNCHANGED vars
  BY <1>1, <1>2 DEF vars, DepartureInv, StaysWithAll, LoopRuns, Queued, Others, AllLinks, Link
<1>3. CASE Next
  <2>1. \A n \in Node : Others(n) = Node \ {n}
    BY DEF Others
  <2>2. PICK n \in Node :
           \/ StartGame(n)
           \/ ExecuteSwitch(n)
           \/ LoopMayRun(n) /\ Agree(n)
           \/ LoopMayRun(n) /\ \E lost : Broadcast(n, lost)
           \/ NegotiationRefused(n)
           \/ IgnoreOver(n)
           \/ Renegotiate(n)
           \/ StopGame(n)
           \/ \E p \in Others(n) :
                \/ ReceiveOffer(n, p)
                \/ RejoinNegotiation(n, p)
                \/ IgnoreOffer(n, p)
                \/ DropOffer(n, p)
                \/ SendFailed(n, p)
                \/ ReadFailureNegotiating(n, p)
                \/ ReadFailurePlaying(n, p)
                \/ LinkBreaks(n, p)
    BY <1>3, NextCases
  <2>3. Alone(n)
    BY <1>1, <2>2, StepsAlone
  <2>4. \A p : ~ LinkBreaks(n, p)
    BY DEF LinkBreaks
  <2>5. n # gone => ~ StopGame(n)
    BY DEF StopGame
  <2>6. linked' = linked \/ linked' = {l \in linked : gone \notin l}
    BY <2>2, <2>4, <2>5
       DEF StartGame, ExecuteSwitch, Agree, Broadcast, NegotiationRefused, IgnoreOver,
           Renegotiate, StopGame, ReceiveOffer, RejoinNegotiation, IgnoreOffer, DropOffer,
           SendFailed, ReadFailureNegotiating, ReadFailurePlaying
  <2>7. ASSUME n # gone
        PROVE  StaysWithAll(n, gone)'
    <3>1. n \in Node \ {gone}
      BY <2>7
    <3>2. CASE StartGame(n)
      BY <3>1, <3>2, StayerStarts
    <3>3. CASE ExecuteSwitch(n)
      BY <3>1, <3>3, StayerExecutes
    <3>4. CASE LoopMayRun(n) /\ (Agree(n) \/ \E lost : Broadcast(n, lost))
      BY <3>1, <3>4, StayerLoops
    <3>5. CASE NegotiationRefused(n) \/ IgnoreOver(n) \/ Renegotiate(n)
      BY <3>1, <3>5, StayerRenegotiates
    <3>6. ASSUME NEW p \in Node \ {n},
                 \/ ReceiveOffer(n, p)
                 \/ RejoinNegotiation(n, p)
                 \/ IgnoreOffer(n, p)
                 \/ DropOffer(n, p)
                 \/ SendFailed(n, p)
                 \/ ReadFailureNegotiating(n, p)
                 \/ ReadFailurePlaying(n, p)
          PROVE  StaysWithAll(n, gone)'
      BY <3>1, <3>6, StayerReceives, StayerFails
    <3>7. QED
      BY <2>1, <2>2, <2>4, <2>5, <2>7, <3>2, <3>3, <3>4, <3>5, <3>6
  <2>8. QED
    BY <1>1, <2>3, <2>6, <2>7, DepartureStep
<1>4. QED
  BY <1>2, <1>3

(***************************************************************************)
(* When one phone leaves a game of any number of phones and no other link   *)
(* breaks, two that play with each other obey one generator.  (With a       *)
(* second departure in the same round four phones may disagree.)            *)
(***************************************************************************)
THEOREM OneDepartureKeepsPeersAgreed ==
  ASSUME NEW CONSTANT gone, MayLeave \subseteq {gone}, MayBreak = {}
  PROVE  Spec => []PeerAgreement
<1>1. Init => DepartureInv(gone)
  <2>1. SUFFICES ASSUME Init PROVE DepartureInv(gone)
    OBVIOUS
  <2>2. \A n \in Node : StaysWithAll(n, gone)
    BY <2>1 DEF Init, StaysWithAll, LoopRuns, Queued
  <2>3. linked = AllLinks
    BY <2>1 DEF Init
  <2>4. QED
    BY <2>1, <2>2, <2>3, InitIInv DEF DepartureInv
<1>2. DepartureInv(gone) /\ [Next]_vars => DepartureInv(gone)'
  BY DepartureNextInv
<1>3. ViewsInv /\ DepartureInv(gone) => PeerAgreement
  <2>1. SUFFICES ASSUME ViewsInv, DepartureInv(gone), NEW n \in Node, NEW p \in Node,
                        phase[n] = "playing", phase[p] = "playing",
                        p \in peers[n], n \in peers[p]
                 PROVE  generator[n] = generator[p]
    BY DEF PeerAgreement
  <2>2. PICK B, C, D, E \in SUBSET Node :
           /\ peers[n] \cup {n} \subseteq B /\ B \subseteq E
           /\ peers[p] \cup {p} \subseteq C /\ C \subseteq D
           /\ generator[n] = Nominee(round[n], B) /\ generator[n] = Nominee(round[n], D)
           /\ generator[p] = Nominee(round[n], C) /\ generator[p] = Nominee(round[n], E)
    BY <2>1, MutualNominations
  <2>3. ASSUME NEW m \in Node \ {gone}, phase[m] = "playing", peers[m] # {},
               NEW S \in SUBSET Node, peers[m] \cup {m} \subseteq S
        PROVE  Node \ {gone} \subseteq S
    <3>1. Others(m) \ {gone} \subseteq peers[m]
      BY <2>1, <2>3 DEF DepartureInv, StaysWithAll
    <3>2. QED
      BY <2>3, <3>1 DEF Others
  <2>4. CASE n # gone /\ p # gone
    <3>1. Node \ {gone} \subseteq B /\ Node \ {gone} \subseteq C
      BY <2>1, <2>2, <2>3, <2>4
    <3>2. B = C \/ B = Node \/ C = Node
      BY <3>1
    <3>3. CASE B = C
      BY <2>2, <3>3
    <3>4. CASE B = Node
      <4>1. E = B
        BY <2>2, <3>4
      <4>2. QED
        BY <2>2, <4>1
    <3>5. CASE C = Node
      <4>1. D = C
        BY <2>2, <3>5
      <4>2. QED
        BY <2>2, <4>1
    <3>6. QED
      BY <3>2, <3>3, <3>4, <3>5
  <2>5. CASE n = gone
    <3>1. p # gone
      BY <2>1, <2>5 DEF ViewsInv, IInv, ShapeInv, NeverOwnPeer
    <3>2. Node \subseteq C
      BY <2>1, <2>2, <2>3, <2>5, <3>1
    <3>3. D = C
      BY <2>2, <3>2
    <3>4. QED
      BY <2>2, <3>3
  <2>6. CASE p = gone
    <3>1. n # gone
      BY <2>1, <2>6 DEF ViewsInv, IInv, ShapeInv, NeverOwnPeer
    <3>2. Node \subseteq B
      BY <2>1, <2>2, <2>3, <2>6, <3>1
    <3>3. E = B
      BY <2>2, <3>2
    <3>4. QED
      BY <2>2, <3>3
  <2>7. QED
    BY <2>4, <2>5, <2>6
<1>4. QED
  BY <1>1, <1>2, <1>3, NominationsShrink, PTL DEF Spec

=============================================================================
