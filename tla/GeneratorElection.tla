------------------------- MODULE GeneratorElection -------------------------
(***************************************************************************)
(* What the negotiation promises the players: in every term the phones that *)
(* play obey one generator, a phone plays only once every phone has reached *)
(* its term, and a phone that stops obeying does so for a later term.       *)
(***************************************************************************)
EXTENDS Naturals

CONSTANTS
  Node,   \* the phones
  NoMac   \* what a phone obeys while it does not play

VARIABLES
  term,   \* the latest term a phone knows of
  obeys   \* the generator a phone plays with

vars == <<term, obeys>>

Init == term \in [Node -> Nat] /\ obeys = [n \in Node |-> NoMac]

(* A phone asks for a new election. *)
Begin(n) ==
  /\ term'  = [term EXCEPT ![n] = @ + 1]
  /\ obeys' = [obeys EXCEPT ![n] = NoMac]

(* A phone hears of a term that another one has begun. *)
Learn(n) ==
  /\ obeys[n] = NoMac
  /\ \E m \in Node : \E t \in term[n] + 1 .. term[m] : term' = [term EXCEPT ![n] = t]
  /\ UNCHANGED obeys

Elect(n, g) ==
  /\ obeys[n] = NoMac
  /\ \A m \in Node :
       /\ term[n] <= term[m]
       /\ obeys[m] # NoMac => term[m] = term[n] /\ obeys[m] = g
  /\ obeys' = [obeys EXCEPT ![n] = g]
  /\ UNCHANGED term

Next == \E n \in Node : Begin(n) \/ Learn(n) \/ \E g \in Node : Elect(n, g)

Spec == Init /\ [][Next]_vars

(* The promise itself: two phones that play obey the same generator. *)
OneGenerator ==
  \A n, m \in Node : obeys[n] # NoMac /\ obeys[m] # NoMac => obeys[n] = obeys[m]

=============================================================================
