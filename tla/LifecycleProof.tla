--------------------------- MODULE LifecycleProof ---------------------------
(* Proofs about Lifecycle, for any peers, retry counts and bounds.           *)
EXTENDS Lifecycle, TLAPS

(***************************************************************************)
(* A radio that is on, and not by a late answer, is known to the            *)
(* StateConnecting that wanted it; what a coroutine still asks for is not    *)
(* known to be on or off yet.                                               *)
(***************************************************************************)
RadioInv ==
  /\ state.type # "connecting" => radio \subseteq late
  /\ state.type = "connecting" =>
       /\ \A r \in radio \ late : state.radio[r].result = "yes"
       /\ \A r \in Radio : state.radio[r].at # "over" => state.radio[r].result = "unset"

IInv == TypeOK /\ PendingGameStarts /\ RadioInv

-----------------------------------------------------------------------------
(* States and queues                                                         *)

LEMMA TypeFacts ==
  ASSUME TypeOK
  PROVE  /\ created \in BOOLEAN /\ switches \in Seq(Switch) /\ exiting \in BOOLEAN
         /\ radio \subseteq Radio /\ orphans \in [Radio -> Nat] /\ late \subseteq Radio
         /\ stopped \in BOOLEAN
         /\ state.type \in Type
         /\ state.type = "none" => state = NoState
         /\ state.type = "idle" => state \in IdleState
         /\ state.type = "connecting" => state \in ConnectingState
         /\ state.type = "negotiating" => state \in NegotiatingState
         /\ state.type = "playing" => state \in PlayingState
<1>1. /\ NoState.type = "none"
      /\ \A s \in IdleState : s.type = "idle"
      /\ \A s \in ConnectingState : s.type = "connecting"
      /\ \A s \in NegotiatingState : s.type = "negotiating"
      /\ \A s \in PlayingState : s.type = "playing"
  BY DEF NoState, IdleState, ConnectingState, NegotiatingState, PlayingState
<1>2. \/ state = NoState \/ state \in IdleState \/ state \in ConnectingState
      \/ state \in NegotiatingState \/ state \in PlayingState
  BY DEF TypeOK
<1>3. /\ created \in BOOLEAN /\ switches \in Seq(Switch) /\ exiting \in BOOLEAN
      /\ radio \subseteq Radio /\ orphans \in [Radio -> Nat] /\ late \subseteq Radio
      /\ stopped \in BOOLEAN
  BY DEF TypeOK
<1>4. state.type \in Type
  BY <1>1, <1>2 DEF Type
<1>5. /\ state.type = "none" => state = NoState
      /\ state.type = "idle" => state \in IdleState
      /\ state.type = "connecting" => state \in ConnectingState
      /\ state.type = "negotiating" => state \in NegotiatingState
      /\ state.type = "playing" => state \in PlayingState
  BY <1>1, <1>2
<1>6. QED
  BY <1>3, <1>4, <1>5

LEMMA Switches ==
  /\ \A type \in Type : To(type) \in Switch /\ To(type).to = type
  /\ ToNewGame \in Switch
BY DEF To, ToNewGame, Switch, Type

(* A switch to StateConnecting is queued. *)
Promised == \E k \in DOMAIN switches : switches[k].to = "connecting"

(* Nothing leaves the queue but its head. *)
LEMMA Queued ==
  ASSUME TypeOK, NEW sw \in Switch, Queue(sw)
  PROVE  /\ switches' \in Seq(Switch) /\ (Promised => Promised')
         /\ sw.to = "connecting" => Promised'
<1>1. switches \in Seq(Switch) /\ switches' = Append(switches, sw)
  BY TypeFacts DEF Queue
<1>2. /\ switches' \in Seq(Switch) /\ Len(switches) \in Nat
      /\ DOMAIN switches = 1 .. Len(switches)
      /\ DOMAIN switches' = 1 .. Len(switches) + 1
      /\ switches'[Len(switches) + 1] = sw
      /\ \A k \in DOMAIN switches : switches'[k] = switches[k]
  BY <1>1
<1>3. Len(switches) + 1 \in DOMAIN switches' /\ DOMAIN switches \subseteq DOMAIN switches'
  BY <1>2
<1>4. Promised => Promised'
  BY <1>2, <1>3 DEF Promised
<1>5. sw.to = "connecting" => Promised'
  BY <1>2, <1>3 DEF Promised
<1>6. QED
  BY <1>2, <1>4, <1>5

(* The queue after a step that does not execute a switch. *)
QueueKept == switches' \in Seq(Switch) /\ (Promised => Promised')

LEMMA QueueSteps ==
  ASSUME TypeOK, NEW sw \in Switch, NEW cond, Queue(sw) \/ QueueIf(cond, sw) \/ UNCHANGED switches
  PROVE  QueueKept
<1>1. CASE switches' = switches
  BY <1>1, TypeFacts DEF QueueKept, Promised
<1>2. CASE Queue(sw)
  BY <1>2, Queued DEF QueueKept
<1>3. QED
  BY <1>1, <1>2 DEF QueueIf

(* What most steps leave alone, or set in the obvious way. *)
Plain ==
  /\ created' \in BOOLEAN /\ exiting' \in BOOLEAN /\ stopped' \in BOOLEAN
  /\ QueueKept

(***************************************************************************)
(* The kinds of steps: of StateIdle, of StateConnecting without its radios,  *)
(* and those that leave the state object alone.                             *)
(***************************************************************************)
LEMMA IdleStep ==
  ASSUME IInv, state.type = "idle", state' \in IdleState, Plain,
         UNCHANGED <<radio, orphans, late>>,
         state'.newGamePending /\ state'.bluetoothOn =>
           (state.newGamePending /\ state.bluetoothOn) \/ Promised'
  PROVE  IInv'
<1>1. state'.type = "idle"
  BY DEF IdleState
<1>2. TypeOK'
  BY TypeFacts DEF IInv, TypeOK, Plain, QueueKept
<1>3. PendingGameStarts'
  BY <1>1 DEF IInv, PendingGameStarts, Plain, QueueKept, Promised
<1>4. RadioInv'
  BY <1>1 DEF IInv, RadioInv
<1>5. QED
  BY <1>2, <1>3, <1>4 DEF IInv

LEMMA ConnectingStep ==
  ASSUME IInv, state.type = "connecting", state' \in ConnectingState, Plain,
         state'.radio = state.radio, UNCHANGED <<radio, orphans, late>>
  PROVE  IInv'
<1>1. state'.type = "connecting"
  BY DEF ConnectingState
<1>2. TypeOK'
  BY TypeFacts DEF IInv, TypeOK, Plain, QueueKept
<1>3. PendingGameStarts'
  BY <1>1 DEF PendingGameStarts
<1>4. RadioInv'
  BY <1>1 DEF IInv, RadioInv
<1>5. QED
  BY <1>2, <1>3, <1>4 DEF IInv

LEMMA StateKept ==
  ASSUME IInv, state' = state, Plain, UNCHANGED <<radio, orphans, late>>
  PROVE  IInv'
<1>1. TypeOK'
  BY DEF IInv, TypeOK, Plain, QueueKept
<1>2. PendingGameStarts'
  BY DEF IInv, PendingGameStarts, Plain, QueueKept, Promised
<1>3. RadioInv'
  BY DEF IInv, RadioInv
<1>4. QED
  BY <1>1, <1>2, <1>3 DEF IInv

-----------------------------------------------------------------------------
(* StateIdle                                                                 *)

LEMMA IdleInv ==
  ASSUME IInv, \/ IdleBluetoothOn \/ IdleBluetoothOff \/ IdleNewGame
               \/ EnableBluetoothAnswered \/ EnableBluetoothTimer
  PROVE  IInv'
<1>1. /\ state.type = "idle" /\ state \in IdleState
      /\ created' = created /\ created \in BOOLEAN /\ exiting \in BOOLEAN /\ stopped \in BOOLEAN
      /\ radio' = radio /\ orphans' = orphans /\ late' = late
  BY TypeFacts DEF IInv, IdleBluetoothOn, IdleBluetoothOff, IdleNewGame,
     EnableBluetoothAnswered, EnableBluetoothTimer
<1>2. To("connecting") \in Switch /\ To("connecting").to = "connecting" /\ To("none") \in Switch
  BY Switches DEF Type
<1>3. state.newGamePending \in BOOLEAN /\ state.bluetoothOn \in BOOLEAN
      /\ state.enabling \in {"no", "asked", "waiting"} /\ state.type = "idle"
  BY <1>1 DEF IdleState
<1>4. CASE /\ state' = [state EXCEPT !.bluetoothOn = TRUE, !.enabling = "no"]
           /\ QueueIf(state.newGamePending, To("connecting"))
           /\ UNCHANGED <<exiting, stopped>>
  <2>1. /\ state' \in IdleState /\ state'.newGamePending = state.newGamePending
    BY <1>1, <1>4 DEF IdleState
  <2>2. QueueKept
    BY <1>2, <1>4, QueueSteps DEF IInv
  <2>3. state.newGamePending => Promised'
    BY <1>2, <1>4, Queued DEF QueueIf, IInv
  <2>4. QED
    BY <1>1, <1>4, <2>1, <2>2, <2>3, IdleStep DEF Plain
<1>5. CASE IdleNewGame /\ state.bluetoothOn
  <2>1. /\ state' = [state EXCEPT !.newGamePending = TRUE]
        /\ Queue(To("connecting")) /\ stopped' = FALSE /\ exiting' = exiting
    BY <1>5 DEF IdleNewGame
  <2>2. state' \in IdleState
    BY <1>1, <2>1 DEF IdleState
  <2>3. QueueKept /\ Promised'
    BY <1>2, <2>1, Queued DEF IInv, QueueKept
  <2>4. QED
    BY <1>1, <2>1, <2>2, <2>3, IdleStep DEF Plain
<1>6. ASSUME state' \in IdleState, exiting' \in BOOLEAN, stopped' \in BOOLEAN,
             switches' = switches \/ Queue(To("none")),
             state'.bluetoothOn => state.bluetoothOn /\ state'.newGamePending = state.newGamePending
      PROVE  IInv'
  <2>1. QueueKept
    BY <1>2, <1>6, QueueSteps DEF IInv
  <2>2. QED
    BY <1>1, <1>3, <1>6, <2>1, IdleStep DEF Plain
<1>7. CASE IdleBluetoothOn
  BY <1>4, <1>7 DEF IdleBluetoothOn
<1>8. CASE IdleBluetoothOff
  <2>1. /\ state' = [state EXCEPT !.bluetoothOn = FALSE, !.enabling = Requested(@)]
        /\ switches' = switches /\ exiting' = exiting /\ stopped' = stopped
    BY <1>8 DEF IdleBluetoothOff
  <2>2. Requested(state.enabling) \in {"no", "asked", "waiting"}
    BY <1>3 DEF Requested
  <2>3. state' \in IdleState /\ state'.bluetoothOn = FALSE
    BY <1>1, <2>1, <2>2 DEF IdleState
  <2>4. QED
    BY <1>1, <1>6, <2>1, <2>3
<1>9. CASE IdleNewGame /\ ~state.bluetoothOn
  <2>1. /\ state' = [state EXCEPT !.newGamePending = TRUE, !.enabling = Requested(@)]
        /\ switches' = switches /\ exiting' = exiting /\ stopped' = FALSE
    BY <1>9 DEF IdleNewGame
  <2>2. Requested(state.enabling) \in {"no", "asked", "waiting"}
    BY <1>3 DEF Requested
  <2>3. state' \in IdleState /\ state'.bluetoothOn = state.bluetoothOn
    BY <1>1, <2>1, <2>2 DEF IdleState
  <2>4. QED
    BY <1>1, <1>6, <1>9, <2>1, <2>3
<1>10. CASE /\ \E next \in {"no", "waiting", "asked"} : state' = [state EXCEPT !.enabling = next]
            /\ exiting' \in BOOLEAN /\ stopped' = stopped
            /\ switches' = switches \/ Queue(To("none"))
  <2>1. PICK next \in {"no", "waiting", "asked"} : state' = [state EXCEPT !.enabling = next]
    BY <1>10
  <2>2. /\ state' \in IdleState /\ state'.bluetoothOn = state.bluetoothOn
        /\ state'.newGamePending = state.newGamePending
    BY <1>1, <2>1 DEF IdleState
  <2>3. QED
    BY <1>1, <1>6, <1>10, <2>2
<1>11. CASE EnableBluetoothAnswered
  BY <1>1, <1>4, <1>10, <1>11 DEF EnableBluetoothAnswered
<1>12. CASE EnableBluetoothTimer
  BY <1>1, <1>10, <1>12 DEF EnableBluetoothTimer
<1>13. QED
  BY <1>5, <1>7, <1>8, <1>9, <1>11, <1>12

-----------------------------------------------------------------------------
(* StateConnecting: discovery and listening                                  *)

(* What an answer or a timer may do to coroutine KickOff(r). *)
RadioSet(r, at, left, result) ==
  state' = [state EXCEPT !.radio[r] = [at |-> at, left |-> left, result |-> result]]

At     == {"asked", "waiting", "over"}
Result == {"unset", "yes", "no"}

LEMMA AtResult ==
  /\ \A k \in KickOff : k.at \in At /\ k.left \in Nat /\ k.result \in Result
  /\ "asked" \in At /\ "waiting" \in At /\ "over" \in At
  /\ "unset" \in Result /\ "yes" \in Result /\ "no" \in Result
BY DEF KickOff, At, Result

(***************************************************************************)
(* The steps change one or two of the three fields of a KickOff: the same   *)
(* as setting all three.                                                    *)
(***************************************************************************)
LEMMA RadioFields ==
  ASSUME state \in ConnectingState, NEW r \in Radio,
         NEW a \in At, NEW n \in Nat, NEW x \in Result
  PROVE  /\ state' = [state EXCEPT !.radio[r].at = a] =>
              RadioSet(r, a, state.radio[r].left, state.radio[r].result)
         /\ state' = [state EXCEPT !.radio[r].at = a, !.radio[r].left = n] =>
              RadioSet(r, a, n, state.radio[r].result)
         /\ state' = [state EXCEPT !.radio[r].at = a, !.radio[r].result = x] =>
              RadioSet(r, a, state.radio[r].left, x)
         /\ [state EXCEPT !.radio[r].at = a].radio[r].left = state.radio[r].left
<1>1. PICK s \in ConnectingState : s = state
  OBVIOUS
<1>2. PICK f \in [Radio -> KickOff] : f = s.radio
  BY <1>1 DEF ConnectingState
<1>3. PICK k \in KickOff : k = f[r]
  BY <1>2
<1>4. PICK k1 \in KickOff : k1 = [k EXCEPT !.at = a]
  BY <1>3 DEF KickOff, At
<1>5. [f EXCEPT ![r] = k1] \in [Radio -> KickOff] /\ [f EXCEPT ![r] = k1][r] = k1
  BY <1>2, <1>4
<1>6. PICK f1 \in [Radio -> KickOff] : f1 = [f EXCEPT ![r] = k1] /\ f1[r] = k1
  BY <1>5, Zenon
<1>7. [s EXCEPT !.radio = f1] \in ConnectingState /\ [s EXCEPT !.radio = f1].radio = f1
  BY <1>1, <1>6 DEF ConnectingState
<1>8. PICK s1 \in ConnectingState : s1 = [s EXCEPT !.radio = f1] /\ s1.radio = f1
  BY <1>7, Zenon
<1>9. \A k2 : [f1 EXCEPT ![r] = k2] = [f EXCEPT ![r] = k2]
  BY <1>2, <1>6
<1>10. \A k2 : [s1 EXCEPT !.radio = [f1 EXCEPT ![r] = k2]] =
               [s EXCEPT !.radio = [f1 EXCEPT ![r] = k2]]
  BY <1>1, <1>8 DEF ConnectingState
<1>11. ASSUME NEW k2, state' = [s1 EXCEPT !.radio = [f1 EXCEPT ![r] = k2]]
       PROVE  state' = [s EXCEPT !.radio[r] = k2]
  BY <1>2, <1>9, <1>10, <1>11, Zenon
<1>12. ASSUME state' = [state EXCEPT !.radio[r].at = a]
       PROVE  RadioSet(r, a, state.radio[r].left, state.radio[r].result)
  <2>1. k1 = [at |-> a, left |-> k.left, result |-> k.result]
    BY <1>3, <1>4 DEF KickOff
  <2>2. state' = [s EXCEPT !.radio[r] = k1]
    BY <1>1, <1>2, <1>3, <1>4, <1>12, Zenon
  <2>3. QED
    BY <1>1, <1>2, <1>3, <2>1, <2>2, Zenon DEF RadioSet
<1>13. ASSUME state' = [state EXCEPT !.radio[r].at = a, !.radio[r].left = n]
       PROVE  RadioSet(r, a, n, state.radio[r].result)
  <2>1. PICK k2 \in KickOff : k2 = [k1 EXCEPT !.left = n]
    BY <1>4 DEF KickOff
  <2>2. k2 = [at |-> a, left |-> n, result |-> k.result]
    BY <1>3, <1>4, <2>1 DEF KickOff
  <2>3. state' = [s1 EXCEPT !.radio[r].left = n]
    BY <1>1, <1>2, <1>3, <1>4, <1>6, <1>8, <1>13, Zenon
  <2>4. state' = [s1 EXCEPT !.radio = [f1 EXCEPT ![r] = k2]]
    BY <1>6, <1>8, <2>1, <2>3, Zenon
  <2>5. QED
    BY <1>1, <1>2, <1>3, <1>11, <2>2, <2>4, Zenon DEF RadioSet
<1>14. ASSUME state' = [state EXCEPT !.radio[r].at = a, !.radio[r].result = x]
       PROVE  RadioSet(r, a, state.radio[r].left, x)
  <2>1. PICK k2 \in KickOff : k2 = [k1 EXCEPT !.result = x]
    BY <1>4 DEF KickOff, Result
  <2>2. k2 = [at |-> a, left |-> k.left, result |-> x]
    BY <1>3, <1>4, <2>1 DEF KickOff
  <2>3. state' = [s1 EXCEPT !.radio[r].result = x]
    BY <1>1, <1>2, <1>3, <1>4, <1>6, <1>8, <1>14, Zenon
  <2>4. state' = [s1 EXCEPT !.radio = [f1 EXCEPT ![r] = k2]]
    BY <1>6, <1>8, <2>1, <2>3, Zenon
  <2>5. QED
    BY <1>1, <1>2, <1>3, <1>11, <2>2, <2>4, Zenon DEF RadioSet
<1>15. [state EXCEPT !.radio[r].at = a].radio[r].left = state.radio[r].left
  <2>1. k1.left = k.left
    BY <1>3, <1>4 DEF KickOff
  <2>2. [state EXCEPT !.radio[r].at = a] = s1
    BY <1>1, <1>2, <1>3, <1>4, <1>6, <1>8, Zenon
  <2>3. QED
    BY <1>1, <1>2, <1>3, <1>6, <1>8, <2>1, <2>2, Zenon
<1>16. QED
  BY <1>12, <1>13, <1>14, <1>15

LEMMA RadioSetFacts ==
  ASSUME TypeOK, state.type = "connecting", NEW r \in Radio,
         NEW at \in {"asked", "waiting", "over"}, NEW left \in Nat,
         NEW result \in {"unset", "yes", "no"}, RadioSet(r, at, left, result)
  PROVE  /\ state' \in ConnectingState /\ state'.type = "connecting"
         /\ state'.radio[r].at = at /\ state'.radio[r].result = result
         /\ \A q \in Radio \ {r} : state'.radio[q] = state.radio[q]
<1>1. state \in ConnectingState
  BY TypeFacts
<1>2. state.radio \in [Radio -> KickOff]
  BY <1>1 DEF ConnectingState
<1> DEFINE new == [state.radio EXCEPT ![r] = [at |-> at, left |-> left, result |-> result]]
<1>3. state' = [state EXCEPT !.radio = new]
  BY DEF RadioSet
<1>4. /\ new \in [Radio -> KickOff] /\ new[r].at = at /\ new[r].result = result
      /\ \A q \in Radio \ {r} : new[q] = state.radio[q]
  BY <1>2 DEF KickOff
<1> HIDE DEF new
<1>5. state' \in ConnectingState /\ state'.radio = new /\ state'.type = state.type
  BY <1>1, <1>3, <1>4 DEF ConnectingState
<1>6. QED
  BY <1>4, <1>5

(* A step of KickOff(r) that does not switch the radio on. *)
LEMMA RadioLeftOff ==
  ASSUME IInv, state.type = "connecting", NEW r \in Radio, state.radio[r].at # "over",
         NEW at \in {"asked", "waiting", "over"}, NEW left \in Nat,
         NEW result \in {"unset", "no"}, at # "over" => result = "unset",
         RadioSet(r, at, left, result), Plain, UNCHANGED <<radio, orphans, late>>
  PROVE  IInv'
<1>1. /\ state' \in ConnectingState /\ state'.type = "connecting"
      /\ state'.radio[r].at = at /\ state'.radio[r].result = result
      /\ \A q \in Radio \ {r} : state'.radio[q] = state.radio[q]
  BY RadioSetFacts DEF IInv
<1>2. TypeOK'
  BY <1>1, TypeFacts DEF IInv, TypeOK, Plain, QueueKept
<1>3. PendingGameStarts'
  BY <1>1 DEF PendingGameStarts
<1>4. RadioInv'
  <2>1. state.radio[r].result # "yes"
    BY DEF IInv, RadioInv
  <2>2. r \notin radio \ late
    BY <2>1 DEF IInv, RadioInv
  <2>3. ASSUME NEW q \in radio' \ late' PROVE state'.radio[q].result = "yes"
    <3>1. q # r /\ q \in radio \ late /\ q \in Radio
      BY <2>2, TypeFacts DEF IInv
    <3>2. QED
      BY <1>1, <3>1 DEF IInv, RadioInv
  <2>4. ASSUME NEW q \in Radio, state'.radio[q].at # "over" PROVE state'.radio[q].result = "unset"
    <3>1. CASE q = r
      BY <1>1, <2>4, <3>1
    <3>2. CASE q # r
      BY <1>1, <2>4, <3>2 DEF IInv, RadioInv
    <3>3. QED
      BY <3>1, <3>2
  <2>5. QED
    BY <1>1, <2>3, <2>4 DEF RadioInv
<1>5. QED
  BY <1>2, <1>3, <1>4 DEF IInv

LEMMA GiveUpInv ==
  ASSUME IInv, state.type = "connecting", NEW r \in Radio, state.radio[r].at # "over",
         NEW detect, GiveUp(r, detect)
  PROVE  IInv'
<1>1. /\ state \in ConnectingState /\ created \in BOOLEAN /\ exiting \in BOOLEAN
      /\ stopped \in BOOLEAN /\ created' = created /\ stopped' = stopped
      /\ UNCHANGED <<radio, orphans, late>>
  BY TypeFacts DEF IInv, GiveUp
<1>2. state.radio[r] \in KickOff
  BY <1>1 DEF ConnectingState
<1>3. state.radio[r].left \in Nat
  BY <1>2 DEF KickOff
<1>8. RadioSet(r, "over", state.radio[r].left, "no")
  <2>1. state' = [state EXCEPT !.radio[r].at = "over", !.radio[r].result = "no"]
    BY Zenon DEF GiveUp
  <2>2. QED
    BY <1>1, <1>3, <2>1, AtResult, RadioFields, Zenon
<1>4. To("none") \in Switch
  BY Switches DEF Type
<1>5. exiting' \in BOOLEAN /\ (Queue(To("none")) \/ switches' = switches)
  BY <1>1 DEF GiveUp
<1>6. QueueKept
  BY <1>4, <1>5, QueueSteps DEF IInv
<1>7. QED
  BY <1>1, <1>3, <1>5, <1>6, <1>8, RadioLeftOff DEF Plain

LEMMA RadioGrantedInv ==
  ASSUME IInv, NEW r \in Radio, RadioGranted(r)
  PROVE  IInv'
<1>1. /\ state \in ConnectingState /\ state.type = "connecting"
      /\ created' = created /\ switches' = switches /\ exiting' = exiting
      /\ orphans' = orphans /\ stopped' = stopped
      /\ radio' = radio \cup {r} /\ late' = late \ {r}
  BY TypeFacts DEF IInv, RadioGranted
<1>2. state.radio[r] \in KickOff
  BY <1>1 DEF ConnectingState
<1>3. state.radio[r].left \in Nat
  BY <1>2 DEF KickOff
<1>9. RadioSet(r, "over", state.radio[r].left, "yes")
  <2>1. state' = [state EXCEPT !.radio[r].at = "over", !.radio[r].result = "yes"]
    BY Zenon DEF RadioGranted
  <2>2. QED
    BY <1>1, <1>3, <2>1, AtResult, RadioFields, Zenon
<1>4. /\ state' \in ConnectingState /\ state'.type = "connecting"
      /\ state'.radio[r].at = "over" /\ state'.radio[r].result = "yes"
      /\ \A q \in Radio \ {r} : state'.radio[q] = state.radio[q]
  BY <1>1, <1>3, <1>9, RadioSetFacts DEF IInv
<1>5. TypeOK'
  BY <1>1, <1>4, TypeFacts DEF IInv, TypeOK
<1>6. PendingGameStarts'
  BY <1>4 DEF PendingGameStarts
<1>7. RadioInv'
  <2>1. ASSUME NEW q \in radio' \ late' PROVE state'.radio[q].result = "yes"
    <3>1. CASE q = r
      BY <1>4, <3>1
    <3>2. CASE q # r
      <4>1. q \in radio \ late /\ q \in Radio
        BY <1>1, <3>2, TypeFacts DEF IInv
      <4>2. QED
        BY <1>1, <1>4, <3>2, <4>1 DEF IInv, RadioInv
    <3>3. QED
      BY <3>1, <3>2
  <2>2. ASSUME NEW q \in Radio, state'.radio[q].at # "over" PROVE state'.radio[q].result = "unset"
    <3>1. q # r
      BY <1>4, <2>2
    <3>2. QED
      BY <1>1, <1>4, <2>2, <3>1 DEF IInv, RadioInv
  <2>3. QED
    BY <1>4, <2>1, <2>2 DEF RadioInv
<1>8. QED
  BY <1>5, <1>6, <1>7 DEF IInv

LEMMA RadioSteps ==
  ASSUME IInv, NEW r \in Radio, RadioAnswered(r) \/ RadioTimer(r)
  PROVE  IInv'
<1>1. /\ state \in ConnectingState /\ state.type = "connecting" /\ state.radio[r].at # "over"
      /\ created \in BOOLEAN /\ exiting \in BOOLEAN /\ stopped \in BOOLEAN
      /\ switches \in Seq(Switch)
  BY TypeFacts DEF IInv, RadioAnswered, RadioGranted, RadioOff, RadioDenied, RadioRefused,
     RadioTimer
<1>2. state.radio[r] \in KickOff
  BY <1>1 DEF ConnectingState
<1>3. state.radio[r].left \in Nat /\ state.radio[r].result = "unset"
  BY <1>1, <1>2 DEF KickOff, IInv, RadioInv
<1>4. ToNewGame \in Switch
  BY Switches
<1>5. switches' = switches => QueueKept
  BY <1>1 DEF QueueKept, Promised
<1>6. CASE RadioGranted(r)
  BY <1>6, RadioGrantedInv
<1>7. CASE RadioOff(r)
  <2>1. /\ created' = created /\ exiting' = exiting /\ stopped' = stopped
        /\ UNCHANGED <<radio, orphans, late>> /\ Queue(ToNewGame)
    BY <1>7 DEF RadioOff
  <2>2. RadioSet(r, "over", state.radio[r].left, "unset")
    <3>1. state' = [state EXCEPT !.radio[r].at = "over"]
      BY <1>7, Zenon DEF RadioOff
    <3>2. QED
      BY <1>1, <1>3, <3>1, AtResult, RadioFields, Zenon
  <2>3. QueueKept
    BY <1>4, <2>1, QueueSteps DEF IInv
  <2>4. QED
    BY <1>1, <1>3, <2>1, <2>2, <2>3, RadioLeftOff DEF Plain
<1>8. CASE RadioDenied(r)
  BY <1>1, <1>8, GiveUpInv DEF RadioDenied
<1>9. CASE RadioRefused(r)
  <2>1. /\ created' = created /\ exiting' = exiting /\ stopped' = stopped
        /\ UNCHANGED <<radio, orphans, late>> /\ switches' = switches
    BY <1>9 DEF RadioRefused
  <2>2. RadioSet(r, "waiting", state.radio[r].left, "unset")
    <3>1. state' = [state EXCEPT !.radio[r].at = "waiting"]
      BY <1>9, Zenon DEF RadioRefused
    <3>2. QED
      BY <1>1, <1>3, <3>1, AtResult, RadioFields, Zenon
  <2>3. QED
    BY <1>1, <1>3, <1>5, <2>1, <2>2, RadioLeftOff DEF Plain
<1>10. CASE RadioTimer(r)
  <2>1. CASE state.radio[r].left > 0 /\ ~GiveUp(r, TRUE)
    <3>1. /\ created' = created /\ exiting' = exiting /\ stopped' = stopped
          /\ UNCHANGED <<radio, orphans, late>> /\ switches' = switches
      BY <1>10, <2>1 DEF RadioTimer
    <3>2. state.radio[r].left - 1 \in Nat
      BY <1>3, <2>1
    <3>3. RadioSet(r, "asked", state.radio[r].left - 1, "unset")
      <4>1. state' = [state EXCEPT !.radio[r].at = "asked", !.radio[r].left = @ - 1]
        BY <1>10, <2>1, Zenon DEF RadioTimer
      <4>2. [state EXCEPT !.radio[r].at = "asked"].radio[r].left = state.radio[r].left
        BY <1>1, <1>3, AtResult, RadioFields, Zenon
      <4>3. state' = [state EXCEPT !.radio[r].at = "asked",
                                   !.radio[r].left = state.radio[r].left - 1]
        BY <4>1, <4>2, Zenon
      <4>4. QED
        BY <1>1, <1>3, <3>2, <4>3, AtResult, RadioFields, Zenon
    <3>4. QED
      BY <1>1, <1>3, <1>5, <3>1, <3>3, <3>2, RadioLeftOff DEF Plain
  <2>2. CASE GiveUp(r, TRUE)
    BY <1>1, <2>2, GiveUpInv
  <2>3. QED
    BY <1>10, <2>1, <2>2 DEF RadioTimer
<1>11. QED
  BY <1>6, <1>7, <1>8, <1>9, <1>10 DEF RadioAnswered

LEMMA OrphanInv ==
  ASSUME IInv, NEW r \in Radio, OrphanAnswered(r)
  PROVE  IInv'
<1>1. /\ created' = created /\ state' = state /\ switches' = switches /\ exiting' = exiting
      /\ stopped' = stopped /\ orphans[r] > 0
      /\ orphans' = [orphans EXCEPT ![r] = @ - 1]
      /\ \/ radio' = radio \cup {r} /\ late' = late \cup {r}
         \/ radio' = radio /\ late' = late
  BY DEF OrphanAnswered
<1>2. orphans \in [Radio -> Nat] /\ radio \subseteq Radio /\ late \subseteq Radio
  BY TypeFacts DEF IInv
<1>3. orphans[r] \in Nat
  BY <1>2
<1>4. orphans[r] - 1 \in Nat
  BY <1>1, <1>3
<1>5. orphans' \in [Radio -> Nat] /\ radio' \subseteq Radio /\ late' \subseteq Radio
  BY <1>1, <1>2, <1>4
<1>6. TypeOK'
  BY <1>1, <1>5 DEF IInv, TypeOK
<1>7. PendingGameStarts'
  BY <1>1 DEF IInv, PendingGameStarts
<1>8. radio' \ late' \subseteq radio \ late /\ (radio \subseteq late => radio' \subseteq late')
  BY <1>1
<1>9. RadioInv'
  BY <1>1, <1>8 DEF IInv, RadioInv
<1>10. QED
  BY <1>6, <1>7, <1>9 DEF IInv

-----------------------------------------------------------------------------
(* StateConnecting: peers and attempts                                       *)

LEMMA RemoveAtType ==
  ASSUME NEW S, NEW s \in Seq(S), NEW i \in DOMAIN s
  PROVE  RemoveAt(s, i) \in Seq(S)
<1>1. i \in 1 .. Len(s) /\ Len(s) \in Nat
  OBVIOUS
<1>2. SubSeq(s, 1, i - 1) \in Seq(S) /\ SubSeq(s, i + 1, Len(s)) \in Seq(S)
  BY <1>1
<1>3. QED
  BY <1>2 DEF RemoveAt

(* What sets m_peers keeps the rest. *)
LEMMA PeersSet ==
  ASSUME NEW s \in ConnectingState, NEW peers \in SUBSET Peer
  PROVE  /\ [s EXCEPT !.peers = peers] \in ConnectingState
         /\ [s EXCEPT !.peers = peers].hello = s.hello
         /\ [s EXCEPT !.peers = peers].radio = s.radio
BY DEF ConnectingState

(* So does what sets the list of SendHelloTo of one peer. *)
LEMMA HelloSet ==
  ASSUME NEW s \in ConnectingState, NEW p \in Peer,
         NEW hello \in Seq(1 .. MAX_SEND_RETRY_COUNT)
  PROVE  /\ [s EXCEPT !.hello[p] = hello] \in ConnectingState
         /\ [s EXCEPT !.hello[p] = hello].peers = s.peers
         /\ [s EXCEPT !.hello[p] = hello].radio = s.radio
<1>1. [s.hello EXCEPT ![p] = hello] \in [Peer -> Seq(1 .. MAX_SEND_RETRY_COUNT)]
  BY DEF ConnectingState
<1>2. PICK f \in [Peer -> Seq(1 .. MAX_SEND_RETRY_COUNT)] : f = [s.hello EXCEPT ![p] = hello]
  BY <1>1, Zenon
<1>3. /\ [s EXCEPT !.hello = f] \in ConnectingState
      /\ [s EXCEPT !.hello = f].peers = s.peers
      /\ [s EXCEPT !.hello = f].radio = s.radio
  BY <1>2 DEF ConnectingState
<1>4. [s EXCEPT !.hello[p] = hello] = [s EXCEPT !.hello = f]
  BY <1>2, Zenon
<1>5. QED
  BY <1>3, <1>4, Zenon

LEMMA ConnectedPeerFacts ==
  ASSUME NEW s \in ConnectingState, NEW p \in Peer
  PROVE  ConnectedPeer(s, p) \in ConnectingState /\ ConnectedPeer(s, p).radio = s.radio
<1>1. MAX_SEND_RETRY_COUNT \in 1 .. MAX_SEND_RETRY_COUNT
  BY RetryAssumption
<1>2. s.hello[p] \in Seq(1 .. MAX_SEND_RETRY_COUNT) /\ s.peers \cup {p} \in SUBSET Peer
  BY DEF ConnectingState
<1>3. PICK peers \in SUBSET Peer : peers = s.peers \cup {p}
  BY <1>2, Zenon
<1>4. PICK q \in Seq(1 .. MAX_SEND_RETRY_COUNT) : q = s.hello[p]
  BY <1>2, Zenon
<1>5. PICK h \in Seq(1 .. MAX_SEND_RETRY_COUNT) : h = Append(q, MAX_SEND_RETRY_COUNT)
  <2>1. Append(q, MAX_SEND_RETRY_COUNT) \in Seq(1 .. MAX_SEND_RETRY_COUNT)
    BY <1>1, <1>4
  <2>2. QED
    BY <2>1, Zenon
<1>6. PICK s1 \in ConnectingState :
        s1 = [s EXCEPT !.peers = peers] /\ s1.hello = s.hello /\ s1.radio = s.radio
  BY <1>3, PeersSet, Zenon
<1>7. /\ [s1 EXCEPT !.hello[p] = h] \in ConnectingState
      /\ [s1 EXCEPT !.hello[p] = h].radio = s1.radio
  <2>1. h \in Seq(1 .. MAX_SEND_RETRY_COUNT) /\ s1 \in ConnectingState
    BY <1>5, <1>6
  <2>2. QED
    BY <2>1, HelloSet, Zenon
<1>8. ConnectedPeer(s, p) = [s1 EXCEPT !.hello[p] = h]
  BY <1>3, <1>4, <1>5, <1>6, Zenon DEF ConnectedPeer
<1>9. QED
  BY <1>6, <1>7, <1>8, Zenon

LEMMA PeerSteps ==
  ASSUME IInv, NEW p \in Peer,
         \/ DeviceConnected(p) \/ DeviceLost(p)
         \/ \E isHello \in BOOLEAN : MessageReceived(p, isHello)
         \/ \E k \in 1 .. MaxHellos : HelloAnswered(p, k)
  PROVE  IInv'
<1>1. /\ state \in ConnectingState /\ state.type = "connecting" /\ Plain
      /\ UNCHANGED <<radio, orphans, late>>
  <2>1. /\ state.type = "connecting"
        /\ UNCHANGED <<created, switches, exiting, radio, orphans, late, stopped>>
    <3>1. CASE DeviceConnected(p) \/ DeviceLost(p)
      BY <3>1 DEF DeviceConnected, DeviceLost
    <3>2. CASE \E isHello \in BOOLEAN : MessageReceived(p, isHello)
      BY <3>2, Zenon DEF MessageReceived
    <3>3. CASE \E k \in 1 .. MaxHellos : HelloAnswered(p, k)
      BY <3>3, Zenon DEF HelloAnswered
    <3>4. QED
      BY <3>1, <3>2, <3>3
  <2>2. QED
    BY <2>1, TypeFacts DEF IInv, Plain, QueueKept, Promised
<1>2. SUFFICES state' \in ConnectingState /\ state'.radio = state.radio
  BY <1>1, ConnectingStep
<1>3. state.peers \ {p} \in SUBSET Peer /\ state.hello[p] \in Seq(1 .. MAX_SEND_RETRY_COUNT)
  BY <1>1 DEF ConnectingState
<1>4. PICK left \in SUBSET Peer : left = state.peers \ {p}
  BY <1>3, Zenon
<1>5. CASE DeviceConnected(p)
  BY <1>1, <1>5, ConnectedPeerFacts DEF DeviceConnected
<1>6. CASE DeviceLost(p)
  <2>1. state' = [state EXCEPT !.peers = left]
    BY <1>4, <1>6, Zenon DEF DeviceLost
  <2>2. QED
    BY <1>1, <1>4, <2>1, PeersSet, Zenon
<1>7. ASSUME NEW isHello \in BOOLEAN, MessageReceived(p, isHello)
      PROVE  state' \in ConnectingState /\ state'.radio = state.radio
  <2> DEFINE known == [state EXCEPT !.localMac = @ \/ isHello]
  <2>1. known \in ConnectingState /\ known.radio = state.radio
    BY <1>1 DEF ConnectingState
  <2>2. state' = known \/ state' = ConnectedPeer(known, p)
    BY <1>7 DEF MessageReceived
  <2> HIDE DEF known
  <2>3. QED
    BY <2>1, <2>2, ConnectedPeerFacts, Zenon
<1>8. ASSUME NEW k \in 1 .. MaxHellos, HelloAnswered(p, k)
      PROVE  state' \in ConnectingState /\ state'.radio = state.radio
  <2>1. PICK q \in Seq(1 .. MAX_SEND_RETRY_COUNT) : q = state.hello[p] /\ k \in DOMAIN q
    BY <1>3, <1>8, Zenon DEF HelloAnswered
  <2>2. PICK rest \in Seq(1 .. MAX_SEND_RETRY_COUNT) : rest = RemoveAt(q, k)
    BY <2>1, RemoveAtType, Zenon
  <2>3. PICK over \in ConnectingState :
          /\ over = [state EXCEPT !.hello[p] = rest]
          /\ over.peers = state.peers /\ over.radio = state.radio
    BY <1>1, <2>2, HelloSet, Zenon
  <2>4. CASE state' = over
    BY <2>3, <2>4
  <2>5. CASE state' = [over EXCEPT !.peers = @ \ {p}]
    <3>1. state' = [over EXCEPT !.peers = left]
      BY <1>4, <2>3, <2>5, Zenon
    <3>2. QED
      BY <1>4, <2>3, <3>1, PeersSet, Zenon
  <2>6. CASE q[k] > 1 /\ state' = [state EXCEPT !.hello[p][k] = @ - 1]
    <3>1. q[k] - 1 \in 1 .. MAX_SEND_RETRY_COUNT
      <4>1. q[k] \in 1 .. MAX_SEND_RETRY_COUNT
        <5>1. q \in Seq(1 .. MAX_SEND_RETRY_COUNT) /\ k \in DOMAIN q
          BY <2>1
        <5>2. QED
          BY <5>1, RetryAssumption
      <4>2. PICK n \in 1 .. MAX_SEND_RETRY_COUNT : n = q[k] /\ n > 1
        BY <2>6, <4>1, Zenon
      <4>3. n - 1 \in 1 .. MAX_SEND_RETRY_COUNT
        BY <4>2, RetryAssumption
      <4>4. QED
        BY <4>2, <4>3, Zenon
    <3>2. PICK again \in Seq(1 .. MAX_SEND_RETRY_COUNT) : again = [q EXCEPT ![k] = q[k] - 1]
      <4>1. [q EXCEPT ![k] = q[k] - 1] \in Seq(1 .. MAX_SEND_RETRY_COUNT)
        BY <2>1, <3>1
      <4>2. QED
        BY <4>1, Zenon
    <3>3. state' = [state EXCEPT !.hello[p] = again]
      BY <2>1, <2>6, <3>2, Zenon
    <3>4. state \in ConnectingState /\ again \in Seq(1 .. MAX_SEND_RETRY_COUNT)
      BY <1>1, <3>2
    <3>5. /\ [state EXCEPT !.hello[p] = again] \in ConnectingState
          /\ [state EXCEPT !.hello[p] = again].radio = state.radio
      BY <3>4, HelloSet, Zenon
    <3>6. QED
      BY <3>3, <3>5, Zenon
  <2>7. QED
    BY <1>8, <2>1, <2>2, <2>3, <2>4, <2>5, <2>6, Zenon DEF HelloAnswered
<1>9. QED
  BY <1>5, <1>6, <1>7, <1>8

LEMMA AttemptInv ==
  ASSUME IInv, ConnectivityEstablished \/ AttemptTimer
  PROVE  IInv'
<1>1. /\ state \in ConnectingState /\ state.type = "connecting"
      /\ created' = created /\ exiting' = exiting /\ stopped' = stopped
      /\ UNCHANGED <<radio, orphans, late>>
      /\ created \in BOOLEAN /\ exiting \in BOOLEAN /\ stopped \in BOOLEAN
  BY TypeFacts DEF IInv, ConnectivityEstablished, AttemptTimer
<1>2. To("negotiating") \in Switch /\ To("idle") \in Switch
  BY Switches DEF Type
<1>3. 0 \in 0 .. MAX_GAME_START_RETRY_COUNT
  BY RetryAssumption
<1>4. ASSUME NEW left \in 0 .. MAX_GAME_START_RETRY_COUNT, TryNegotiation(left)
      PROVE  IInv'
  <2>1. \/ state' = [state EXCEPT !.peers = {}, !.attempt = 0]
        \/ state' = [state EXCEPT !.attempt = left]
    BY <1>4 DEF TryNegotiation
  <2>2. state' \in ConnectingState /\ state'.radio = state.radio
    <3>1. CASE state' = [state EXCEPT !.peers = {}, !.attempt = 0]
      BY <1>1, <1>3, <3>1 DEF ConnectingState
    <3>2. CASE state' = [state EXCEPT !.attempt = left]
      BY <1>1, <3>2 DEF ConnectingState
    <3>3. QED
      BY <2>1, <3>1, <3>2
  <2>3. Queue(To("negotiating")) \/ switches' = switches
    BY <1>4 DEF TryNegotiation
  <2>4. QueueKept
    BY <1>2, <2>3, QueueSteps DEF IInv
  <2>5. QED
    BY <1>1, <2>2, <2>4, ConnectingStep DEF Plain
<1>5. CASE ConnectivityEstablished
  <2>1. MAX_GAME_START_RETRY_COUNT \in 0 .. MAX_GAME_START_RETRY_COUNT
    BY RetryAssumption
  <2>2. QED
    BY <1>4, <1>5, <2>1 DEF ConnectivityEstablished
<1>6. CASE AttemptTimer
  <2>1. CASE state.attempt > 1 /\ TryNegotiation(state.attempt - 1)
    <3>1. state.attempt \in 0 .. MAX_GAME_START_RETRY_COUNT
      BY <1>1 DEF ConnectingState
    <3>2. state.attempt - 1 \in 0 .. MAX_GAME_START_RETRY_COUNT
      BY <2>1, <3>1, RetryAssumption
    <3>3. QED
      BY <1>4, <2>1, <3>2
  <2>2. CASE state' = [state EXCEPT !.attempt = 0] /\ Queue(To("idle"))
    <3>1. state' \in ConnectingState /\ state'.radio = state.radio
      BY <1>1, <1>3, <2>2 DEF ConnectingState
    <3>2. QueueKept
      BY <1>2, <2>2, QueueSteps DEF IInv
    <3>3. QED
      BY <1>1, <3>1, <3>2, ConnectingStep DEF Plain
  <2>3. QED
    BY <1>6, <2>1, <2>2 DEF AttemptTimer
<1>7. QED
  BY <1>5, <1>6

-----------------------------------------------------------------------------
(* The other states, the switches and the whole                              *)

LEMMA OtherStates ==
  ASSUME IInv, Start \/ Agree \/ Renegotiate \/ BluetoothOff \/ GameStopped \/ NewGameIgnored
  PROVE  IInv'
<1>1. /\ exiting' = exiting /\ exiting \in BOOLEAN /\ created \in BOOLEAN /\ stopped \in BOOLEAN
      /\ UNCHANGED <<radio, orphans, late>>
  BY TypeFacts DEF IInv, Start, Agree, Renegotiate, BluetoothOff, GameStopped, NewGameIgnored
<1>2. created' \in BOOLEAN /\ stopped' \in BOOLEAN
  BY <1>1 DEF Start, Agree, Renegotiate, BluetoothOff, GameStopped, NewGameIgnored
<1>3. /\ To("idle") \in Switch /\ To("negotiating") \in Switch /\ To("playing") \in Switch
      /\ ToNewGame \in Switch
  BY Switches DEF Type
<1>4. \/ switches' = switches \/ Queue(To("idle")) \/ Queue(To("negotiating"))
      \/ Queue(To("playing")) \/ Queue(ToNewGame)
  BY DEF Start, Agree, Renegotiate, BluetoothOff, GameStopped, NewGameIgnored
<1>5. Plain
  BY <1>1, <1>2, <1>3, <1>4, QueueSteps DEF IInv, Plain
<1>6. CASE state' = state
  BY <1>1, <1>5, <1>6, StateKept
<1>7. CASE Agree
  <2>1. state.type = "negotiating" /\ state \in NegotiatingState
    BY <1>7, TypeFacts DEF Agree, IInv
  <2>2. state' \in NegotiatingState /\ state'.type = "negotiating"
    BY <1>7, <2>1 DEF Agree, NegotiatingState
  <2>3. TypeOK'
    BY <1>1, <1>5, <2>2, TypeFacts DEF IInv, TypeOK, Plain, QueueKept
  <2>4. PendingGameStarts'
    BY <2>2 DEF PendingGameStarts
  <2>5. RadioInv'
    BY <1>1, <2>1, <2>2 DEF IInv, RadioInv
  <2>6. QED
    BY <2>3, <2>4, <2>5 DEF IInv
<1>8. QED
  BY <1>6, <1>7 DEF Start, Renegotiate, BluetoothOff, GameStopped, NewGameIgnored

(* A new state object is of the type that was asked for. *)
LEMMA NewStateFacts ==
  ASSUME NEW sw \in Switch
  PROVE  /\ NewState(sw) \in {NoState} \cup IdleState \cup ConnectingState
                              \cup NegotiatingState \cup PlayingState
         /\ NewState(sw).type = sw.to
         /\ sw.to = "idle" => ~NewState(sw).bluetoothOn
         /\ sw.to = "connecting" =>
              \A r \in Radio : NewState(sw).radio[r].result = "unset"
<1>1. sw.to \in Type /\ sw.newGame \in BOOLEAN
  BY DEF Switch
<1>2. /\ NoState.type = "none"
      /\ NewIdle(sw.newGame) \in IdleState /\ NewIdle(sw.newGame).type = "idle"
      /\ ~NewIdle(sw.newGame).bluetoothOn
      /\ [type |-> "negotiating", agreed |-> FALSE] \in NegotiatingState
      /\ [type |-> "playing"] \in PlayingState
  BY <1>1 DEF NoState, NewIdle, IdleState, NegotiatingState, PlayingState
<1>3. /\ NewConnecting \in ConnectingState /\ NewConnecting.type = "connecting"
      /\ \A r \in Radio : NewConnecting.radio[r].result = "unset"
  <2>1. /\ MAX_GAME_START_RETRY_COUNT \in Nat /\ MAX_DISCOVERY_RETRY_COUNT \in Nat
        /\ MAX_LISTENING_RETRY_COUNT \in Nat /\ 0 \in 0 .. MAX_GAME_START_RETRY_COUNT
    BY RetryAssumption
  <2>2. PICK f \in [Radio -> KickOff] :
          /\ \A r \in Radio : f[r].result = "unset"
          /\ f = [r \in Radio |->
                   [at |-> "asked", result |-> "unset",
                    left |-> IF r = "discovery" THEN MAX_DISCOVERY_RETRY_COUNT
                                                ELSE MAX_LISTENING_RETRY_COUNT]]
    BY <2>1 DEF KickOff
  <2>3. PICK g \in [Peer -> Seq(1 .. MAX_SEND_RETRY_COUNT)] : g = [p \in Peer |-> <<>>]
    <3>1. <<>> \in Seq(1 .. MAX_SEND_RETRY_COUNT)
      OBVIOUS
    <3>2. [p \in Peer |-> <<>>] \in [Peer -> Seq(1 .. MAX_SEND_RETRY_COUNT)]
      BY <3>1, Zenon
    <3>3. QED
      BY <3>2, Zenon
  <2>4. NewConnecting = [type |-> "connecting", radio |-> f, localMac |-> FALSE,
                         peers |-> {}, hello |-> g, attempt |-> 0]
    BY <2>2, <2>3, Zenon DEF NewConnecting
  <2>5. QED
    BY <2>1, <2>2, <2>3, <2>4 DEF ConnectingState
<1>4. NoState \in {NoState}
  OBVIOUS
<1>5. CASE sw.to = "none"
  BY <1>2, <1>5 DEF NewState
<1>6. CASE sw.to = "idle"
  BY <1>2, <1>6 DEF NewState
<1>7. CASE sw.to = "connecting"
  BY <1>3, <1>7 DEF NewState
<1>8. CASE sw.to = "negotiating"
  BY <1>2, <1>8 DEF NewState
<1>9. CASE sw.to = "playing"
  BY <1>2, <1>9 DEF NewState
<1>10. QED
  BY <1>1, <1>5, <1>6, <1>7, <1>8, <1>9 DEF Type

(* Destroy leaves on only what the destroyed object did not switch on. *)
LEMMA Destroyed ==
  ASSUME IInv, Destroy
  PROVE  /\ orphans' \in [Radio -> Nat] /\ late' \subseteq Radio /\ radio' \subseteq Radio
         /\ radio' \subseteq late'
<1> DEFINE on    == {r \in Radio : state.type = "connecting" /\ state.radio[r].result = "yes"}
           asked == {r \in Radio : state.type = "connecting" /\ state.radio[r].at = "asked"}
<1>1. /\ radio' = radio \ on /\ late' = late \ on
      /\ orphans' = [r \in Radio |-> orphans[r] + IF r \in asked THEN 1 ELSE 0]
  BY DEF Destroy
<1>2. radio \ late \subseteq on
  <2>1. CASE state.type = "connecting"
    BY <2>1, TypeFacts DEF IInv, RadioInv
  <2>2. CASE state.type # "connecting"
    BY <2>2 DEF IInv, RadioInv
  <2>3. QED
    BY <2>1, <2>2
<1> HIDE DEF on, asked
<1>3. radio \subseteq Radio /\ late \subseteq Radio /\ orphans \in [Radio -> Nat]
  BY TypeFacts DEF IInv
<1>4. orphans' \in [Radio -> Nat]
  BY <1>1, <1>3
<1>5. QED
  BY <1>1, <1>2, <1>3, <1>4

LEMMA ExecuteSwitchInv ==
  ASSUME IInv, ExecuteSwitch
  PROVE  IInv'
<1> DEFINE sw == Head(switches)
<1>1. /\ switches # <<>> /\ switches \in Seq(Switch) /\ switches' = Tail(switches)
      /\ created' = created /\ exiting' = exiting /\ stopped' = stopped
      /\ created \in BOOLEAN /\ exiting \in BOOLEAN /\ stopped \in BOOLEAN
  BY TypeFacts DEF IInv, ExecuteSwitch
<1>2. sw \in Switch /\ switches' \in Seq(Switch)
  BY <1>1
<1>3. CASE /\ sw.to # state.type \/ sw.to = "none"
           /\ state' = NewState(sw) /\ Destroy
  <2>1. /\ state' \in {NoState} \cup IdleState \cup ConnectingState
                       \cup NegotiatingState \cup PlayingState
        /\ state'.type = sw.to
        /\ sw.to = "idle" => ~state'.bluetoothOn
        /\ sw.to = "connecting" => \A r \in Radio : state'.radio[r].result = "unset"
    BY <1>2, <1>3, NewStateFacts
  <2>2. /\ orphans' \in [Radio -> Nat] /\ late' \subseteq Radio /\ radio' \subseteq Radio
        /\ radio' \subseteq late'
    BY <1>3, Destroyed
  <2>3. TypeOK'
    BY <1>1, <1>2, <2>1, <2>2 DEF TypeOK
  <2>4. PendingGameStarts'
    BY <2>1 DEF PendingGameStarts
  <2>5. RadioInv'
    BY <2>1, <2>2 DEF RadioInv
  <2>6. QED
    BY <2>3, <2>4, <2>5 DEF IInv
<1>4. CASE /\ sw.to = state.type /\ sw.to # "none"
           /\ UNCHANGED <<state, radio, orphans, late>>
  <2>1. TypeOK'
    BY <1>1, <1>2, <1>4 DEF IInv, TypeOK
  <2>2. ASSUME state.type = "idle", Promised PROVE Promised'
    <3>1. PICK k \in DOMAIN switches : switches[k].to = "connecting"
      BY <2>2 DEF Promised
    <3>2. k \in 1 .. Len(switches) /\ k # 1 /\ Len(switches) \in Nat
      BY <1>1, <1>4, <2>2, <3>1
    <3>3. k - 1 \in DOMAIN Tail(switches) /\ Tail(switches)[k - 1] = switches[k]
      BY <1>1, <3>2
    <3>4. QED
      BY <1>1, <3>1, <3>3 DEF Promised
  <2>3. PendingGameStarts'
    BY <1>4, <2>2 DEF IInv, PendingGameStarts, Promised
  <2>4. RadioInv'
    BY <1>4 DEF IInv, RadioInv
  <2>5. QED
    BY <2>1, <2>3, <2>4 DEF IInv
<1>5. QED
  BY <1>3, <1>4 DEF ExecuteSwitch

LEMMA InitInv == Init => IInv
<1> SUFFICES ASSUME Init PROVE IInv
  OBVIOUS
<1>1. NoState.type = "none"
  BY DEF NoState
<1>2. TypeOK
  <2>1. switches \in Seq(Switch) /\ orphans \in [Radio -> Nat]
    BY DEF Init
  <2>2. QED
    BY <2>1, Zenon DEF Init, TypeOK
<1>3. PendingGameStarts /\ RadioInv
  BY <1>1 DEF Init, PendingGameStarts, RadioInv
<1>4. QED
  BY <1>2, <1>3 DEF IInv

LEMMA NextInv == IInv /\ [Next]_vars => IInv'
<1> SUFFICES ASSUME IInv, [Next]_vars PROVE IInv'
  OBVIOUS
<1>1. CASE \/ Start \/ Agree \/ Renegotiate \/ BluetoothOff \/ GameStopped \/ NewGameIgnored
  BY <1>1, OtherStates
<1>2. CASE ExecuteSwitch
  BY <1>2, ExecuteSwitchInv
<1>3. CASE \/ IdleBluetoothOn \/ IdleBluetoothOff \/ IdleNewGame
           \/ EnableBluetoothAnswered \/ EnableBluetoothTimer
  BY <1>3, IdleInv
<1>4. ASSUME NEW r \in Radio, RadioAnswered(r) \/ RadioTimer(r) \/ OrphanAnswered(r)
      PROVE  IInv'
  BY <1>4, RadioSteps, OrphanInv
<1>5. ASSUME NEW p \in Peer,
             \/ DeviceConnected(p) \/ DeviceLost(p)
             \/ \E isHello \in BOOLEAN : MessageReceived(p, isHello)
             \/ \E k \in 1 .. MaxHellos : HelloAnswered(p, k)
      PROVE  IInv'
  BY <1>5, PeerSteps
<1>6. CASE ConnectivityEstablished \/ AttemptTimer
  BY <1>6, AttemptInv
<1>7. CASE UNCHANGED vars
  BY <1>7 DEF vars, IInv, TypeOK, PendingGameStarts, RadioInv
<1>8. QED
  BY <1>1, <1>2, <1>3, <1>4, <1>5, <1>6, <1>7, Zenon DEF Next

-----------------------------------------------------------------------------
(* Results                                                                   *)

(***************************************************************************)
(* The inductive invariant: the types, the promise of a pending game, and   *)
(* what StateConnecting knows of its radios while their coroutines run.     *)
(***************************************************************************)
THEOREM InductiveInvariant == Spec => []IInv
<1>1. Init => IInv
  BY InitInv
<1>2. IInv /\ [Next]_vars => IInv'
  BY NextInv
<1>3. QED
  BY <1>1, <1>2, PTL DEF Spec

(* Every state object and every queued SwitchToState has its C++ type. *)
THEOREM TypeCorrect == Spec => []TypeOK
<1>1. IInv => TypeOK
  BY DEF IInv
<1>2. QED
  BY <1>1, InductiveInvariant, PTL

(***************************************************************************)
(* StateIdle forgets no game the user asked for: once Bluetooth is on, the  *)
(* switch to StateConnecting is queued, and it stays queued until executed. *)
(***************************************************************************)
THEOREM PendingGamesStart == Spec => []PendingGameStarts
<1>1. IInv => PendingGameStarts
  BY DEF IInv
<1>2. QED
  BY <1>1, InductiveInvariant, PTL

(***************************************************************************)
(* ~StateConnecting leaves no radio on but one that Java switched on after  *)
(* an object that asked for it was gone.                                    *)
(***************************************************************************)
THEOREM RadiosAreReleased == Spec => []RadioReleased
<1>1. IInv => RadioReleased
  BY DEF IInv, RadioInv, RadioReleased
<1>2. QED
  BY <1>1, InductiveInvariant, PTL

=============================================================================
