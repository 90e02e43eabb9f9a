----------------------------- MODULE Lifecycle -----------------------------
(***************************************************************************)
(* The life of one phone: Controller (controller.cpp), the state switches   *)
(* of fsm::Context (context.hpp), StateIdle (stateidle.cpp) and             *)
(* StateConnecting (stateconnecting.cpp) in full, StateNegotiating and      *)
(* StatePlaying only as far as they switch to other states; Negotiation and *)
(* Playing have the rest.                                                   *)
(*                                                                         *)
(* The state object is one record.  Its coroutines are fields that say what *)
(* they wait for; replacing the object cancels them.  Commands that change  *)
(* nothing here (toasts, CloseConnection, ResetGame) are left out.          *)
(***************************************************************************)
EXTENDS Naturals, Sequences, SequencesExt

CONSTANTS
  Peer,                         \* the MACs of other phones
  MAX_SEND_RETRY_COUNT,
  MAX_GAME_START_RETRY_COUNT,
  MAX_DISCOVERY_RETRY_COUNT,
  MAX_LISTENING_RETRY_COUNT,
  MaxSwitches,                  \* bound: queued SwitchToState tasks
  MaxHellos,                    \* bound: concurrent SendHelloTo for one peer
  MaxOrphans                    \* bound: unanswered Start commands nobody awaits

ASSUME RetryAssumption ==
  /\ MAX_SEND_RETRY_COUNT \in Nat \ {0}
  /\ MAX_GAME_START_RETRY_COUNT \in Nat \ {0}
  /\ MAX_DISCOVERY_RETRY_COUNT \in Nat
  /\ MAX_LISTENING_RETRY_COUNT \in Nat

ASSUME BoundAssumption ==
  MaxSwitches \in Nat /\ MaxHellos \in Nat /\ MaxOrphans \in Nat

VARIABLES
  created,   \* m_cmdManager exists
  state,     \* the object in m_state
  switches,  \* SwitchToState tasks waiting for their zero-delay timer
  exiting,   \* ShowAndExit was issued
  radio,     \* what Java has switched on for this program
  orphans,   \* unanswered Start commands whose coroutine was canceled
  late,      \* radios that such a command switched on
  stopped    \* the user stopped a game and has not asked for a new one

vars == <<created, state, switches, exiting, radio, orphans, late, stopped>>

Radio == {"discovery", "listening"}

NoState == [type |-> "none"]

(* A coroutine KickOff...: its point, its retriesLeft, m_discovering or m_listening. *)
KickOff == [at : {"asked", "waiting", "over"}, left : Nat, result : {"unset", "yes", "no"}]

IdleState ==
  [type : {"idle"}, newGamePending : BOOLEAN, bluetoothOn : BOOLEAN,
   enabling : {"no", "asked", "waiting"}]

ConnectingState ==
  [type : {"connecting"}, radio : [Radio -> KickOff], localMac : BOOLEAN,
   peers : SUBSET Peer, hello : [Peer -> Seq(1 .. MAX_SEND_RETRY_COUNT)],
   attempt : 0 .. MAX_GAME_START_RETRY_COUNT]

NegotiatingState == [type : {"negotiating"}, agreed : BOOLEAN]
PlayingState     == [type : {"playing"}]

Type   == {"none", "idle", "connecting", "negotiating", "playing"}
Switch == [to : Type, newGame : BOOLEAN]

To(type) == [to |-> type, newGame |-> FALSE]
ToNewGame == [to |-> "idle", newGame |-> TRUE]

Queue(sw) ==
  Len(switches) < MaxSwitches /\ switches' = Append(switches, sw)
QueueIf(cond, sw) == IF cond THEN Queue(sw) ELSE UNCHANGED switches

Init ==
  /\ created  = FALSE
  /\ state    = NoState
  /\ switches = <<>>
  /\ exiting  = FALSE
  /\ radio    = {}
  /\ orphans  = [r \in Radio |-> 0]
  /\ late     = {}
  /\ stopped  = FALSE

(* Controller::Start; further calls are ignored. *)
Start ==
  /\ ~created
  /\ created' = TRUE
  /\ Queue(To("idle"))
  /\ UNCHANGED <<state, exiting, radio, orphans, late, stopped>>

-----------------------------------------------------------------------------
(* Construction and destruction of states                                    *)

NewIdle(newGame) ==
  [type |-> "idle", newGamePending |-> newGame, bluetoothOn |-> FALSE,
   enabling |-> "asked"]

NewConnecting ==
  [type |-> "connecting",
   radio |-> [r \in Radio |->
     [at |-> "asked", result |-> "unset",
      left |-> IF r = "discovery" THEN MAX_DISCOVERY_RETRY_COUNT
                                  ELSE MAX_LISTENING_RETRY_COUNT]],
   localMac |-> FALSE, peers |-> {}, hello |-> [p \in Peer |-> <<>>], attempt |-> 0]

NewState(sw) ==
  CASE sw.to = "none"        -> NoState
    [] sw.to = "idle"        -> NewIdle(sw.newGame)
    [] sw.to = "connecting"  -> NewConnecting
    [] sw.to = "negotiating" -> [type |-> "negotiating", agreed |-> FALSE]
    [] sw.to = "playing"     -> [type |-> "playing"]

(* Mutant: the destructor stops what was never answered instead. *)
DestroyMutantUnset ==
  LET unset == {r \in Radio : state.type = "connecting" /\ state.radio[r].result = "unset"}
      asked == {r \in Radio : state.type = "connecting" /\ state.radio[r].at = "asked"}
  IN /\ radio' = radio \ unset
     /\ late'  = late \ unset
     /\ orphans' = [r \in Radio |-> orphans[r] + IF r \in asked THEN 1 ELSE 0]

(***************************************************************************)
(* ~StateConnecting stops what it knows to be on; an answer its coroutines  *)
(* still wait for will find nobody.  The other destructors do nothing here. *)
(***************************************************************************)
Destroy ==
  LET on    == {r \in Radio : state.type = "connecting" /\ state.radio[r].result = "yes"}
      asked == {r \in Radio : state.type = "connecting" /\ state.radio[r].at = "asked"}
  IN /\ radio' = radio \ on
     /\ late'  = late \ on
     /\ \A r \in asked : orphans[r] < MaxOrphans
     /\ orphans' = [r \in Radio |-> orphans[r] + IF r \in asked THEN 1 ELSE 0]

(***************************************************************************)
(* SwitchToState after its timer.  A switch to the type of the current      *)
(* state is dropped, except SwitchToState<void>.                            *)
(***************************************************************************)
ExecuteSwitch ==
  /\ switches # <<>>
  /\ switches' = Tail(switches)
  /\ LET sw == Head(switches)
     IN \/ /\ sw.to = state.type /\ sw.to # "none"
           /\ UNCHANGED <<state, radio, orphans, late>>
        \/ /\ sw.to # state.type \/ sw.to = "none"
           /\ state' = NewState(sw)
           /\ Destroy
  /\ UNCHANGED <<created, exiting, stopped>>

(* Java answers a Start command that nobody awaits any more. *)
OrphanAnswered(r) ==
  /\ orphans[r] > 0
  /\ orphans' = [orphans EXCEPT ![r] = @ - 1]
  /\ \/ radio' = radio \cup {r} /\ late' = late \cup {r}
     \/ UNCHANGED <<radio, late>>
  /\ UNCHANGED <<created, state, switches, exiting, stopped>>

-----------------------------------------------------------------------------
(* StateIdle                                                                 *)

(* Mutant: the pending game is forgotten until the user asks again. *)
IdleBluetoothOnMutantForget ==
  /\ state.type = "idle"
  /\ state' = [state EXCEPT !.bluetoothOn = TRUE, !.enabling = "no"]
  /\ UNCHANGED <<switches, created, exiting, radio, orphans, late, stopped>>

IdleBluetoothOn ==
  /\ state.type = "idle"
  /\ state' = [state EXCEPT !.bluetoothOn = TRUE, !.enabling = "no"]
  /\ QueueIf(state.newGamePending, To("connecting"))
  /\ UNCHANGED <<created, exiting, radio, orphans, late, stopped>>

(* RequestBluetoothOn unless it is running. *)
Requested(enabling) == IF enabling = "no" THEN "asked" ELSE enabling

IdleBluetoothOff ==
  /\ state.type = "idle"
  /\ state' = [state EXCEPT !.bluetoothOn = FALSE, !.enabling = Requested(@)]
  /\ UNCHANGED <<created, switches, exiting, radio, orphans, late, stopped>>

IdleNewGame ==
  /\ state.type = "idle"
  /\ stopped' = FALSE
  /\ \/ /\ state.bluetoothOn
        /\ state' = [state EXCEPT !.newGamePending = TRUE]
        /\ Queue(To("connecting"))
     \/ /\ ~state.bluetoothOn
        /\ state' = [state EXCEPT !.newGamePending = TRUE, !.enabling = Requested(@)]
        /\ UNCHANGED switches
  /\ UNCHANGED <<created, exiting, radio, orphans, late>>

(* Java answers EnableBluetooth. *)
EnableBluetoothAnswered ==
  /\ state.type = "idle" /\ state.enabling = "asked"
  /\ \/ \* INVALID_STATE or INTEROP_FAILURE
        /\ state' = [state EXCEPT !.enabling = "waiting"]
        /\ UNCHANGED <<switches, exiting>>
     \/ \* OK
        /\ state' = [state EXCEPT !.bluetoothOn = TRUE, !.enabling = "no"]
        /\ QueueIf(state.newGamePending, To("connecting"))
        /\ UNCHANGED exiting
     \/ \* NO_BT_ADAPTER
        /\ state' = [state EXCEPT !.enabling = "no"]
        /\ exiting' = TRUE
        /\ Queue(To("none"))
     \/ \* USER_DECLINED
        /\ state' = [state EXCEPT !.enabling = "no"]
        /\ UNCHANGED <<switches, exiting>>
  /\ UNCHANGED <<created, radio, orphans, late, stopped>>

EnableBluetoothTimer ==
  /\ state.type = "idle" /\ state.enabling = "waiting"
  /\ state' = [state EXCEPT !.enabling = "asked"]
  /\ UNCHANGED <<created, switches, exiting, radio, orphans, late, stopped>>

-----------------------------------------------------------------------------
(* StateConnecting: discovery and listening                                  *)

(* DetectFatalFailure once radio r is given up. *)
FatalWithout(r) == \A q \in Radio \ {r} : state.radio[q].result = "no"

GiveUp(r, detect) ==
  /\ state' = [state EXCEPT !.radio[r].at = "over", !.radio[r].result = "no"]
  /\ IF detect /\ FatalWithout(r)
     THEN Queue(To("none")) /\ exiting' = TRUE
     ELSE UNCHANGED <<switches, exiting>>
  /\ UNCHANGED <<created, radio, orphans, late, stopped>>

(* OK *)
RadioGranted(r) ==
  /\ state.type = "connecting" /\ state.radio[r].at = "asked"
  /\ state' = [state EXCEPT !.radio[r].at = "over", !.radio[r].result = "yes"]
  /\ radio' = radio \cup {r}
  /\ late'  = late \ {r}
  /\ UNCHANGED <<created, switches, exiting, orphans, stopped>>

(* BLUETOOTH_OFF *)
RadioOff(r) ==
  /\ state.type = "connecting" /\ state.radio[r].at = "asked"
  /\ state' = [state EXCEPT !.radio[r].at = "over"]
  /\ Queue(ToNewGame)
  /\ UNCHANGED <<created, exiting, radio, orphans, late, stopped>>

(* USER_DECLINED for listening; NO_BT_ADAPTER or INTEROP_FAILURE for discovery, *)
(* after which nothing checks for a fatal failure.                              *)
RadioDenied(r) ==
  /\ state.type = "connecting" /\ state.radio[r].at = "asked"
  /\ GiveUp(r, r = "listening")

(* INVALID_STATE, and for listening LISTEN_FAILED or INTEROP_FAILURE *)
RadioRefused(r) ==
  /\ state.type = "connecting" /\ state.radio[r].at = "asked"
  /\ state' = [state EXCEPT !.radio[r].at = "waiting"]
  /\ UNCHANGED <<created, switches, exiting, radio, orphans, late, stopped>>

(* The one-second timer after a refusal. *)
RadioTimer(r) ==
  /\ state.type = "connecting" /\ state.radio[r].at = "waiting"
  /\ \/ /\ state.radio[r].left > 0
        /\ state' = [state EXCEPT !.radio[r].at = "asked", !.radio[r].left = @ - 1]
        /\ UNCHANGED <<created, switches, exiting, radio, orphans, late, stopped>>
     \/ /\ state.radio[r].left = 0
        /\ GiveUp(r, TRUE)

RadioAnswered(r) == RadioGranted(r) \/ RadioOff(r) \/ RadioDenied(r) \/ RadioRefused(r)

-----------------------------------------------------------------------------
(* StateConnecting: peers                                                    *)

ConnectedPeer(s, p) ==
  [s EXCEPT !.peers = @ \cup {p}, !.hello[p] = Append(@, MAX_SEND_RETRY_COUNT)]

DeviceConnected(p) ==
  /\ state.type = "connecting" /\ Len(state.hello[p]) < MaxHellos
  /\ state' = ConnectedPeer(state, p)
  /\ UNCHANGED <<created, switches, exiting, radio, orphans, late, stopped>>

(* OnDeviceDisconnected, OnSocketReadFailure *)
DeviceLost(p) ==
  /\ state.type = "connecting" /\ p \in state.peers
  /\ state' = [state EXCEPT !.peers = @ \ {p}]
  /\ UNCHANGED <<created, switches, exiting, radio, orphans, late, stopped>>

(* A message; only a Hello tells the phone its own MAC. *)
MessageReceived(p, isHello) ==
  /\ state.type = "connecting"
  /\ LET known == [state EXCEPT !.localMac = @ \/ isHello]
     IN \/ p \in state.peers /\ state' = known
        \/ /\ p \notin state.peers /\ Len(state.hello[p]) < MaxHellos
           /\ state' = ConnectedPeer(known, p)
  /\ UNCHANGED <<created, switches, exiting, radio, orphans, late, stopped>>

(* Java answers the SendMessage of the k-th SendHelloTo for p. *)
HelloAnswered(p, k) ==
  /\ state.type = "connecting" /\ k \in DOMAIN state.hello[p]
  /\ LET over  == [state EXCEPT !.hello[p] = RemoveAt(@, k)]
         again == [state EXCEPT !.hello[p][k] = @ - 1]
     IN \/ state' = over                                   \* OK, INTEROP_FAILURE
        \/ state' = [over EXCEPT !.peers = @ \ {p}]        \* SOCKET_ERROR, ..NOT_FOUND
        \/ state' = IF state.hello[p][k] > 1 /\ p \in state.peers
                    THEN again ELSE over                   \* INVALID_STATE
  /\ UNCHANGED <<created, switches, exiting, radio, orphans, late, stopped>>

-----------------------------------------------------------------------------
(* StateConnecting: AttemptNegotiationStart                                  *)

(* The body of its loop with "left" retries: m_peers is moved into the switch. *)
TryNegotiation(left) ==
  \/ /\ state.localMac
     /\ Queue(To("negotiating"))
     /\ state' = [state EXCEPT !.peers = {}, !.attempt = 0]
  \/ /\ ~state.localMac
     /\ state' = [state EXCEPT !.attempt = left]
     /\ UNCHANGED switches

ConnectivityEstablished ==
  /\ state.type = "connecting" /\ state.attempt = 0
  /\ TryNegotiation(MAX_GAME_START_RETRY_COUNT)
  /\ UNCHANGED <<created, exiting, radio, orphans, late, stopped>>

(* Mutant: giving up is forgotten, the loop just ends. *)
AttemptTimerMutantEnd ==
  /\ state.type = "connecting" /\ state.attempt > 0
  /\ \/ state.attempt > 1 /\ TryNegotiation(state.attempt - 1)
     \/ /\ state.attempt = 1
        /\ UNCHANGED <<state, switches>>
  /\ UNCHANGED <<created, exiting, radio, orphans, late, stopped>>

AttemptTimer ==
  /\ state.type = "connecting" /\ state.attempt > 0
  /\ \/ state.attempt > 1 /\ TryNegotiation(state.attempt - 1)
     \/ /\ state.attempt = 1
        /\ state' = [state EXCEPT !.attempt = 0]
        /\ Queue(To("idle"))
  /\ UNCHANGED <<created, exiting, radio, orphans, late, stopped>>

-----------------------------------------------------------------------------
(* The other states and the events they share                                *)

(* All offers are equal: StateNegotiating hands over to StatePlaying once. *)
Agree ==
  /\ state.type = "negotiating" /\ ~state.agreed
  /\ state' = [state EXCEPT !.agreed = TRUE]
  /\ Queue(To("playing"))
  /\ UNCHANGED <<created, exiting, radio, orphans, late, stopped>>

Renegotiate ==
  /\ state.type = "playing"
  /\ Queue(To("negotiating"))
  /\ UNCHANGED <<created, state, exiting, radio, orphans, late, stopped>>

(* OnBluetoothOff outside of StateIdle. *)
BluetoothOff ==
  /\ \/ state.type = "connecting" /\ Queue(ToNewGame)
     \/ state.type \in {"negotiating", "playing"} /\ Queue(To("idle"))
  /\ UNCHANGED <<created, state, exiting, radio, orphans, late, stopped>>

GameStopped ==
  /\ state.type \in {"connecting", "negotiating", "playing"}
  /\ Queue(To("idle"))
  /\ stopped' = TRUE
  /\ UNCHANGED <<created, state, exiting, radio, orphans, late>>

(* Only StateIdle heeds OnNewGame. *)
NewGameIgnored ==
  /\ state.type # "idle" /\ stopped
  /\ stopped' = FALSE
  /\ UNCHANGED <<created, state, switches, exiting, radio, orphans, late>>

Next ==
  \/ Start \/ ExecuteSwitch
  \/ IdleBluetoothOn \/ IdleBluetoothOff \/ IdleNewGame
  \/ EnableBluetoothAnswered \/ EnableBluetoothTimer
  \/ \E r \in Radio : RadioAnswered(r) \/ RadioTimer(r) \/ OrphanAnswered(r)
  \/ \E p \in Peer :
       \/ DeviceConnected(p) \/ DeviceLost(p)
       \/ \E isHello \in BOOLEAN : MessageReceived(p, isHello)
       \/ \E k \in 1 .. MaxHellos : HelloAnswered(p, k)
  \/ ConnectivityEstablished \/ AttemptTimer
  \/ Agree \/ Renegotiate \/ BluetoothOff \/ GameStopped \/ NewGameIgnored

Spec == Init /\ [][Next]_vars

(* The worker runs what was queued, timers fire and Java answers. *)
Fairness ==
  /\ WF_vars(ExecuteSwitch)
  /\ WF_vars(AttemptTimer)
  /\ \A r \in Radio : WF_vars(OrphanAnswered(r))

FairSpec == Spec /\ Fairness

-----------------------------------------------------------------------------
(* The object and the queue have the shape the C++ types give them. *)
TypeOK ==
  /\ created \in BOOLEAN
  /\ state \in {NoState} \cup IdleState \cup ConnectingState
               \cup NegotiatingState \cup PlayingState
  /\ switches \in Seq(Switch)
  /\ exiting \in BOOLEAN
  /\ radio \subseteq Radio
  /\ orphans \in [Radio -> Nat]
  /\ late \subseteq Radio
  /\ stopped \in BOOLEAN

(***************************************************************************)
(* A game the user asked for is not forgotten in StateIdle: as soon as      *)
(* Bluetooth is known to be on, in whichever order the request, the answer  *)
(* to EnableBluetooth and the Bluetooth events came, and across an outage   *)
(* of a StateConnecting, the switch that starts it is on its way.           *)
(***************************************************************************)
PendingGameStarts ==
  state.type = "idle" => (state.newGamePending /\ state.bluetoothOn =>
    \E k \in DOMAIN switches : switches[k].to = "connecting")

(***************************************************************************)
(* Discovery and listening do not outlive the StateConnecting that wanted   *)
(* them, unless Java granted them only after it was gone: the destructor    *)
(* cannot stop what it does not know of.                                    *)
(***************************************************************************)
RadioReleased == TypeOK /\ (state.type # "connecting" => radio \subseteq late)

(***************************************************************************)
(* Once connectivity is reported, the phone does not stay in               *)
(* StateConnecting: it negotiates, or it gives up after the retries.        *)
(***************************************************************************)
AttemptEnds ==
  (state.type = "connecting" /\ state.attempt > 0) ~> state.type # "connecting"

(***************************************************************************)
(* test_controller.cpp:484, fatal_failure_when_both_discovery_and_listening *)
(* _failed: a StateConnecting that has neither tells the user and exits.    *)
(***************************************************************************)
FatalFailureShown ==
  state.type = "connecting" =>
    ((\A r \in Radio : state.radio[r].result = "no") => exiting)

(***************************************************************************)
(* mempool.hpp:113, assert(new_block_count > 0): AttemptNegotiationStart,   *)
(* which resizes the command pool to the number of peers, has some left.    *)
(***************************************************************************)
PoolNotEmpty ==
  [][state.type = "connecting" /\ switches' = Append(switches, To("negotiating"))
       => state.peers # {}]_vars

(***************************************************************************)
(* test_controller.cpp:667 and 1652, goes_to_idle_on_game_stop and          *)
(* resets_and_goes_to_idle_on_game_stop: a phone whose game was stopped     *)
(* stays in StateIdle until the user asks for another game.                 *)
(***************************************************************************)
StopIsFinal ==
  [][state.type = "idle" /\ stopped => state'.type \in {"idle", "none"} \/ ~stopped']_vars

=============================================================================
