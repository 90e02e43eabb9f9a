------------------------------- MODULE Bridge -------------------------------
(***************************************************************************)
(* The way between Java and the native code: what Java calls (jniexec.cpp), *)
(* the JNI worker that calls Java (javainvoker.cpp), the main worker        *)
(* (mainexec.cpp) and the Controller on it (controller.cpp), which starts   *)
(* the command manager, dispatches events (events.cpp) and answers.         *)
(*                                                                         *)
(* "java" of the command manager is here all that is under way: commands on *)
(* the JNI worker, in Java and answers on the main worker.  Java is         *)
(* external: any of its threads calls the native code at any time.          *)
(*                                                                         *)
(* Both invokers are replaced by one task and counted as one; JNI_OnUnload  *)
(* is left out: the class loader is not unloaded while an invoker refers to *)
(* the class.                                                               *)
(***************************************************************************)
EXTENDS CommandManager, Sequences, SequencesExt

CONSTANTS
  Close,       \* GetId of CloseConnection
  EventName,   \* the events Java sends
  MaxReady,    \* bound: calls of bridgeReady
  MaxEvents    \* bound: calls of sendEvent

ASSUME BridgeAssumption == Close \in Base /\ MaxReady \in Nat \ {0} /\ MaxEvents \in Nat

VARIABLES
  jni,        \* tasks of the JNI worker
  main,       \* tasks of the main worker
  held,       \* commands Java has received and not answered
  issuing,    \* the command just passed to Invoke, with its awaiter, as a set
  readies,    \* calls of bridgeReady so far
  events,     \* calls of sendEvent so far
  invoker,    \* the JavaInvoker of the JNI worker's Context, 0 is nullptr
  refs,       \* owners of each JavaInvoker
  manager,    \* the JavaInvoker the manager's weak_ptr is for, 0 before Start
  state,      \* m_state: none yet, one under construction, some, none any more
  told,       \* history: Java has received a command
  heard,      \* history: serial numbers of the events a state was told of
  kept,       \* the JavaInvoker of the task in the JNI worker's "work", 0 is none
  spinning    \* the coroutine that repeats a refused command, as a set

transport == <<jni, main, held, issuing, readies, events, invoker, refs, manager,
               state, told, heard, kept, spinning>>
allvars   == <<vars, transport>>

Args == {"complete", "blank", "short"}   \* "blank": complete, but the text is no value

Event == [type : {"event"}, name : EventName, args : Args, told : BOOLEAN, serial : Nat]

Attach   == [type |-> "attach"]
Ready(i) == [type |-> "ready", invoker |-> i]
Start(i) == [type |-> "start", invoker |-> i]
Switch   == [type |-> "switch"]

Pass(c, i)  == [type |-> "pass", command |-> c, invoker |-> i]
Response(c) == [type |-> "response", command |-> c]

BridgeInit ==
  /\ Init
  /\ jni     = <<Attach>>       \* JNI_OnLoad
  /\ main    = <<>>
  /\ held    = {}
  /\ issuing = {}
  /\ readies = 0
  /\ events  = 0
  /\ invoker = 0
  /\ refs    = [i \in 1 .. MaxReady |-> 0]
  /\ manager = 0
  /\ state   = "none"
  /\ told    = FALSE
  /\ heard   = {}
  /\ kept    = 0  /\ spinning = {}

(* ScheduleOnJniWorker, ScheduleOnMainWorker: a FIFO queue without bound. *)
OnJniWorker(work)  == jni' = Append(jni, work)
OnMainWorker(work) == main' = Append(main, work)

JniTask(type)  == jni # <<>> /\ Head(jni).type = type
MainTask(type) == main # <<>> /\ Head(main).type = type

(* The main worker is between two tasks, or inside one in a state's code. *)
InState == issuing = {} /\ spinning = {} /\ state \in {"making", "some", "left"}
Between ==
  issuing = {} /\ spinning = {} /\ resuming = {} /\ life = "up" /\ state # "making"

(* The owners of invoker i become more or less by k; 0 is no invoker. *)
Owned(counts, i, k) ==
  [j \in DOMAIN counts |-> IF j = i THEN counts[j] + k ELSE counts[j]]

-----------------------------------------------------------------------------
(* Java                                                                      *)

BridgeReady ==
  /\ readies < MaxReady
  /\ readies' = readies + 1
  /\ OnJniWorker(Ready(readies + 1))
  /\ UNCHANGED <<vars, main, held, issuing, events, invoker, refs, manager, state,
                 told, heard, kept, spinning>>

SendEvent(name, args) ==
  /\ readies > 0 /\ events < MaxEvents
  /\ events' = events + 1
  /\ OnMainWorker([type |-> "event", name |-> name, args |-> args, told |-> told,
                   serial |-> events + 1])
  /\ UNCHANGED <<vars, jni, held, issuing, readies, invoker, refs, manager, state,
                 told, heard, kept, spinning>>

(* Mutant: the answer does not wait for the main worker. *)
SendResponseMutantDirect(c) ==
  /\ c \in held
  /\ held' = held \ {c}
  /\ IF c.id \in DOMAIN pending THEN Answer(c) ELSE UNCHANGED vars
  /\ UNCHANGED <<jni, main, issuing, readies, events, invoker, refs, manager, state,
                 told, heard, kept, spinning>>

SendResponse(c) ==
  /\ c \in held
  /\ held' = held \ {c}
  /\ OnMainWorker(Response(c))
  /\ UNCHANGED <<vars, jni, issuing, readies, events, invoker, refs, manager, state,
                 told, heard, kept, spinning>>

-----------------------------------------------------------------------------
(* The JNI worker                                                            *)

(***************************************************************************)
(* GetNextTask: the task that ran before is destroyed only now, and with it *)
(* the share of its invoker.                                                *)
(***************************************************************************)
Fetch(type) ==
  /\ JniTask(type) /\ jni' = Tail(jni)
  /\ kept' = IF type = "pass" THEN Head(jni).invoker ELSE 0

Fetched == Owned(refs, kept, 0 - 1)

OnLoad ==
  /\ Fetch("attach") /\ refs' = Fetched
  /\ UNCHANGED <<vars, main, held, issuing, readies, events, invoker, manager, state,
                 told, heard, spinning>>

(* New invokers replace the old ones; then the coroutine goes to the main worker. *)
ReplaceInvokers ==
  LET i == Head(jni).invoker
  IN /\ Fetch("ready")
     /\ invoker' = i
     /\ refs' = Owned(Owned(Fetched, i, 1), invoker, 0 - 1)
     /\ OnMainWorker(Start(i))
     /\ UNCHANGED <<vars, held, issuing, readies, events, manager, state, told, heard,
                    spinning>>

(* Mutant: commands for a bridge that has been replaced are dropped. *)
PassCommandMutantStale ==
  LET work == Head(jni)
  IN /\ Fetch("pass") /\ refs' = Fetched
     /\ held' = IF work.invoker = invoker THEN held \cup {work.command} ELSE held
     /\ told' = TRUE
     /\ UNCHANGED <<vars, main, issuing, readies, events, invoker, manager, state,
                    heard, spinning>>

(* Java receives the command; the worker keeps the task, and its share, for now. *)
PassCommand ==
  LET work == Head(jni)
  IN /\ Fetch("pass") /\ refs' = Fetched
     /\ held' = held \cup {work.command}
     /\ told' = TRUE
     /\ UNCHANGED <<vars, main, issuing, readies, events, invoker, manager, state,
                    heard, spinning>>

JniWorker == OnLoad \/ ReplaceInvokers \/ PassCommand

-----------------------------------------------------------------------------
(* Commands of the states                                                    *)

InvokerLives == manager # 0 /\ refs[manager] > 0

(* IssueCommand answers at once: all ids of a type are taken, or the invoker is gone. *)
Refused(b) == b .. b + Slots - 1 \subseteq DOMAIN pending \/ ~InvokerLives

(* Mutant: the task of the JNI worker does not share the invoker. *)
InvokeMutantRaw(t, b, id) ==
  /\ Running /\ issuing = {} /\ state \in {"making", "some"} /\ serial < MaxIssued
  /\ spinning \subseteq {t} /\ (spinning # {} => b = Close)
  /\ FreeId(b, id) /\ InvokerLives
  /\ LET c == [id |-> id, base |-> b, serial |-> serial + 1]
     IN /\ issuing' = {[awaiter |-> t, command |-> c]}
        /\ OnJniWorker(Pass(c, manager))
  /\ refs' = Owned(refs, manager, 1)
  /\ spinning' = {}
  /\ UNCHANGED <<vars, main, held, readies, events, invoker, manager, state, told,
                 heard, kept>>

(***************************************************************************)
(* IssueCommand calls Invoke: the invoker is shared with the task and the   *)
(* call.  A coroutine in DisconnectDevice's loop issues nothing else.       *)
(***************************************************************************)
Invoke(t, b, id) ==
  /\ Running /\ issuing = {} /\ state \in {"making", "some"} /\ serial < MaxIssued
  /\ spinning \subseteq {t} /\ (spinning # {} => b = Close)
  /\ FreeId(b, id) /\ InvokerLives
  /\ LET c == [id |-> id, base |-> b, serial |-> serial + 1]
     IN /\ issuing' = {[awaiter |-> t, command |-> c]}
        /\ OnJniWorker(Pass(c, manager))
  /\ refs' = Owned(refs, manager, 2)
  /\ spinning' = {}
  /\ UNCHANGED <<vars, main, held, readies, events, invoker, manager, state, told,
                 heard, kept>>

(* Invoke returns, the command becomes pending.  The JNI worker may be ahead. *)
Invoked ==
  /\ \E call \in issuing :
       LET c == call.command
       IN IF call.awaiter = NoTask THEN IssueDetached(c.base, c.id)
          ELSE IssueAndAwait(call.awaiter, c.base, c.id)
  /\ issuing' = {}
  /\ refs' = Owned(refs, manager, 0 - 1)
  /\ UNCHANGED <<jni, main, held, readies, events, invoker, manager, state, told,
                 heard, kept, spinning>>

InvokeFails(t) ==
  /\ InState /\ state # "left"
  /\ \E b \in Base : Refused(b)
  /\ IssueFails(t)
  /\ UNCHANGED transport

(***************************************************************************)
(* StateNegotiating::DisconnectDevice, resumed with SOCKET_ERROR or with    *)
(* INVALID_STATE, has CloseConnection refused.  The await does not suspend  *)
(* and the loop asks again, with the main worker: unless a turn of it gets  *)
(* through to Invoke, they all change nothing.                              *)
(***************************************************************************)
DisconnectRefused(t) ==
  /\ InState /\ state = "some"
  /\ Refused(Close)
  /\ \E id \in resuming : pending[id].callback = t
  /\ IssueFails(t)
  /\ spinning' = {t}
  /\ UNCHANGED <<jni, main, held, issuing, readies, events, invoker, refs, manager,
                 state, told, heard, kept>>

CallbackReturns ==
  /\ InState /\ Erase /\ UNCHANGED transport

CancelTask(t) ==
  /\ InState /\ state # "left" /\ Cancel(t) /\ UNCHANGED transport

-----------------------------------------------------------------------------
(* The Controller                                                            *)

(* Start: only the first counts; StateIdle is switched to by a later task. *)
ControllerStart ==
  /\ Between /\ MainTask("start")
  /\ \/ /\ manager = 0
        /\ manager' = Head(main).invoker
        /\ main' = Append(Tail(main), Switch)
     \/ manager # 0 /\ main' = Tail(main) /\ UNCHANGED manager
  /\ UNCHANGED <<vars, jni, held, issuing, readies, events, invoker, refs, state,
                 told, heard, kept, spinning>>

(* StateIdle may issue commands from its constructor, before it is m_state. *)
SwitchToIdle ==
  /\ Between /\ MainTask("switch") /\ main' = Tail(main)
  /\ state' = "making"
  /\ UNCHANGED <<vars, jni, held, issuing, readies, events, invoker, refs, manager,
                 told, heard, kept, spinning>>

Switched ==
  /\ InState /\ state = "making"
  /\ state' = "some"
  /\ UNCHANGED <<vars, jni, main, held, issuing, readies, events, invoker, refs,
                 manager, told, heard, kept, spinning>>

(* SwitchToState<void>: the last state goes and what it owns with it. *)
SwitchToVoid ==
  /\ Between /\ state = "some"
  /\ state' = "left"
  /\ task' = [t \in Task |-> IF task[t] = "waiting" THEN "canceled" ELSE task[t]]
  /\ UNCHANGED <<pending, awaits, mine, result, java, serial, resuming, life>>
  /\ UNCHANGED <<jni, main, held, issuing, readies, events, invoker, refs, manager,
                 told, heard, kept, spinning>>

DeviceEvents == {"RemoteDeviceConnected", "RemoteDeviceDisconnected",
                 "SocketReadFailed"}
PlainEvents  == {"ConnectivityEstablished", "NewGameRequested", "GameStopped",
                 "BluetoothOn", "BluetoothOff"}

(***************************************************************************)
(* Handle finds its arguments: devices have an address, the sender of a     *)
(* message need not, and a cast must be one (its exceptions are caught).    *)
(* Events of other names have no handler.                                   *)
(***************************************************************************)
Parsed(e) ==
  \/ e.name \in DeviceEvents \cup {"CastRequestIssued"} /\ e.args = "complete"
  \/ e.name = "MessageReceived" /\ e.args # "short"
  \/ e.name \in PlainEvents

(* Mutant: events are handled while a state is being constructed. *)
OnEventMutantInside ==
  LET e == Head(main)
  IN /\ issuing = {} /\ resuming = {} /\ life = "up" /\ MainTask("event")
     /\ main' = Tail(main)
     /\ heard' = IF state = "some" /\ Parsed(e) THEN heard \cup {e.serial} ELSE heard
     /\ UNCHANGED <<vars, jni, held, issuing, readies, events, invoker, refs,
                    manager, state, told, kept, spinning>>

(* OnEvent *)
OnEvent ==
  LET e == Head(main)
  IN /\ Between /\ MainTask("event") /\ main' = Tail(main)
     /\ heard' = IF state = "some" /\ Parsed(e) THEN heard \cup {e.serial} ELSE heard
     /\ UNCHANGED <<vars, jni, held, issuing, readies, events, invoker, refs,
                    manager, state, told, kept, spinning>>

(* OnCommandResponse *)
OnCommandResponse ==
  LET c == Head(main).command
  IN /\ Between /\ MainTask("response") /\ main' = Tail(main)
     /\ IF manager = 0 THEN UNCHANGED vars
        ELSE IF c.id \in DOMAIN pending THEN Answer(c) ELSE AnswerIgnored(c)
     /\ UNCHANGED <<jni, held, issuing, readies, events, invoker, refs, manager,
                    state, told, heard, kept, spinning>>

MainWorker ==
  ControllerStart \/ SwitchToIdle \/ Switched \/ OnEvent \/ OnCommandResponse

(***************************************************************************)
(* The Controller is destroyed while nothing runs on the main worker, as in *)
(* the tests: first the state with what it owns, then the manager.          *)
(***************************************************************************)
DestroyController ==
  /\ Between /\ manager # 0
  /\ life' = "dying" /\ state' = "left"
  /\ task' = [t \in Task |-> IF task[t] = "waiting" THEN "canceled" ELSE task[t]]
  /\ UNCHANGED <<pending, awaits, mine, result, java, serial, resuming>>
  /\ UNCHANGED <<jni, main, held, issuing, readies, events, invoker, refs, manager,
                 told, heard, kept, spinning>>

DestroyManager ==
  /\ InState
  /\ (\E id \in DOMAIN pending : DestroyEntry(id)) \/ EndDestruction
  /\ UNCHANGED transport

-----------------------------------------------------------------------------
States ==
  \/ \E b \in Base : \E id \in b .. b + Slots :
       \E t \in Task : \/ task[t] = "ready" /\ Invoke(t, b, id)
                       \/ Invoke(NoTask, b, id)
  \/ \E t \in Task : InvokeFails(t) \/ DisconnectRefused(t) \/ CancelTask(t)
  \/ Invoked \/ CallbackReturns

BridgeNext ==
  \/ BridgeReady
  \/ \E name \in EventName, args \in Args : SendEvent(name, args)
  \/ \E c \in held : SendResponse(c)
  \/ JniWorker \/ MainWorker \/ States
  \/ SwitchToVoid \/ DestroyController \/ DestroyManager

BridgeSpec == BridgeInit /\ [][BridgeNext]_allvars

(***************************************************************************)
(* Both workers run what is queued, the calls of Invoke and of a callback   *)
(* return, the destructor goes on, and Java answers every command it has    *)
(* received.  None of it is owed by a main worker that is spinning: what it *)
(* would have to do is disabled.                                            *)
(***************************************************************************)
BridgeFairness ==
  /\ WF_allvars(JniWorker) /\ WF_allvars(MainWorker)
  /\ WF_allvars(Invoked) /\ WF_allvars(CallbackReturns) /\ WF_allvars(DestroyManager)
  /\ \A i \in Id : WF_allvars(\E c \in held : c.id = i /\ SendResponse(c))

BridgeFairSpec == BridgeSpec /\ BridgeFairness

-----------------------------------------------------------------------------
Passing    == {work \in ToSet(jni) : work.type = "pass"}
Responding == {work.command : work \in {w \in ToSet(main) : w.type = "response"}}

(* Queues, bridges and what Java holds have the shape the code gives them. *)
BridgeTypeOK ==
  /\ jni \in Seq({Attach} \cup [type : {"ready"}, invoker : 1 .. MaxReady] \cup
       [type : {"pass"}, command : Command, invoker : 1 .. MaxReady])
  /\ main \in Seq({Switch} \cup [type : {"start"}, invoker : 1 .. MaxReady] \cup
       Event \cup [type : {"response"}, command : Command])
  /\ held \subseteq Command
  /\ issuing \subseteq [awaiter : Task \cup {NoTask}, command : Command]
  /\ Cardinality(issuing) <= 1
  /\ readies \in 0 .. MaxReady /\ invoker \in 0 .. readies /\ manager \in 0 .. readies
  /\ refs \in [1 .. MaxReady -> Nat]
  /\ state \in {"none", "making", "some", "left"} /\ told \in BOOLEAN
  /\ heard \subseteq Nat
  /\ kept \in 0 .. MaxReady /\ spinning \subseteq Task

(***************************************************************************)
(* A command the manager waits for, and no other, is at exactly one place   *)
(* on its way to Java and back, whatever becomes of the bridge it was sent  *)
(* over; until the call that issues it has returned its answer has to wait. *)
(* (BridgeTypeOK says that all of this has the types of the code.)          *)
(***************************************************************************)
CommandsInTransit ==
  LET moving == {work.command : work \in Passing} \cup held \cup Responding
      places == Cardinality(Passing) + Cardinality(held) + Cardinality(Responding)
  IN /\ BridgeTypeOK
     /\ moving = java \cup {call.command : call \in issuing}
     /\ places = Cardinality(moving)

(***************************************************************************)
(* A task of the JNI worker finds the invoker it calls alive, although      *)
(* bridgeReady may have replaced it; with a single bridgeReady the manager  *)
(* always reaches Java.  A replaced invoker goes once no command is on its  *)
(* way over it and the JNI worker has fetched another task after its last;  *)
(* until then the manager still reaches Java over it.                       *)
(***************************************************************************)
InvokersLive ==
  /\ \A work \in Passing : refs[work.invoker] > 0
  /\ kept # 0 => refs[kept] > 0
  /\ readies = 1 /\ manager # 0 => InvokerLives
  /\ \A i \in 1 .. MaxReady : refs[i] > 0 =>
       \/ i = invoker
       \/ \E work \in Passing : work.invoker = i
       \/ issuing # {} /\ i = manager
       \/ i = kept

(***************************************************************************)
(* Although Start crosses two queues and events only one: a well-formed     *)
(* event sent by a Java that has received a command finds a state, until    *)
(* the program has ended.                                                   *)
(***************************************************************************)
EventsHeard ==
  [][\A e \in ToSet(main) \ ToSet(main') :
       e.type = "event" /\ e.told /\ Parsed(e) /\ state # "left"
         => e.serial \in heard']_allvars

(***************************************************************************)
(* Every coroutine that awaits a command is resumed, be it canceled, over   *)
(* whatever bridge the command went and even by ~Manager, unless the main   *)
(* worker runs nothing any more, because StateNegotiating::DisconnectDevice *)
(* repeats a CloseConnection that is refused for want of an id or, after a  *)
(* second bridgeReady, of an invoker.                                       *)
(***************************************************************************)
EveryCallReturns ==
  \A t \in Task :
    Suspended(t) ~> task[t] = "ready" \/ (spinning # {} /\ Refused(Close))

=============================================================================
