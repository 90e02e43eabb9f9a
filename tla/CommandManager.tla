--------------------------- MODULE CommandManager ---------------------------
(***************************************************************************)
(* cmd::Manager (commandmanager.cpp): commands to Java and their answers,   *)
(* the coroutines that await them (FutureResponse, CommandAdapter) and the  *)
(* cancellation of such a coroutine (task.hpp).                             *)
(*                                                                         *)
(* Everything here runs on the native worker thread; Java is the set of     *)
(* commands it has not answered yet.  An answer is represented by the       *)
(* serial number of the command it answers, INTEROP_FAILURE by 0.           *)
(***************************************************************************)
EXTENDS Naturals, FiniteSets

CONSTANTS
  Task,       \* coroutines that may await a command
  NoTask,     \* coroutine_handle nullptr
  Base,       \* the values of ICommand::GetId
  Slots,      \* COMMAND_ID(1), the distance between two of them
  MaxIssued   \* bound: commands accepted by Java

ASSUME TaskAssumption == NoTask \notin Task

ASSUME IdAssumption ==
  /\ Slots \in Nat \ {0}
  /\ Base \subseteq Nat
  /\ \A a, b \in Base : a < b => a + Slots <= b
  /\ MaxIssued \in Nat

VARIABLES
  pending,   \* m_pendingCmds
  task,      \* what each coroutine does
  awaits,    \* the m_id of the FutureResponse it awaits, or awaited last
  mine,      \* the serial number of the command it issued last
  result,    \* what await_resume returned for it, 0 before it did
  java,      \* commands Java has not answered
  serial,    \* commands accepted so far
  resuming,  \* the entry whose callback is on the stack, as a set
  life       \* of the manager

vars == <<pending, task, awaits, mine, result, java, serial, resuming, life>>

TaskState == {"ready", "waiting", "canceled"}
Id        == UNION {b .. b + Slots - 1 : b \in Base}
Entry     == [callback : Task \cup {NoTask}, response : Nat]
Command   == [id : Nat, base : Base, serial : Nat]

Suspended(t) == task[t] \in {"waiting", "canceled"}
Without(map, id) == [i \in DOMAIN map \ {id} |-> map[i]]
With(map, id, entry) ==
  [i \in DOMAIN map \cup {id} |-> IF i = id THEN entry ELSE map[i]]

Init ==
  /\ pending  = [i \in {} |-> 0]
  /\ task     = [t \in Task |-> "ready"]
  /\ awaits   = [t \in Task |-> 0]
  /\ mine     = [t \in Task |-> 0]
  /\ result   = [t \in Task |-> 0]
  /\ java     = {}
  /\ serial   = 0
  /\ resuming = {}
  /\ life     = "up"

(* Native code runs: an event, a timer, or the callback of an answer. *)
Running == life = "up" \/ resuming # {}

-----------------------------------------------------------------------------
(* IssueCommand                                                              *)

(* The first id from GetId() on that is not pending. *)
FirstFree(b, id) ==
  /\ id \notin DOMAIN pending
  /\ \A i \in b .. id - 1 : i \in DOMAIN pending

(* Mutant: every command gets the id of its type. *)
FreeIdMutantBase(b, id) == id = b

(* Mutant: the check for full storage is off by one. *)
FreeIdMutantBound(b, id) == id \in b .. b + Slots /\ FirstFree(b, id)

FreeId(b, id) == id \in b .. b + Slots - 1 /\ FirstFree(b, id)

(* Java took the command and the issuer awaits it; NoTask does not. *)
Issue(t, b, id) ==
  /\ Running /\ serial < MaxIssued
  /\ FreeId(b, id)
  /\ serial'  = serial + 1
  /\ java'    = java \cup {[id |-> id, base |-> b, serial |-> serial + 1]}
  /\ pending' = With(pending, id, [callback |-> t, response |-> 0])
  /\ UNCHANGED <<resuming, life>>

IssueDetached(b, id) ==
  Issue(NoTask, b, id) /\ UNCHANGED <<task, awaits, mine, result>>

IssueAndAwait(t, b, id) ==
  /\ task[t] = "ready"
  /\ Issue(t, b, id)
  /\ task'   = [task EXCEPT ![t] = "waiting"]
  /\ awaits' = [awaits EXCEPT ![t] = id]
  /\ mine'   = [mine EXCEPT ![t] = serial + 1]
  /\ result' = [result EXCEPT ![t] = 0]

(* All ids of the type are pending, or Invoke failed: INTEROP_FAILURE at once. *)
IssueFails(t) ==
  /\ task[t] = "ready" /\ Running
  /\ mine'   = [mine EXCEPT ![t] = 0]
  /\ result' = [result EXCEPT ![t] = 0]
  /\ awaits' = [awaits EXCEPT ![t] = 0]
  /\ UNCHANGED <<pending, task, java, serial, resuming, life>>

-----------------------------------------------------------------------------
(* Answers, cancellation and destruction.                                    *)

(* Mutant: the entry is erased before its callback runs. *)
CallbackMutantEarly(id, entries) ==
  LET t == entries[id].callback
  IN /\ pending' = Without(entries, id)
     /\ IF t = NoTask
        THEN UNCHANGED <<task, resuming>>
        ELSE task' = [task EXCEPT ![t] = "ready"] /\ resuming' = {id}
     /\ UNCHANGED result

(***************************************************************************)
(* The callback of entry id runs against the map "entries".  A coroutine    *)
(* whose owner is gone unwinds without reading the response; one that was   *)
(* resumed may issue commands before the entry is erased.                   *)
(***************************************************************************)
Callback(id, entries) ==
  LET t == entries[id].callback
  IN \/ /\ t = NoTask
        /\ pending' = Without(entries, id)
        /\ UNCHANGED <<task, result, resuming>>
     \/ /\ t # NoTask /\ task[t] = "canceled"
        /\ pending' = Without(entries, id)
        /\ task' = [task EXCEPT ![t] = "ready"]
        /\ UNCHANGED <<result, resuming>>
     \/ /\ t # NoTask /\ task[t] = "waiting"
        /\ pending'  = entries
        /\ task'     = [task EXCEPT ![t] = "ready"]
        /\ result'   = [result EXCEPT ![t] =
             IF awaits[t] \in DOMAIN entries THEN entries[awaits[t]].response ELSE 0]
        /\ resuming' = {id}

SubmitResponse(c) ==
  /\ life = "up" /\ resuming = {} /\ c.id \in DOMAIN pending
  /\ Callback(c.id, [pending EXCEPT ![c.id].response = c.serial])
  /\ UNCHANGED <<awaits, mine, serial, life>>

(* Java answers a command once. *)
Answer(c) == c \in java /\ java' = java \ {c} /\ SubmitResponse(c)

(* Java answers a command and will answer it again. *)
AnswerAgain(c) == c \in java /\ UNCHANGED java /\ SubmitResponse(c)

(* An answer to no pending command is only logged. *)
AnswerIgnored(c) ==
  /\ life = "up" /\ resuming = {} /\ c \in java /\ c.id \notin DOMAIN pending
  /\ java' = java \ {c}
  /\ UNCHANGED <<pending, task, awaits, mine, result, serial, resuming, life>>

(* The callback returns to SubmitResponse or to the destructor. *)
Erase ==
  /\ resuming # {}
  /\ pending'  = [i \in DOMAIN pending \ resuming |-> pending[i]]
  /\ resuming' = {}
  /\ UNCHANGED <<task, awaits, mine, result, java, serial, life>>

(* Mutant: cancelling the coroutine also frees the id. *)
CancelMutantFree(t) ==
  /\ task[t] = "waiting"
  /\ task'    = [task EXCEPT ![t] = "ready"]
  /\ pending' = Without(pending, awaits[t])
  /\ UNCHANGED <<awaits, mine, result, java, serial, resuming, life>>

(* The owner of the TaskHandle is destroyed. *)
Cancel(t) ==
  /\ task[t] = "waiting"
  /\ task' = [task EXCEPT ![t] = "canceled"]
  /\ UNCHANGED <<pending, awaits, mine, result, java, serial, resuming, life>>

(* ~Manager: Java's answers reach nobody, every callback runs. *)
BeginDestruction ==
  /\ life = "up" /\ resuming = {}
  /\ life' = "dying"
  /\ UNCHANGED <<pending, task, awaits, mine, result, java, serial, resuming>>

DestroyEntry(id) ==
  /\ life = "dying" /\ resuming = {} /\ id \in DOMAIN pending
  /\ Callback(id, pending)
  /\ UNCHANGED <<awaits, mine, java, serial, life>>

EndDestruction ==
  /\ life = "dying" /\ resuming = {} /\ pending = [i \in {} |-> 0]
  /\ life' = "dead"
  /\ UNCHANGED <<pending, task, awaits, mine, result, java, serial, resuming>>

-----------------------------------------------------------------------------
Native ==
  \/ \E b \in Base : \E id \in b .. b + Slots : IssueDetached(b, id)
  \/ \E t \in Task : \/ \E b \in Base : \E id \in b .. b + Slots : IssueAndAwait(t, b, id)
                     \/ IssueFails(t)
                     \/ Cancel(t)
  \/ Erase
  \/ BeginDestruction
  \/ \E id \in DOMAIN pending : DestroyEntry(id)
  \/ EndDestruction

Next == Native \/ \E c \in java : Answer(c) \/ AnswerIgnored(c)

Spec == Init /\ [][Next]_vars

(* Java may repeat itself. *)
RepeatingNext == Next \/ \E c \in java : AnswerAgain(c)
RepeatingSpec == Init /\ [][RepeatingNext]_vars

-----------------------------------------------------------------------------
(* The state has the shape the C++ types give it. *)
TypeOK ==
  /\ DOMAIN pending \subseteq Nat
  /\ pending \in [DOMAIN pending -> Entry]
  /\ task \in [Task -> TaskState]
  /\ awaits \in [Task -> Nat]
  /\ mine \in [Task -> Nat]
  /\ result \in [Task -> Nat]
  /\ java \subseteq Command
  /\ serial \in Nat
  /\ resuming \subseteq DOMAIN pending
  /\ life \in {"up", "dying", "dead"}

(***************************************************************************)
(* A suspended coroutine is the callback of the entry it awaits and of no   *)
(* other, so it is resumed exactly once and never after it has gone,        *)
(* canceled or not, answered or destroyed with the manager, even when Java  *)
(* answers twice.                                                           *)
(***************************************************************************)
SuspendedIffRegistered ==
  /\ \A t \in Task : Suspended(t) =>
       awaits[t] \in DOMAIN pending \ resuming /\ pending[awaits[t]].callback = t
  /\ \A id \in DOMAIN pending \ resuming :
       LET t == pending[id].callback
       IN t # NoTask => Suspended(t) /\ awaits[t] = id

(***************************************************************************)
(* The id Java knows a command by names its type and stays taken until the  *)
(* answer has been dealt with: ids are reused, but never while an answer to *)
(* an earlier command may still arrive, be it detached or canceled.         *)
(***************************************************************************)
IdsIdentifyCommands ==
  life = "up" =>
    /\ \A c \in java : c.id \in c.base .. c.base + Slots - 1
    /\ \A c, d \in java : c.id = d.id => c = d
    /\ DOMAIN pending \ resuming = {c.id : c \in java}

(***************************************************************************)
(* Whatever is issued from inside a callback, canceled or answered out of   *)
(* order, a coroutine reads the answer to the command it issued.            *)
(***************************************************************************)
AnswerIsOwn == \A t \in Task : result[t] \in {0, mine[t]}

=============================================================================
