---------------------------- MODULE BridgeProof ----------------------------
(***************************************************************************)
(* Proofs about CommandManager, for every number of coroutines, command     *)
(* types and slots, and about Bridge, for any number of bridges, events and *)
(* commands: the command manager keeps its invariants when its steps are    *)
(* those of a program between two workers and Java.  At the end, proofs     *)
(* about the arguments of commands.                                         *)
(***************************************************************************)
EXTENDS MCBridge, FiniteSetTheorems, TLAPS

-----------------------------------------------------------------------------
(* The command manager, with callers and Java of any kind.                   *)

(* Entries whose callback has not run hold the INTEROP_FAILURE of CommandData. *)
NoResponseYet == \A id \in DOMAIN pending \ resuming : pending[id].response = 0

RegInv == TypeOK /\ SuspendedIffRegistered /\ NoResponseYet

(* The command a coroutine awaits is one Java has not answered. *)
AwaitedAtJava ==
  life = "up" => \A t \in Task : Suspended(t) =>
    \E c \in java : c.id = awaits[t] /\ c.serial = mine[t]

IInv == RegInv /\ IdsIdentifyCommands /\ AwaitedAtJava /\ AnswerIsOwn

-----------------------------------------------------------------------------
(* The registration of callbacks.                                            *)

LEMMA RegisteredPrime ==
  ASSUME task' \in [Task -> TaskState],
         \A u \in Task : task'[u] # "ready" =>
           awaits'[u] \in DOMAIN pending' \ resuming' /\ pending'[awaits'[u]].callback = u,
         \A i \in DOMAIN pending' \ resuming' : pending'[i].callback # NoTask =>
           /\ pending'[i].callback \in Task
           /\ task'[pending'[i].callback] # "ready" /\ awaits'[pending'[i].callback] = i
  PROVE  SuspendedIffRegistered'
BY DEF SuspendedIffRegistered, Suspended, TaskState

LEMMA Registered ==
  ASSUME RegInv
  PROVE  /\ \A u \in Task : task[u] # "ready" =>
              awaits[u] \in DOMAIN pending \ resuming /\ pending[awaits[u]].callback = u
         /\ \A i \in DOMAIN pending \ resuming : pending[i].callback # NoTask =>
              /\ pending[i].callback \in Task
              /\ task[pending[i].callback] # "ready" /\ awaits[pending[i].callback] = i
BY DEF RegInv, TypeOK, Entry, SuspendedIffRegistered, Suspended, TaskState

LEMMA IssueReg ==
  ASSUME RegInv, NEW t \in Task \cup {NoTask}, NEW b \in Base, NEW id,
         Issue(t, b, id),
         \/ t = NoTask /\ UNCHANGED <<task, awaits, mine, result>>
         \/ /\ t \in Task /\ task[t] = "ready"
            /\ task'   = [task EXCEPT ![t] = "waiting"]
            /\ awaits' = [awaits EXCEPT ![t] = id]
            /\ mine'   = [mine EXCEPT ![t] = serial + 1]
            /\ result' = [result EXCEPT ![t] = 0]
  PROVE  RegInv'
<1> DEFINE entry == [callback |-> t, response |-> 0]
<1>1. /\ TypeOK /\ SuspendedIffRegistered /\ NoResponseYet
      /\ id \in Nat /\ b \in Nat /\ id \notin DOMAIN pending /\ entry \in Entry
      /\ id \in b .. b + Slots - 1
  BY IdAssumption DEF RegInv, Issue, FreeId, FirstFree, Entry
<1>2. /\ pending' = With(pending, id, entry)
      /\ DOMAIN pending' = DOMAIN pending \cup {id}
      /\ pending'[id] = entry
      /\ \A i \in DOMAIN pending : pending'[i] = pending[i]
      /\ UNCHANGED <<resuming, life>> /\ serial' = serial + 1
      /\ java' = java \cup {[id |-> id, base |-> b, serial |-> serial + 1]}
  <2>1. pending' = With(pending, id, entry)
    BY DEF Issue
  <2>2. /\ DOMAIN pending' = DOMAIN pending \cup {id} /\ pending'[id] = entry
        /\ \A i \in DOMAIN pending \ {id} : pending'[i] = pending[i]
    BY <2>1 DEF With
  <2>3. QED
    BY <1>1, <2>1, <2>2 DEF Issue
<1>3. TypeOK'
  <2>1. pending' \in [DOMAIN pending' -> Entry]
    <3>1. \A i \in DOMAIN pending' : pending'[i] \in Entry
      BY <1>1, <1>2 DEF TypeOK
    <3>2. QED
      BY <1>2, <3>1 DEF With
  <2>2. java' \subseteq Command /\ serial' \in Nat
    BY <1>1, <1>2 DEF TypeOK, Command
  <2>3. /\ task' \in [Task -> TaskState] /\ awaits' \in [Task -> Nat]
        /\ mine' \in [Task -> Nat] /\ result' \in [Task -> Nat]
    BY <1>1 DEF TypeOK, TaskState
  <2>4. QED
    BY <1>1, <1>2, <2>1, <2>2, <2>3 DEF TypeOK
<1>4. id \notin resuming
  BY <1>1 DEF TypeOK
<1> HIDE DEF entry
<1>5. NoResponseYet'
  BY <1>1, <1>2 DEF NoResponseYet, entry
<1>6. SuspendedIffRegistered'
  <2>1. CASE UNCHANGED <<task, awaits>> /\ t = NoTask
    BY <1>2, <1>3, <2>1, Registered, RegisteredPrime DEF TypeOK, entry
  <2>2. CASE /\ task[t] = "ready" /\ t \in Task
             /\ task'   = [task EXCEPT ![t] = "waiting"]
             /\ awaits' = [awaits EXCEPT ![t] = id]
    <3>1. /\ task'[t] = "waiting" /\ awaits'[t] = id
          /\ \A u \in Task \ {t} : task'[u] = task[u] /\ awaits'[u] = awaits[u]
      BY <1>1, <2>2 DEF TypeOK
    <3>2. ASSUME NEW u \in Task, task'[u] # "ready"
          PROVE  awaits'[u] \in DOMAIN pending' \ resuming' /\ pending'[awaits'[u]].callback = u
      BY <1>1, <1>2, <1>4, <3>1, <3>2, Registered DEF entry
    <3>3. ASSUME NEW i \in DOMAIN pending' \ resuming', pending'[i].callback # NoTask
          PROVE  /\ pending'[i].callback \in Task
                 /\ task'[pending'[i].callback] # "ready" /\ awaits'[pending'[i].callback] = i
      <4>1. CASE i = id
        BY <1>2, <2>2, <3>1, <4>1 DEF entry
      <4>2. CASE i # id
        <5>1. i \in DOMAIN pending \ resuming /\ pending'[i] = pending[i]
          BY <1>2, <3>3, <4>2
        <5>2. /\ pending[i].callback \in Task
              /\ task[pending[i].callback] # "ready" /\ awaits[pending[i].callback] = i
          BY <3>3, <5>1, Registered
        <5>3. QED
          BY <2>2, <3>1, <5>1, <5>2
      <4>3. QED
        BY <4>1, <4>2
    <3>4. QED
      BY <1>3, <3>2, <3>3, RegisteredPrime DEF TypeOK
  <2>3. QED
    BY <2>1, <2>2
<1>7. QED
  BY <1>3, <1>5, <1>6 DEF RegInv

(* A callback runs: in SubmitResponse with a response, in ~Manager without. *)
LEMMA CallbackReg ==
  ASSUME RegInv, resuming = {}, NEW id \in DOMAIN pending, NEW entries,
         DOMAIN entries = DOMAIN pending,
         \A i \in DOMAIN pending \ {id} : entries[i] = pending[i],
         entries \in [DOMAIN pending -> Entry],
         entries[id].callback = pending[id].callback,
         Callback(id, entries), java' \subseteq java,
         UNCHANGED <<awaits, mine, serial, life>>
  PROVE  RegInv'
<1> DEFINE t == pending[id].callback
<1>1. TypeOK /\ SuspendedIffRegistered /\ NoResponseYet
  BY DEF RegInv
<1>2. /\ t \in Task \cup {NoTask}
      /\ t # NoTask => t \in Task /\ awaits[t] = id
      /\ \A u \in Task \ {t} : task[u] # "ready" =>
           awaits[u] \in DOMAIN pending \ {id} /\ pending[awaits[u]].callback = u
  BY <1>1, Registered DEF TypeOK, Entry
<1>3. ASSUME NEW i \in DOMAIN pending \ {id}, pending[i].callback # NoTask
      PROVE  /\ pending[i].callback \in Task \ {t}
             /\ task[pending[i].callback] # "ready" /\ awaits[pending[i].callback] = i
  BY <1>2, <1>3, Registered
<1>4. /\ DOMAIN Without(entries, id) = DOMAIN pending \ {id}
      /\ \A i \in DOMAIN pending \ {id} : Without(entries, id)[i] = pending[i]
  BY DEF Without
<1>5. /\ task' \in [Task -> TaskState]
      /\ \A u \in Task \ {t} : task'[u] = task[u]
      /\ t # NoTask => task'[t] = "ready"
  <2>1. CASE t = NoTask /\ UNCHANGED task
    BY <1>1, <2>1 DEF TypeOK
  <2>2. CASE t # NoTask /\ task' = [task EXCEPT ![t] = "ready"]
    BY <1>1, <1>2, <2>2 DEF TypeOK, TaskState
  <2>3. QED
    BY <2>1, <2>2 DEF Callback
<1>6. /\ \/ pending' = Without(entries, id) /\ resuming' = {}
         \/ pending' = entries /\ resuming' = {id}
      /\ DOMAIN pending' \ resuming' = DOMAIN pending \ {id}
      /\ DOMAIN pending' \subseteq DOMAIN pending
      /\ resuming' \subseteq DOMAIN pending'
      /\ \A i \in DOMAIN pending \ {id} : pending'[i] = pending[i]
  <2>1. CASE pending' = Without(entries, id) /\ resuming' = resuming
    BY <1>4, <2>1
  <2>2. CASE pending' = entries /\ resuming' = {id}
    BY <2>2
  <2>3. QED
    BY <2>1, <2>2 DEF Callback
<1>7. result' \in [Task -> Nat]
  <2>1. CASE UNCHANGED result
    BY <1>1, <2>1 DEF TypeOK
  <2>2. CASE /\ t # NoTask
             /\ result' = [result EXCEPT ![t] =
                  IF awaits[t] \in DOMAIN entries THEN entries[awaits[t]].response ELSE 0]
    BY <1>1, <1>2, <2>2 DEF TypeOK, Entry
  <2>3. QED
    BY <2>1, <2>2 DEF Callback
<1>8. TypeOK'
  <2>1. pending' \in [DOMAIN pending' -> Entry]
    BY <1>6 DEF Without
  <2>2. QED
    BY <1>1, <1>5, <1>6, <1>7, <2>1 DEF TypeOK
<1> HIDE DEF t
<1>9. SuspendedIffRegistered'
  <2>1. ASSUME NEW u \in Task, task'[u] # "ready"
        PROVE  awaits'[u] \in DOMAIN pending' \ resuming' /\ pending'[awaits'[u]].callback = u
    <3>1. u # t /\ task[u] # "ready"
      BY <1>2, <1>5, <2>1, TaskAssumption
    <3>2. QED
      BY <1>2, <1>6, <3>1
  <2>2. ASSUME NEW i \in DOMAIN pending' \ resuming', pending'[i].callback # NoTask
        PROVE  /\ pending'[i].callback \in Task
               /\ task'[pending'[i].callback] # "ready" /\ awaits'[pending'[i].callback] = i
    <3>1. i \in DOMAIN pending \ {id} /\ pending'[i] = pending[i]
      BY <1>6, <2>2
    <3>2. QED
      BY <1>3, <1>5, <2>2, <3>1
  <2>3. QED
    BY <1>5, <2>1, <2>2, RegisteredPrime
<1>10. NoResponseYet'
  BY <1>1, <1>6 DEF NoResponseYet
<1>11. QED
  BY <1>8, <1>9, <1>10 DEF RegInv

LEMMA SubmitReg ==
  ASSUME RegInv, NEW c \in java, SubmitResponse(c), java' \subseteq java
  PROVE  RegInv'
<1> DEFINE entries == [pending EXCEPT ![c.id].response = c.serial]
<1>1. TypeOK /\ c.serial \in Nat /\ c.id \in DOMAIN pending /\ resuming = {}
  BY DEF RegInv, TypeOK, Command, SubmitResponse
<1>2. /\ DOMAIN entries = DOMAIN pending
      /\ \A i \in DOMAIN pending \ {c.id} : entries[i] = pending[i]
      /\ entries \in [DOMAIN pending -> Entry]
      /\ entries[c.id].callback = pending[c.id].callback
  BY <1>1 DEF TypeOK, Entry
<1>3. Callback(c.id, entries) /\ UNCHANGED <<awaits, mine, serial, life>>
  BY DEF SubmitResponse
<1> HIDE DEF entries
<1>4. QED
  BY <1>1, <1>2, <1>3, CallbackReg

LEMMA DestroyReg ==
  ASSUME RegInv, NEW id \in DOMAIN pending, DestroyEntry(id)
  PROVE  RegInv'
<1>1. /\ resuming = {} /\ Callback(id, pending) /\ UNCHANGED <<awaits, mine, java, serial, life>>
      /\ pending \in [DOMAIN pending -> Entry]
  BY DEF DestroyEntry, RegInv, TypeOK
<1>2. QED
  BY <1>1, CallbackReg

LEMMA EraseReg ==
  ASSUME RegInv, Erase
  PROVE  RegInv'
<1>1. /\ DOMAIN pending' = DOMAIN pending \ resuming /\ resuming' = {}
      /\ pending' = [i \in DOMAIN pending \ resuming |-> pending[i]]
      /\ UNCHANGED <<task, awaits, mine, result, java, serial, life>>
  BY DEF Erase
<1>2. TypeOK'
  BY <1>1 DEF RegInv, TypeOK
<1>3. SuspendedIffRegistered' /\ NoResponseYet'
  BY <1>1 DEF RegInv, SuspendedIffRegistered, NoResponseYet, Suspended
<1>4. QED
  BY <1>2, <1>3 DEF RegInv

LEMMA CancelReg ==
  ASSUME RegInv, NEW t \in Task, Cancel(t)
  PROVE  RegInv'
<1>1. TypeOK'
  BY DEF RegInv, TypeOK, Cancel, TaskState
<1>2. \A u \in Task : Suspended(u)' <=> Suspended(u)
  BY DEF RegInv, TypeOK, Cancel, Suspended
<1>3. UNCHANGED <<pending, awaits, resuming>>
  BY DEF Cancel
<1>4. SuspendedIffRegistered'
  <2>1. ASSUME NEW i \in DOMAIN pending \ resuming, pending[i].callback # NoTask
        PROVE  pending[i].callback \in Task
    BY <2>1 DEF RegInv, TypeOK, Entry
  <2>2. QED
    BY <1>2, <1>3, <2>1 DEF RegInv, SuspendedIffRegistered
<1>5. QED
  BY <1>1, <1>3, <1>4 DEF RegInv, NoResponseYet

LEMMA OtherReg ==
  ASSUME RegInv,
         \/ \E t \in Task : IssueFails(t)
         \/ BeginDestruction \/ EndDestruction
         \/ \E c \in java : AnswerIgnored(c)
         \/ UNCHANGED vars
  PROVE  RegInv'
<1>1. CASE \E t \in Task : IssueFails(t)
  <2>1. PICK t \in Task : IssueFails(t)
    BY <1>1
  <2>2. TypeOK'
    BY <2>1 DEF RegInv, TypeOK, IssueFails
  <2>3. /\ UNCHANGED <<pending, task, resuming>> /\ task[t] = "ready"
        /\ \A u \in Task \ {t} : awaits'[u] = awaits[u]
    BY <2>1 DEF RegInv, TypeOK, IssueFails
  <2>4. SuspendedIffRegistered'
    <3>1. ASSUME NEW i \in DOMAIN pending \ resuming, pending[i].callback # NoTask
          PROVE  pending[i].callback \in Task \ {t}
      BY <2>3, <3>1 DEF RegInv, TypeOK, Entry, SuspendedIffRegistered, Suspended
    <3>2. QED
      BY <2>3, <3>1 DEF RegInv, SuspendedIffRegistered, Suspended
  <2>5. QED
    BY <2>2, <2>3, <2>4 DEF RegInv, NoResponseYet
<1>2. CASE \/ BeginDestruction \/ EndDestruction
           \/ \E c \in java : AnswerIgnored(c)
           \/ UNCHANGED vars
  <2>1. /\ UNCHANGED <<pending, task, awaits, mine, result, serial, resuming>>
        /\ java' \subseteq java /\ life' \in {"up", "dying", "dead"}
    BY <1>2 DEF BeginDestruction, EndDestruction, AnswerIgnored, vars, RegInv, TypeOK
  <2>2. QED
    BY <2>1 DEF RegInv, TypeOK, SuspendedIffRegistered, Suspended, NoResponseYet
<1>3. QED
  BY <1>1, <1>2

LEMMA NextReg ==
  ASSUME RegInv, [RepeatingNext]_vars
  PROVE  RegInv'
<1>1. ASSUME NEW b \in Base, NEW id, IssueDetached(b, id)
      PROVE  RegInv'
  BY <1>1, IssueReg DEF IssueDetached
<1>2. ASSUME NEW t \in Task, NEW b \in Base, NEW id, IssueAndAwait(t, b, id)
      PROVE  RegInv'
  BY <1>2, IssueReg DEF IssueAndAwait
<1>3. ASSUME NEW c \in java, Answer(c) \/ AnswerAgain(c)
      PROVE  RegInv'
  BY <1>3, SubmitReg DEF Answer, AnswerAgain
<1>4. QED
  BY <1>1, <1>2, <1>3, DestroyReg, EraseReg, CancelReg, OtherReg
     DEF RepeatingNext, Next, Native

-----------------------------------------------------------------------------
(* Commands and answers, when Java answers every command once.               *)

LEMMA IssueIds ==
  ASSUME TypeOK, IdsIdentifyCommands, NEW t, NEW b \in Base, NEW id, Issue(t, b, id)
  PROVE  IdsIdentifyCommands'
<1> DEFINE cmd == [id |-> id, base |-> b, serial |-> serial + 1]
<1>1. SUFFICES ASSUME life = "up" PROVE IdsIdentifyCommands'
  BY DEF Issue, IdsIdentifyCommands
<1>2. /\ id \in b .. b + Slots - 1 /\ id \notin DOMAIN pending /\ id \notin resuming
      /\ java' = java \cup {cmd} /\ DOMAIN pending' = DOMAIN pending \cup {id}
      /\ UNCHANGED <<resuming, life>>
  BY DEF Issue, FreeId, FirstFree, With, TypeOK
<1>3. /\ \A c \in java : c.id \in c.base .. c.base + Slots - 1
      /\ \A c, d \in java : c.id = d.id => c = d
      /\ DOMAIN pending \ resuming = {c.id : c \in java}
  BY <1>1 DEF IdsIdentifyCommands
<1>4. cmd.id = id /\ cmd.base = b /\ \A c \in java : c.id # id
  BY <1>2, <1>3
<1> HIDE DEF cmd
<1>5. \A c \in java' : c.id \in c.base .. c.base + Slots - 1
  BY <1>2, <1>3, <1>4
<1>6. \A c, d \in java' : c.id = d.id => c = d
  BY <1>2, <1>3, <1>4
<1>7. DOMAIN pending' \ resuming' = {c.id : c \in java'}
  BY <1>2, <1>3, <1>4
<1>8. QED
  BY <1>5, <1>6, <1>7 DEF IdsIdentifyCommands

LEMMA AwaitIds ==
  ASSUME IInv, NEW t \in Task, NEW b \in Base, NEW id, IssueAndAwait(t, b, id)
  PROVE  AwaitedAtJava' /\ AnswerIsOwn'
<1> DEFINE cmd == [id |-> id, base |-> b, serial |-> serial + 1]
<1>1. /\ java' = java \cup {cmd} /\ life' = life
      /\ task'[t] = "waiting" /\ awaits'[t] = id /\ mine'[t] = serial + 1 /\ result'[t] = 0
      /\ \A u \in Task \ {t} : /\ task'[u] = task[u] /\ awaits'[u] = awaits[u]
                               /\ mine'[u] = mine[u] /\ result'[u] = result[u]
  BY DEF IssueAndAwait, Issue, IInv, RegInv, TypeOK
<1>2. cmd.id = id /\ cmd.serial = serial + 1
  OBVIOUS
<1> HIDE DEF cmd
<1>3. AwaitedAtJava'
  BY <1>1, <1>2 DEF IInv, AwaitedAtJava, Suspended
<1>4. AnswerIsOwn'
  BY <1>1 DEF IInv, AnswerIsOwn
<1>5. QED
  BY <1>3, <1>4

LEMMA AnswerIds ==
  ASSUME IInv, NEW c \in java, Answer(c)
  PROVE  IdsIdentifyCommands' /\ AwaitedAtJava' /\ AnswerIsOwn'
<1> DEFINE id == c.id
           t  == pending[id].callback
           entries == [pending EXCEPT ![id].response = c.serial]
<1>1. /\ life = "up" /\ resuming = {} /\ id \in DOMAIN pending
      /\ java' = java \ {c} /\ Callback(id, entries)
      /\ UNCHANGED <<awaits, mine, serial, life>>
  BY DEF Answer, SubmitResponse
<1>2. /\ \A d \in java : d.id \in d.base .. d.base + Slots - 1
      /\ \A d, e \in java : d.id = e.id => d = e
      /\ DOMAIN pending = {d.id : d \in java}
  BY <1>1 DEF IInv, IdsIdentifyCommands
<1>3. /\ DOMAIN entries = DOMAIN pending /\ entries[id].response = c.serial
      /\ entries[id].callback = t
  BY <1>1 DEF IInv, RegInv, TypeOK, Entry
<1>4. /\ t # NoTask => t \in Task /\ awaits[t] = id /\ task[t] # "ready"
      /\ \A u \in Task : task[u] # "ready" => pending[awaits[u]].callback = u
  BY <1>1, Registered DEF IInv
<1>5. DOMAIN pending' \ resuming' = DOMAIN pending \ {id}
  BY <1>1, <1>3 DEF Callback, Without
<1>6. DOMAIN pending' \ resuming' = {d.id : d \in java'}
  BY <1>1, <1>2, <1>5
<1>7. IdsIdentifyCommands'
  BY <1>1, <1>2, <1>6 DEF IdsIdentifyCommands
<1>8. \/ UNCHANGED <<task, result>>
      \/ /\ t # NoTask /\ task' = [task EXCEPT ![t] = "ready"]
         /\ \/ result' = result
            \/ task[t] = "waiting" /\ result' = [result EXCEPT ![t] = c.serial]
  BY <1>1, <1>3, <1>4 DEF Callback
<1> HIDE DEF entries, t, id
<1>9. /\ t # NoTask => task'[t] = "ready"
      /\ \A u \in Task : task'[u] # "ready" => task[u] # "ready" /\ task'[u] = task[u]
  <2>1. task \in [Task -> TaskState]
    BY DEF IInv, RegInv, TypeOK
  <2>2. CASE UNCHANGED task /\ t = NoTask
    BY <2>2
  <2>3. CASE t # NoTask /\ task' = [task EXCEPT ![t] = "ready"]
    BY <1>4, <2>1, <2>3
  <2>4. QED
    BY <1>1, <1>3, <2>2, <2>3 DEF Callback, t
<1>10. \A u \in Task : Suspended(u) <=> task[u] # "ready"
  BY DEF IInv, RegInv, TypeOK, TaskState, Suspended
<1>11. AwaitedAtJava'
  <2>1. ASSUME NEW u \in Task, task'[u] # "ready"
        PROVE  \E d \in java' : d.id = awaits'[u] /\ d.serial = mine'[u]
    <3>1. task[u] # "ready" /\ u # t
      BY <1>9, <2>1, TaskAssumption
    <3>2. PICK d \in java : d.id = awaits[u] /\ d.serial = mine[u]
      BY <1>1, <1>10, <3>1 DEF IInv, AwaitedAtJava
    <3>3. d # c
      BY <1>4, <3>1, <3>2 DEF t, id
    <3>4. QED
      BY <1>1, <3>2, <3>3
  <2>2. QED
    BY <2>1 DEF AwaitedAtJava, Suspended
<1>12. AnswerIsOwn'
  <2>1. CASE result' = result
    BY <1>1, <2>1 DEF IInv, AnswerIsOwn
  <2>2. CASE t # NoTask /\ result' = [result EXCEPT ![t] = c.serial]
    <3>1. PICK d \in java : d.id = awaits[t] /\ d.serial = mine[t]
      BY <1>1, <1>4, <1>10, <2>2 DEF IInv, AwaitedAtJava
    <3>2. mine[t] = c.serial
      BY <1>2, <1>4, <2>2, <3>1 DEF id
    <3>3. result \in [Task -> Nat]
      BY DEF IInv, RegInv, TypeOK
    <3>4. QED
      BY <1>1, <1>4, <2>2, <3>2, <3>3 DEF IInv, AnswerIsOwn
  <2>3. QED
    BY <1>8, <2>1, <2>2
<1>13. QED
  BY <1>7, <1>11, <1>12

LEMMA DestroyIds ==
  ASSUME IInv, NEW id \in DOMAIN pending, DestroyEntry(id)
  PROVE  IdsIdentifyCommands' /\ AwaitedAtJava' /\ AnswerIsOwn'
<1>1. /\ life = "dying" /\ life' = life /\ resuming = {} /\ mine' = mine
      /\ Callback(id, pending)
  BY DEF DestroyEntry
<1>2. IdsIdentifyCommands' /\ AwaitedAtJava'
  BY <1>1 DEF IdsIdentifyCommands, AwaitedAtJava
<1>3. \A i \in DOMAIN pending : pending[i].response = 0
  BY <1>1 DEF IInv, RegInv, NoResponseYet
<1>4. \/ result' = result
      \/ \E t : result' = [result EXCEPT ![t] = 0]
  BY <1>1, <1>3 DEF Callback
<1>5. result \in [Task -> Nat]
  BY DEF IInv, RegInv, TypeOK
<1>6. AnswerIsOwn'
  BY <1>1, <1>4, <1>5 DEF IInv, AnswerIsOwn
<1>7. QED
  BY <1>2, <1>6

LEMMA OtherIds ==
  ASSUME IInv,
         \/ Erase
         \/ \E t \in Task : Cancel(t) \/ IssueFails(t)
         \/ BeginDestruction \/ EndDestruction
         \/ \E c \in java : AnswerIgnored(c)
         \/ UNCHANGED vars
  PROVE  IdsIdentifyCommands' /\ AwaitedAtJava' /\ AnswerIsOwn'
<1>1. CASE Erase \/ UNCHANGED vars
  BY <1>1 DEF Erase, vars, IInv, IdsIdentifyCommands, AwaitedAtJava, Suspended, AnswerIsOwn
<1>2. CASE \E t \in Task : Cancel(t)
  <2>1. PICK t \in Task : Cancel(t)
    BY <1>2
  <2>2. /\ UNCHANGED <<pending, awaits, mine, result, java, serial, resuming, life>>
        /\ \A u \in Task : Suspended(u)' => Suspended(u)
    BY <2>1 DEF Cancel, Suspended, IInv, RegInv, TypeOK
  <2>3. QED
    BY <2>2 DEF IInv, IdsIdentifyCommands, AwaitedAtJava, AnswerIsOwn
<1>3. CASE \E t \in Task : IssueFails(t)
  <2>1. PICK t \in Task : IssueFails(t)
    BY <1>3
  <2>2. /\ UNCHANGED <<pending, task, java, resuming, life>> /\ task[t] = "ready"
        /\ result'[t] = 0
        /\ \A u \in Task \ {t} : /\ awaits'[u] = awaits[u] /\ mine'[u] = mine[u]
                                 /\ result'[u] = result[u]
    BY <2>1 DEF IssueFails, IInv, RegInv, TypeOK
  <2>3. QED
    BY <2>2 DEF IInv, IdsIdentifyCommands, AwaitedAtJava, Suspended, AnswerIsOwn
<1>4. CASE BeginDestruction \/ EndDestruction
  BY <1>4 DEF BeginDestruction, EndDestruction, IInv, IdsIdentifyCommands,
              AwaitedAtJava, AnswerIsOwn
<1>5. CASE \E c \in java : AnswerIgnored(c)
  BY <1>5 DEF AnswerIgnored, IInv, IdsIdentifyCommands
<1>6. QED
  BY <1>1, <1>2, <1>3, <1>4, <1>5

LEMMA NextIInv ==
  ASSUME IInv, [Next]_vars
  PROVE  IInv'
<1>1. RegInv'
  BY NextReg DEF IInv, RepeatingNext
<1>2. TypeOK /\ IdsIdentifyCommands
  BY DEF IInv, RegInv
<1>3. ASSUME NEW b \in Base, NEW id, IssueDetached(b, id)
      PROVE  IdsIdentifyCommands' /\ AwaitedAtJava' /\ AnswerIsOwn'
  <2>1. Issue(NoTask, b, id) /\ UNCHANGED <<task, awaits, mine, result, life>>
    BY <1>3 DEF IssueDetached, Issue
  <2>2. java \subseteq java'
    BY <2>1 DEF Issue
  <2>3. QED
    BY <1>2, <2>1, <2>2, IssueIds DEF IInv, AwaitedAtJava, Suspended, AnswerIsOwn
<1>4. ASSUME NEW t \in Task, NEW b \in Base, NEW id, IssueAndAwait(t, b, id)
      PROVE  IdsIdentifyCommands' /\ AwaitedAtJava' /\ AnswerIsOwn'
  BY <1>2, <1>4, IssueIds, AwaitIds DEF IssueAndAwait
<1>5. IdsIdentifyCommands' /\ AwaitedAtJava' /\ AnswerIsOwn'
  BY <1>3, <1>4, AnswerIds, DestroyIds, OtherIds DEF Next, Native
<1>6. QED
  BY <1>1, <1>5 DEF IInv

LEMMA InitIInv ==
  ASSUME Init
  PROVE  IInv
<1>1. TypeOK
  BY DEF Init, TypeOK, TaskState
<1>2. QED
  BY <1>1 DEF Init, IInv, RegInv, SuspendedIffRegistered, Suspended, NoResponseYet,
              IdsIdentifyCommands, AwaitedAtJava, AnswerIsOwn

-----------------------------------------------------------------------------
(***************************************************************************)
(* m_pendingCmds has the shape its type gives it and contains the entry     *)
(* whose callback is on the stack, even when Java answers twice.            *)
(***************************************************************************)
THEOREM TypeCorrect == RepeatingSpec => []TypeOK
<1>1. Init => RegInv
  BY InitIInv DEF IInv
<1>2. RegInv /\ [RepeatingNext]_vars => RegInv'
  BY NextReg
<1>3. RegInv => TypeOK
  BY DEF RegInv
<1>4. QED
  BY <1>1, <1>2, <1>3, PTL DEF RepeatingSpec

(***************************************************************************)
(* A suspended coroutine is resumed exactly once and never after it has     *)
(* gone: it is the callback of the entry it awaits, and of no other.        *)
(***************************************************************************)
THEOREM Registration == RepeatingSpec => []SuspendedIffRegistered
<1>1. Init => RegInv
  BY InitIInv DEF IInv
<1>2. RegInv /\ [RepeatingNext]_vars => RegInv'
  BY NextReg
<1>3. RegInv => SuspendedIffRegistered
  BY DEF RegInv
<1>4. QED
  BY <1>1, <1>2, <1>3, PTL DEF RepeatingSpec

(***************************************************************************)
(* An id is never reused while an answer to an earlier command is due.      *)
(***************************************************************************)
THEOREM IdsIdentify == Spec => []IdsIdentifyCommands
<1>1. Init => IInv
  BY InitIInv
<1>2. IInv /\ [Next]_vars => IInv'
  BY NextIInv
<1>3. IInv => IdsIdentifyCommands
  BY DEF IInv
<1>4. QED
  BY <1>1, <1>2, <1>3, PTL DEF Spec

(***************************************************************************)
(* A coroutine reads the answer to its own command, or INTEROP_FAILURE, if  *)
(* Java answers no command twice.                                           *)
(***************************************************************************)
THEOREM OwnAnswers == Spec => []AnswerIsOwn
<1>1. Init => IInv
  BY InitIInv
<1>2. IInv /\ [Next]_vars => IInv'
  BY NextIInv
<1>3. IInv => AnswerIsOwn
  BY DEF IInv
<1>4. QED
  BY <1>1, <1>2, <1>3, PTL DEF Spec

-----------------------------------------------------------------------------
(* The bridge.                                                               *)

(* The command on its way through Invoke is the one IssueCommand will register. *)
IssuingInv ==
  \A call \in issuing :
    /\ call.awaiter \in Task \cup {NoTask}
    /\ call.command.base \in Base
    /\ call.command.id \in call.command.base .. call.command.base + Slots - 1
    /\ call.command.serial = serial + 1

-----------------------------------------------------------------------------
(* Steps of the bridge are steps of the manager, or cancel all coroutines.   *)

CancelAll ==
  /\ life = "up" /\ life' \in {"up", "dying"}
  /\ task' = [t \in Task |-> IF task[t] = "waiting" THEN "canceled" ELSE task[t]]
  /\ UNCHANGED <<pending, awaits, mine, result, java, serial, resuming>>

LEMMA CancelAllIInv ==
  ASSUME IInv, CancelAll
  PROVE  IInv'
<1>1. /\ TypeOK /\ SuspendedIffRegistered /\ NoResponseYet
      /\ IdsIdentifyCommands /\ AwaitedAtJava /\ AnswerIsOwn
  BY DEF IInv, RegInv
<1>2. TypeOK' /\ \A t \in Task : Suspended(t)' <=> Suspended(t)
  BY <1>1 DEF CancelAll, TypeOK, TaskState, Suspended
<1>3. SuspendedIffRegistered'
  <2>1. \A i \in DOMAIN pending \ resuming :
          pending[i].callback # NoTask => pending[i].callback \in Task
    BY <1>1 DEF TypeOK, Entry
  <2>2. UNCHANGED <<pending, awaits, resuming>>
    BY DEF CancelAll
  <2>3. QED
    BY <1>1, <1>2, <2>1, <2>2 DEF SuspendedIffRegistered
<1>4. NoResponseYet' /\ IdsIdentifyCommands' /\ AnswerIsOwn'
  BY <1>1 DEF CancelAll, NoResponseYet, IdsIdentifyCommands, AnswerIsOwn
<1>5. AwaitedAtJava'
  BY <1>1, <1>2 DEF CancelAll, AwaitedAtJava
<1>6. QED
  BY <1>2, <1>3, <1>4, <1>5 DEF IInv, RegInv

LEMMA IdsOfType ==
  ASSUME NEW b \in Base, NEW id \in b .. b + Slots - 1
  PROVE  b \in Nat /\ id \in Nat /\ id \in b .. b + Slots
<1>1. b \in Nat /\ Slots \in Nat
  BY IdAssumption
<1>2. QED
  BY <1>1

LEMMA ManagerStep ==
  ASSUME IssuingInv, BridgeNext
  PROVE  Next \/ CancelAll \/ UNCHANGED vars
<1>1. CASE Invoked
  <2>1. PICK call \in issuing :
          LET c == call.command
          IN IF call.awaiter = NoTask THEN IssueDetached(c.base, c.id)
             ELSE IssueAndAwait(call.awaiter, c.base, c.id)
    BY <1>1 DEF Invoked
  <2> DEFINE b  == call.command.base
             id == call.command.id
  <2>2. /\ b \in Base /\ id \in b .. b + Slots
        /\ call.awaiter \in Task \cup {NoTask}
    BY IdsOfType DEF IssuingInv
  <2>3. CASE call.awaiter = NoTask
    BY <2>1, <2>2, <2>3 DEF Next, Native
  <2>4. CASE call.awaiter \in Task
    BY <2>1, <2>2, <2>4, TaskAssumption DEF Next, Native
  <2>5. QED
    BY <2>2, <2>3, <2>4
<1>2. CASE \E t \in Task : InvokeFails(t) \/ DisconnectRefused(t) \/ CancelTask(t)
  BY <1>2 DEF InvokeFails, DisconnectRefused, CancelTask, Next, Native
<1>3. CASE CallbackReturns \/ DestroyManager
  BY <1>3 DEF CallbackReturns, DestroyManager, Next, Native
<1>4. CASE OnCommandResponse
  BY <1>4 DEF OnCommandResponse, Answer, AnswerIgnored, Next
<1>5. CASE SwitchToVoid \/ DestroyController
  BY <1>5 DEF SwitchToVoid, DestroyController, CancelAll, Between
<1>6. CASE \E b \in Base : \E id \in b .. b + Slots :
             \E t \in Task : \/ task[t] = "ready" /\ Invoke(t, b, id)
                             \/ Invoke(NoTask, b, id)
  BY <1>6 DEF Invoke
<1>7. CASE BridgeReady \/ \E c \in held : SendResponse(c)
  BY <1>7 DEF BridgeReady, SendResponse
<1>8. CASE \E name \in EventName, args \in Args : SendEvent(name, args)
  BY <1>8 DEF SendEvent
<1>9. CASE JniWorker
  BY <1>9 DEF JniWorker, OnLoad, ReplaceInvokers, PassCommand
<1>10. CASE ControllerStart \/ SwitchToIdle \/ Switched \/ OnEvent
  BY <1>10 DEF ControllerStart, SwitchToIdle, Switched, OnEvent
<1>11. QED
  BY <1>1, <1>2, <1>3, <1>4, <1>5, <1>6, <1>7, <1>8, <1>9, <1>10
     DEF BridgeNext, States, MainWorker

(* Steps that leave the queues and Java alone. *)
Aside ==
  /\ issuing = {} /\ state' \in {state, "left"}
  /\ UNCHANGED <<java, serial>>
  /\ UNCHANGED <<jni, main, held, issuing, readies, events, invoker, refs, manager,
                 told, heard, kept>>
  /\ spinning' \subseteq spinning \cup Task

LEMMA StepCases ==
  ASSUME [BridgeNext]_allvars
  PROVE  \/ UNCHANGED allvars
         \/ Aside
         \/ BridgeReady
         \/ \E name \in EventName, args \in Args : SendEvent(name, args)
         \/ \E c \in held : SendResponse(c)
         \/ OnLoad \/ ReplaceInvokers \/ PassCommand
         \/ ControllerStart \/ SwitchToIdle \/ Switched \/ OnEvent \/ OnCommandResponse
         \/ \E b \in Base, id \in Nat, t \in Task \cup {NoTask} : Invoke(t, b, id)
         \/ Invoked
<1>1. CASE \E b \in Base : \E id \in b .. b + Slots :
             \E t \in Task : \/ task[t] = "ready" /\ Invoke(t, b, id)
                             \/ Invoke(NoTask, b, id)
  <2>1. ASSUME NEW b \in Base, NEW id \in b .. b + Slots PROVE id \in Nat
    <3>1. b \in Nat
      BY IdAssumption
    <3>2. QED
      BY <2>1, <3>1
  <2>2. QED
    BY <1>1, <2>1
<1>2. ASSUME NEW t \in Task, InvokeFails(t) \/ DisconnectRefused(t) \/ CancelTask(t)
      PROVE  Aside
  <2>1. CASE InvokeFails(t) \/ CancelTask(t)
    BY <2>1 DEF InvokeFails, CancelTask, IssueFails, Cancel, InState, Aside, transport
  <2>2. CASE DisconnectRefused(t)
    BY <2>2 DEF DisconnectRefused, IssueFails, InState, Aside
  <2>3. QED
    BY <1>2, <2>1, <2>2
<1>3. CASE CallbackReturns
  BY <1>3 DEF CallbackReturns, Erase, InState, Aside, transport
<1>4. CASE DestroyManager
  BY <1>4 DEF DestroyManager, DestroyEntry, EndDestruction, InState, Aside, transport
<1>5. CASE SwitchToVoid
  BY <1>5 DEF SwitchToVoid, Between, Aside
<1>6. CASE DestroyController
  BY <1>6 DEF DestroyController, Between, Aside
<1>7. QED
  BY <1>1, <1>2, <1>3, <1>4, <1>5, <1>6 DEF BridgeNext, States, MainWorker, JniWorker

LEMMA BridgeManagerInv ==
  ASSUME IInv, IssuingInv, [BridgeNext]_allvars
  PROVE  IInv' /\ IssuingInv'
<1>1. IInv'
  <2>1. CASE UNCHANGED allvars
    BY <2>1, NextIInv DEF allvars
  <2>2. CASE BridgeNext
    BY <2>2, ManagerStep, NextIInv, CancelAllIInv
  <2>3. QED
    BY <2>1, <2>2
<1>2. IssuingInv'
  <2>1. CASE UNCHANGED <<issuing, serial>>
    BY <2>1 DEF IssuingInv
  <2>2. CASE issuing' = {}
    BY <2>2 DEF IssuingInv
  <2>3. ASSUME NEW b \in Base, NEW id, NEW t \in Task \cup {NoTask}, Invoke(t, b, id)
        PROVE  IssuingInv'
    <3>1. /\ issuing' = {[awaiter |-> t, command |->
                            [id |-> id, base |-> b, serial |-> serial + 1]]}
          /\ id \in b .. b + Slots - 1 /\ serial' = serial
      BY <2>3 DEF Invoke, FreeId, vars
    <3>2. QED
      BY <3>1 DEF IssuingInv
  <2>4. CASE OnCommandResponse
    BY <2>2, <2>4 DEF OnCommandResponse, Between
  <2>5. CASE Invoked
    BY <2>2, <2>5 DEF Invoked
  <2>6. QED
    BY <2>1, <2>3, <2>4, <2>5, StepCases
       DEF allvars, transport, vars, Aside, BridgeReady, SendEvent, SendResponse,
           OnLoad, ReplaceInvokers, PassCommand, ControllerStart, SwitchToIdle,
           Switched, OnEvent
<1>3. QED
  BY <1>1, <1>2

LEMMA BridgeInitInv ==
  ASSUME BridgeInit
  PROVE  IInv /\ IssuingInv
BY InitIInv DEF BridgeInit, IssuingInv

-----------------------------------------------------------------------------
(***************************************************************************)
(* A coroutine is resumed once, although the call that registers it may     *)
(* overlap with Java's answer and a switch of the state cancels them all.   *)
(***************************************************************************)
THEOREM BridgeRegistration == BridgeSpec => []SuspendedIffRegistered
<1>1. BridgeInit => IInv /\ IssuingInv
  BY BridgeInitInv
<1>2. IInv /\ IssuingInv /\ [BridgeNext]_allvars => (IInv /\ IssuingInv)'
  BY BridgeManagerInv
<1>3. IInv => SuspendedIffRegistered
  BY DEF IInv, RegInv
<1>4. QED
  BY <1>1, <1>2, <1>3, PTL DEF BridgeSpec

(***************************************************************************)
(* No id is taken again while its last command is on either worker, in Java *)
(* or on its way back.                                                      *)
(***************************************************************************)
THEOREM BridgeIdsIdentify == BridgeSpec => []IdsIdentifyCommands
<1>1. BridgeInit => IInv /\ IssuingInv
  BY BridgeInitInv
<1>2. IInv /\ IssuingInv /\ [BridgeNext]_allvars => (IInv /\ IssuingInv)'
  BY BridgeManagerInv
<1>3. IInv => IdsIdentifyCommands
  BY DEF IInv
<1>4. QED
  BY <1>1, <1>2, <1>3, PTL DEF BridgeSpec

(***************************************************************************)
(* Each coroutine reads the answer to its own command, over whatever bridge *)
(* the command went.                                                        *)
(***************************************************************************)
THEOREM BridgeOwnAnswers == BridgeSpec => []AnswerIsOwn
<1>1. BridgeInit => IInv /\ IssuingInv
  BY BridgeInitInv
<1>2. IInv /\ IssuingInv /\ [BridgeNext]_allvars => (IInv /\ IssuingInv)'
  BY BridgeManagerInv
<1>3. IInv => AnswerIsOwn
  BY DEF IInv
<1>4. QED
  BY <1>1, <1>2, <1>3, PTL DEF BridgeSpec

-----------------------------------------------------------------------------
(* The queues of the two workers.                                            *)

LEMMA AppendToSet ==
  ASSUME NEW S, NEW queue \in Seq(S), NEW x \in S
  PROVE  /\ Append(queue, x) \in Seq(S)
         /\ ToSet(Append(queue, x)) = ToSet(queue) \cup {x}
<1>1. /\ Append(queue, x) \in Seq(S) /\ Len(Append(queue, x)) = Len(queue) + 1
      /\ \A i \in 1 .. Len(queue) : Append(queue, x)[i] = queue[i]
      /\ Append(queue, x)[Len(queue) + 1] = x
  OBVIOUS
<1>2. /\ DOMAIN Append(queue, x) = 1 .. Len(queue) + 1
      /\ DOMAIN queue = 1 .. Len(queue) /\ Len(queue) \in Nat
  BY <1>1
<1> DEFINE longer == Append(queue, x)
<1> HIDE DEF longer
<1>3. ToSet(longer) = ToSet(queue) \cup {x}
  <2>1. 1 .. Len(queue) + 1 = 1 .. Len(queue) \cup {Len(queue) + 1}
    BY <1>2
  <2>2. QED
    BY <1>1, <1>2, <2>1 DEF ToSet, longer
<1>4. QED
  BY <1>1, <1>3 DEF longer

LEMMA Appended ==
  ASSUME NEW S, NEW queue \in Seq(S), NEW x
  PROVE  ToSet(Append(queue, x)) = ToSet(queue) \cup {x}
<1>1. queue \in Seq(S \cup {x})
  OBVIOUS
<1>2. QED
  BY <1>1, AppendToSet

LEMMA TailToSet ==
  ASSUME NEW S, NEW queue \in Seq(S), queue # <<>>
  PROVE  /\ Tail(queue) \in Seq(S) /\ Head(queue) \in S
         /\ ToSet(queue) = ToSet(Tail(queue)) \cup {Head(queue)}
<1>1. /\ Tail(queue) \in Seq(S) /\ Len(Tail(queue)) = Len(queue) - 1
      /\ \A i \in 1 .. Len(queue) - 1 : Tail(queue)[i] = queue[i + 1]
      /\ Head(queue) = queue[1] /\ Len(queue) \in Nat \ {0}
      /\ DOMAIN Tail(queue) = 1 .. Len(queue) - 1 /\ DOMAIN queue = 1 .. Len(queue)
      /\ Head(queue) \in S
  OBVIOUS
<1> DEFINE n == Len(queue)
           rest == Tail(queue)
<1> HIDE DEF n, rest
<1>2. ASSUME NEW w \in ToSet(rest) \cup {Head(queue)} PROVE w \in ToSet(queue)
  <2>1. CASE w = Head(queue)
    BY <1>1, <2>1 DEF ToSet
  <2>2. ASSUME NEW i \in 1 .. n - 1, w = rest[i] PROVE w \in ToSet(queue)
    BY <1>1, <2>2 DEF ToSet, n, rest
  <2>3. QED
    BY <1>1, <1>2, <2>1, <2>2 DEF ToSet, n, rest
<1>3. ASSUME NEW i \in DOMAIN queue PROVE queue[i] \in ToSet(rest) \cup {Head(queue)}
  <2>1. i = 1 \/ i - 1 \in 1 .. n - 1
    BY <1>1 DEF n
  <2>2. CASE i - 1 \in 1 .. n - 1
    <3>1. queue[i] = rest[i - 1]
      BY <1>1, <2>2 DEF n, rest
    <3>2. QED
      BY <1>1, <2>2, <3>1 DEF ToSet, n, rest
  <2>3. QED
    BY <1>1, <2>1, <2>2
<1>4. QED
  BY <1>1, <1>2, <1>3 DEF ToSet, rest

JniWork ==
  {Attach} \cup [type : {"ready"}, invoker : 1 .. MaxReady] \cup
  [type : {"pass"}, command : Command, invoker : 1 .. MaxReady]

MainWork ==
  {Switch} \cup [type : {"start"}, invoker : 1 .. MaxReady] \cup
  Event \cup [type : {"response"}, command : Command]

(***************************************************************************)
(* What the queues hold; an invoker on its way to Start was made by a call  *)
(* of bridgeReady, and once one is there the JNI worker's Context has one.  *)
(***************************************************************************)
QueuesInv ==
  /\ jni \in Seq(JniWork) /\ main \in Seq(MainWork)
  /\ readies \in 0 .. MaxReady /\ invoker \in 0 .. readies /\ manager \in 0 .. readies
  /\ events \in Nat /\ told \in BOOLEAN
  /\ state \in {"none", "making", "some", "left"}
  /\ heard \subseteq Nat
  /\ kept \in 0 .. MaxReady /\ spinning \subseteq Task
  /\ held \subseteq Command
  /\ issuing \subseteq [awaiter : Task \cup {NoTask}, command : Command]
  /\ \A work \in ToSet(jni) : work.type = "ready" => work.invoker \in 1 .. readies
  /\ \A work \in ToSet(main) :
       work.type = "start" => work.invoker \in 1 .. readies /\ invoker # 0
  /\ manager # 0 => invoker # 0

(* Java has received commands only from a state. *)
ToldInv ==
  /\ told \/ Passing # {} => state # "none"
  /\ \A work \in ToSet(main) : work.type = "event" /\ work.told => told

LEMMA QueuesStep ==
  ASSUME QueuesInv, IInv, [BridgeNext]_allvars
  PROVE  QueuesInv'
<1> USE DEF QueuesInv
<1>1. CASE UNCHANGED allvars \/ Aside \/ Switched
  BY <1>1 DEF allvars, transport, Aside, Switched
<1>2. CASE BridgeReady
  <2> DEFINE work == Ready(readies + 1)
  <2>1. readies + 1 \in 1 .. MaxReady /\ readies' = readies + 1
    BY <1>2, BridgeAssumption DEF BridgeReady
  <2>2. work \in JniWork
    BY <2>1 DEF JniWork, Ready
  <2>3. jni' \in Seq(JniWork) /\ ToSet(jni') = ToSet(jni) \cup {work}
    BY <1>2, <2>2, AppendToSet DEF BridgeReady, OnJniWorker
  <2>4. /\ readies' \in 0 .. MaxReady /\ 1 .. readies \subseteq 1 .. readies'
        /\ 0 .. readies \subseteq 0 .. readies'
        /\ work.type = "ready" /\ work.invoker \in 1 .. readies'
    BY <2>1, BridgeAssumption DEF Ready
  <2>5. QED
    BY <1>2, <2>3, <2>4 DEF BridgeReady
<1>3. ASSUME NEW name \in EventName, NEW args \in Args, SendEvent(name, args)
      PROVE  QueuesInv'
  <2> DEFINE work == [type |-> "event", name |-> name, args |-> args, told |-> told,
                      serial |-> events + 1]
  <2>1. work \in MainWork
    BY DEF MainWork, Event
  <2>2. main' \in Seq(MainWork) /\ ToSet(main') = ToSet(main) \cup {work}
    BY <1>3, <2>1, AppendToSet DEF SendEvent, OnMainWorker
  <2>3. QED
    BY <1>3, <2>2 DEF SendEvent
<1>4. ASSUME NEW c \in held, SendResponse(c)
      PROVE  QueuesInv'
  <2>1. Response(c) \in MainWork
    BY DEF MainWork, Response
  <2>2. main' \in Seq(MainWork) /\ ToSet(main') = ToSet(main) \cup {Response(c)}
    BY <1>4, <2>1, AppendToSet DEF SendResponse, OnMainWorker
  <2>3. QED
    BY <1>4, <2>2 DEF SendResponse, Response
<1>5. ASSUME OnLoad \/ ReplaceInvokers \/ PassCommand
      PROVE  /\ Head(jni) \in JniWork /\ jni' \in Seq(JniWork)
             /\ ToSet(jni) = ToSet(jni') \cup {Head(jni)}
  <2>1. jni \in Seq(JniWork) /\ jni # <<>> /\ jni' = Tail(jni)
    BY <1>5 DEF OnLoad, ReplaceInvokers, PassCommand, Fetch, JniTask
  <2> HIDE DEF QueuesInv
  <2>2. QED
    BY <2>1, TailToSet
<1>6. CASE OnLoad
  BY <1>5, <1>6, BridgeAssumption DEF OnLoad, Fetch
<1>7. CASE ReplaceInvokers
  <2> DEFINE i == Head(jni).invoker
  <2>1. i \in 1 .. readies /\ i \in 1 .. MaxReady
    BY <1>5, <1>7 DEF ReplaceInvokers, Fetch, JniTask, JniWork, Attach
  <2>2. Start(i) \in MainWork
    BY <2>1 DEF MainWork, Start
  <2>3. main' \in Seq(MainWork) /\ ToSet(main') = ToSet(main) \cup {Start(i)}
    BY <1>7, <2>2, AppendToSet DEF ReplaceInvokers, OnMainWorker
  <2>4. i \in 0 .. readies /\ i # 0 /\ Start(i).invoker = i
    BY <2>1 DEF Start
  <2>5. QED
    BY <1>5, <1>7, <2>1, <2>3, <2>4, BridgeAssumption DEF ReplaceInvokers, Fetch
<1>8. CASE PassCommand
  <2>1. Head(jni).command \in Command /\ Head(jni).invoker \in 1 .. MaxReady
    BY <1>5, <1>8 DEF PassCommand, Fetch, JniTask, JniWork, Attach
  <2>2. kept' \in 0 .. MaxReady
    BY <1>8, <2>1, BridgeAssumption DEF PassCommand, Fetch
  <2>3. QED
    BY <1>5, <1>8, <2>1, <2>2 DEF PassCommand, Fetch
<1>9. ASSUME ControllerStart \/ SwitchToIdle \/ OnEvent \/ OnCommandResponse
      PROVE  /\ Head(main) \in MainWork /\ Tail(main) \in Seq(MainWork)
             /\ ToSet(main) = ToSet(Tail(main)) \cup {Head(main)}
  BY <1>9, TailToSet DEF ControllerStart, SwitchToIdle, OnEvent, OnCommandResponse, MainTask
<1>10. CASE ControllerStart
  <2>1. Switch \in MainWork /\ Switch.type = "switch"
    BY DEF MainWork, Switch
  <2>2. /\ Append(Tail(main), Switch) \in Seq(MainWork)
        /\ ToSet(Append(Tail(main), Switch)) = ToSet(Tail(main)) \cup {Switch}
    <3> DEFINE rest == Tail(main)
    <3>1. rest \in Seq(MainWork)
      BY <1>9, <1>10
    <3> HIDE DEF rest, QueuesInv
    <3>2. /\ Append(rest, Switch) \in Seq(MainWork)
          /\ ToSet(Append(rest, Switch)) = ToSet(rest) \cup {Switch}
      BY <2>1, <3>1, AppendToSet
    <3>3. QED
      BY <3>2 DEF rest
  <2>3. main' \in Seq(MainWork) /\ ToSet(main') \subseteq ToSet(main) \cup {Switch}
    BY <1>9, <1>10, <2>2 DEF ControllerStart
  <2>4. Head(main) \in ToSet(main) /\ Head(main).type = "start"
    BY <1>9, <1>10 DEF ControllerStart, MainTask
  <2>5. Head(main).invoker \in 1 .. readies /\ invoker # 0
    BY <2>4
  <2>6. manager' \in 0 .. readies
    BY <1>10, <2>5 DEF ControllerStart
  <2>7. QED
    BY <1>10, <2>1, <2>3, <2>5, <2>6 DEF ControllerStart
<1>11. CASE SwitchToIdle \/ OnCommandResponse
  BY <1>9, <1>11 DEF SwitchToIdle, OnCommandResponse
<1>12. CASE OnEvent
  <2>1. Head(main) \in Event
    BY <1>9, <1>12 DEF OnEvent, MainTask, MainWork, Switch
  <2>2. \A e \in Event : e.serial \in Nat
    BY DEF Event
  <2>3. heard' \subseteq Nat
    BY <1>12, <2>1, <2>2 DEF OnEvent
  <2>4. QED
    BY <1>9, <1>12, <2>3 DEF OnEvent
<1>13. ASSUME NEW b \in Base, NEW id \in Nat, NEW t \in Task \cup {NoTask}, Invoke(t, b, id)
       PROVE  QueuesInv'
  <2> DEFINE c == [id |-> id, base |-> b, serial |-> serial + 1]
  <2>1. c \in Command
    BY IdAssumption DEF Command, IInv, RegInv, TypeOK
  <2>2. manager \in 1 .. MaxReady
    BY <1>13, BridgeAssumption DEF Invoke, InvokerLives
  <2>3. Pass(c, manager) \in JniWork /\ Pass(c, manager).type = "pass"
    BY <2>1, <2>2 DEF JniWork, Pass
  <2>4. jni' \in Seq(JniWork) /\ ToSet(jni') = ToSet(jni) \cup {Pass(c, manager)}
    BY <1>13, <2>3, AppendToSet DEF Invoke, OnJniWorker
  <2>5. issuing' \subseteq [awaiter : Task \cup {NoTask}, command : Command]
    BY <1>13, <2>1 DEF Invoke
  <2>6. QED
    BY <1>13, <2>3, <2>4, <2>5 DEF Invoke
<1>14. CASE Invoked
  BY <1>14 DEF Invoked
<1>15. QED
  BY <1>1, <1>2, <1>3, <1>4, <1>6, <1>7, <1>8, <1>10, <1>11, <1>12, <1>13, <1>14, StepCases

-----------------------------------------------------------------------------
(* Events find a state.                                                      *)

LEMMA ToldStep ==
  ASSUME QueuesInv, ToldInv, [BridgeNext]_allvars
  PROVE  ToldInv'
<1>1. CASE UNCHANGED allvars \/ Aside \/ Switched \/ Invoked
  BY <1>1 DEF allvars, transport, Aside, Switched, Invoked, ToldInv, Passing
<1>2. CASE BridgeReady
  <2>1. ToSet(jni') = ToSet(jni) \cup {Ready(readies + 1)}
    BY <1>2, Appended DEF BridgeReady, OnJniWorker, QueuesInv
  <2>2. Passing' = Passing
    BY <2>1 DEF Passing, Ready
  <2>3. QED
    BY <1>2, <2>2 DEF BridgeReady, ToldInv
<1>3. ASSUME NEW name \in EventName, NEW args \in Args, SendEvent(name, args)
      PROVE  ToldInv'
  <2> DEFINE work == [type |-> "event", name |-> name, args |-> args, told |-> told,
                      serial |-> events + 1]
  <2>1. ToSet(main') = ToSet(main) \cup {work} /\ (work.told => told)
    BY <1>3, Appended DEF SendEvent, OnMainWorker, QueuesInv
  <2>2. Passing' = Passing /\ told' = told /\ state' = state
    BY <1>3 DEF SendEvent, Passing
  <2> HIDE DEF work
  <2>3. QED
    BY <2>1, <2>2 DEF ToldInv
<1>4. ASSUME NEW c \in held, SendResponse(c)
      PROVE  ToldInv'
  <2>1. ToSet(main') = ToSet(main) \cup {Response(c)}
    BY <1>4, Appended DEF SendResponse, OnMainWorker, QueuesInv
  <2>2. QED
    BY <1>4, <2>1 DEF SendResponse, Response, ToldInv, Passing
<1>5. ASSUME OnLoad \/ ReplaceInvokers \/ PassCommand
      PROVE  Head(jni) \in ToSet(jni) /\ Passing' \subseteq Passing
  <2>1. jni \in Seq(JniWork) /\ jni # <<>> /\ jni' = Tail(jni)
    BY <1>5 DEF OnLoad, ReplaceInvokers, PassCommand, Fetch, JniTask, QueuesInv
  <2>2. ToSet(jni) = ToSet(jni') \cup {Head(jni)}
    BY <2>1, TailToSet
  <2>3. QED
    BY <2>2 DEF Passing
<1>6. CASE OnLoad
  BY <1>5, <1>6 DEF OnLoad, ToldInv
<1>7. CASE ReplaceInvokers
  <2>1. ToSet(main') = ToSet(main) \cup {Start(Head(jni).invoker)}
    BY <1>7, Appended DEF ReplaceInvokers, OnMainWorker, QueuesInv
  <2>2. QED
    BY <1>5, <1>7, <2>1 DEF ReplaceInvokers, Start, ToldInv
<1>8. CASE PassCommand
  <2>1. state # "none"
    BY <1>5, <1>8 DEF PassCommand, Fetch, JniTask, Passing, ToldInv
  <2>2. QED
    BY <1>8, <2>1 DEF PassCommand, ToldInv
<1>9. ASSUME ControllerStart \/ SwitchToIdle \/ OnEvent \/ OnCommandResponse
      PROVE  ToSet(main') \subseteq ToSet(main) \cup {Switch}
  <2>1. main \in Seq(MainWork) /\ main # <<>>
    BY <1>9 DEF ControllerStart, SwitchToIdle, OnEvent, OnCommandResponse, MainTask,
                QueuesInv
  <2>2. Tail(main) \in Seq(MainWork) /\ ToSet(Tail(main)) \subseteq ToSet(main)
    BY <2>1, TailToSet
  <2>3. ToSet(Append(Tail(main), Switch)) = ToSet(Tail(main)) \cup {Switch}
    BY <2>2, Appended
  <2>4. QED
    BY <1>9, <2>2, <2>3 DEF ControllerStart, SwitchToIdle, OnEvent, OnCommandResponse
<1>10. CASE ControllerStart \/ SwitchToIdle \/ OnEvent \/ OnCommandResponse
  BY <1>9, <1>10
     DEF ControllerStart, SwitchToIdle, OnEvent, OnCommandResponse, Switch, ToldInv, Passing
<1>11. ASSUME NEW b \in Base, NEW id \in Nat, NEW t \in Task \cup {NoTask}, Invoke(t, b, id)
       PROVE  ToldInv'
  BY <1>11 DEF Invoke, ToldInv
<1>12. QED
  BY <1>1, <1>2, <1>3, <1>4, <1>6, <1>7, <1>8, <1>10, <1>11, StepCases

(* The tasks that leave the main worker's queue are run. *)
LEMMA HeardStep ==
  ASSUME QueuesInv, ToldInv, [BridgeNext]_allvars,
         NEW e \in ToSet(main) \ ToSet(main'),
         e.type = "event", e.told, Parsed(e), state # "left"
  PROVE  e.serial \in heard'
<1>1. ASSUME NEW x, main' = Append(main, x)
      PROVE  FALSE
  BY <1>1, Appended DEF QueuesInv
<1>2. ASSUME ControllerStart \/ SwitchToIdle \/ OnEvent \/ OnCommandResponse
      PROVE  e = Head(main)
  <2>1. main \in Seq(MainWork) /\ main # <<>>
    BY <1>2 DEF ControllerStart, SwitchToIdle, OnEvent, OnCommandResponse, MainTask,
                QueuesInv
  <2>2. /\ Tail(main) \in Seq(MainWork)
        /\ ToSet(main) = ToSet(Tail(main)) \cup {Head(main)}
    BY <2>1, TailToSet
  <2>3. ToSet(Append(Tail(main), Switch)) = ToSet(Tail(main)) \cup {Switch}
    BY <2>2, Appended
  <2>4. QED
    BY <1>2, <2>2, <2>3 DEF ControllerStart, SwitchToIdle, OnEvent, OnCommandResponse
<1>3. CASE OnEvent
  <2>1. state = "some"
    BY <1>3 DEF OnEvent, Between, QueuesInv, ToldInv
  <2>2. QED
    BY <1>2, <1>3, <2>1 DEF OnEvent
<1>4. CASE ControllerStart \/ SwitchToIdle \/ OnCommandResponse
  BY <1>2, <1>4 DEF ControllerStart, SwitchToIdle, OnCommandResponse, MainTask
<1>5. CASE main' = main
  BY <1>5
<1>6. QED
  BY <1>1, <1>3, <1>4, <1>5, StepCases
     DEF allvars, transport, Aside, BridgeReady, SendEvent, SendResponse, OnMainWorker,
         OnLoad, ReplaceInvokers, PassCommand, Switched, Invoke, Invoked

-----------------------------------------------------------------------------
(* Commands between the workers and Java.                                    *)

CommandsOf(queue, type) == {work.command : work \in {w \in ToSet(queue) : w.type = type}}

Once(queue, type) ==
  \A i, j \in DOMAIN queue :
    /\ queue[i].type = type /\ queue[j].type = type
    /\ queue[i].command = queue[j].command
    => i = j

LEMMA OnceAppend ==
  ASSUME NEW S, NEW queue \in Seq(S), NEW x \in S, NEW type, Once(queue, type),
         x.type = type => x.command \notin CommandsOf(queue, type)
  PROVE  Once(Append(queue, x), type)
<1> DEFINE n      == Len(queue)
           longer == Append(queue, x)
<1>1. /\ n \in Nat /\ DOMAIN queue = 1 .. n /\ DOMAIN longer = 1 .. n + 1
      /\ \A i \in 1 .. n : longer[i] = queue[i]
      /\ longer[n + 1] = x
  OBVIOUS
<1> HIDE DEF n, longer
<1>2. SUFFICES ASSUME NEW i \in 1 .. n + 1, NEW j \in 1 .. n + 1,
                      longer[i].type = type, longer[j].type = type,
                      longer[i].command = longer[j].command, i # j
               PROVE  FALSE
  BY <1>1 DEF Once, longer
<1>3. ASSUME NEW k \in 1 .. n, queue[k].type = type, x.type = type
      PROVE  queue[k].command # x.command
  BY <1>1, <1>3 DEF CommandsOf, ToSet
<1>4. (i \in 1 .. n \/ i = n + 1) /\ (j \in 1 .. n \/ j = n + 1)
  BY <1>1
<1>5. QED
  BY <1>1, <1>2, <1>3, <1>4 DEF Once

LEMMA OnceTail ==
  ASSUME NEW S, NEW queue \in Seq(S), queue # <<>>, NEW type, Once(queue, type)
  PROVE  /\ Once(Tail(queue), type)
         /\ Head(queue).type = type =>
              Head(queue).command \notin CommandsOf(Tail(queue), type)
<1> DEFINE n    == Len(queue)
           rest == Tail(queue)
<1>1. /\ n \in Nat \ {0} /\ DOMAIN queue = 1 .. n /\ DOMAIN rest = 1 .. n - 1
      /\ \A i \in 1 .. n - 1 : rest[i] = queue[i + 1]
      /\ Head(queue) = queue[1]
  OBVIOUS
<1> HIDE DEF n, rest
<1>2. \A i \in 1 .. n - 1 : i + 1 \in 1 .. n /\ i + 1 # 1
  BY <1>1
<1>3. Once(rest, type)
  <2>1. SUFFICES ASSUME NEW i \in 1 .. n - 1, NEW j \in 1 .. n - 1,
                        rest[i].type = type, rest[j].type = type,
                        rest[i].command = rest[j].command
                 PROVE  i = j
    BY <1>1 DEF Once
  <2>2. i + 1 = j + 1
    BY <1>1, <1>2, <2>1 DEF Once
  <2>3. QED
    BY <2>2
<1>4. ASSUME Head(queue).type = type, Head(queue).command \in CommandsOf(rest, type)
      PROVE  FALSE
  <2>1. PICK i \in 1 .. n - 1 : rest[i].type = type /\ rest[i].command = Head(queue).command
    BY <1>1, <1>4 DEF CommandsOf, ToSet
  <2>2. i + 1 = 1
    BY <1>1, <1>2, <1>4, <2>1 DEF Once
  <2>3. QED
    BY <2>2
<1>5. QED
  BY <1>3, <1>4 DEF rest

LEMMA FiniteQueue ==
  ASSUME NEW S, NEW queue \in Seq(S)
  PROVE  IsFiniteSet(ToSet(queue))
<1>1. /\ Len(queue) \in Nat /\ DOMAIN queue = 1 .. Len(queue)
      /\ queue \in [1 .. Len(queue) -> ToSet(queue)]
  BY DEF ToSet
<1>2. queue \in Surjection(1 .. Len(queue), ToSet(queue))
  BY <1>1 DEF Surjection, ToSet
<1>3. IsFiniteSet(1 .. Len(queue))
  BY <1>1, FS_Interval
<1>4. QED
  BY <1>2, <1>3, FS_Surjection

(* Commands do not occur twice, so there are as many as tasks that pass them. *)
LEMMA OncePerTask ==
  ASSUME NEW S, NEW queue \in Seq(S), NEW type, Once(queue, type)
  PROVE  LET tasks == {w \in ToSet(queue) : w.type = type}
         IN  /\ IsFiniteSet(tasks) /\ IsFiniteSet(CommandsOf(queue, type))
             /\ Cardinality(tasks) = Cardinality(CommandsOf(queue, type))
<1> DEFINE tasks == {w \in ToSet(queue) : w.type = type}
           cmds  == CommandsOf(queue, type)
           f     == [w \in tasks |-> w.command]
<1>1. IsFiniteSet(tasks)
  BY FiniteQueue, FS_Subset
<1>2. f \in Surjection(tasks, cmds)
  BY DEF Surjection, CommandsOf
<1>3. \A v, w \in tasks : v.command = w.command => v = w
  BY DEF Once, ToSet
<1>4. f \in Injection(tasks, cmds)
  BY <1>2, <1>3 DEF Surjection, Injection, IsInjective
<1> HIDE DEF tasks, cmds, f
<1>5. QED
  BY <1>1, <1>2, <1>4, FS_Surjection DEF tasks, cmds

(***************************************************************************)
(* Each command Java has not answered, and the one Invoke is being called   *)
(* with, is in one queue or held by Java, once.                             *)
(***************************************************************************)
TransitInv ==
  LET passing    == CommandsOf(jni, "pass")
      responding == CommandsOf(main, "response")
  IN /\ Once(jni, "pass") /\ Once(main, "response")
     /\ IsFiniteSet(held)
     /\ passing \cap held = {} /\ passing \cap responding = {} /\ held \cap responding = {}
     /\ passing \cup held \cup responding = java \cup {call.command : call \in issuing}
     /\ \A c \in java : c.serial <= serial
     /\ issuing = {} \/ \E call : issuing = {call}
     /\ java \cup issuing # {} => manager # 0

LEMMA CommandsAppended ==
  ASSUME NEW S, NEW queue \in Seq(S), NEW x, NEW type
  PROVE  CommandsOf(Append(queue, x), type) =
           CommandsOf(queue, type) \cup (IF x.type = type THEN {x.command} ELSE {})
BY Appended DEF CommandsOf

LEMMA OnceAppended ==
  ASSUME NEW S, NEW queue \in Seq(S), NEW x, NEW type, Once(queue, type),
         x.type = type => x.command \notin CommandsOf(queue, type)
  PROVE  Once(Append(queue, x), type)
<1>1. queue \in Seq(S \cup {x})
  OBVIOUS
<1>2. QED
  BY <1>1, OnceAppend

LEMMA CommandsTail ==
  ASSUME NEW S, NEW queue \in Seq(S), queue # <<>>, NEW type
  PROVE  /\ Tail(queue) \in Seq(S)
         /\ CommandsOf(queue, type) = CommandsOf(Tail(queue), type) \cup
              (IF Head(queue).type = type THEN {Head(queue).command} ELSE {})
BY TailToSet DEF CommandsOf

(***************************************************************************)
(* Once a command has been taken out of a queue, it is no longer there.     *)
(***************************************************************************)
LEMMA OnceTaken ==
  ASSUME NEW S, NEW queue \in Seq(S), queue # <<>>, NEW type, Once(queue, type)
  PROVE  /\ Once(Tail(queue), type)
         /\ CommandsOf(Tail(queue), type) = CommandsOf(queue, type) \
              (IF Head(queue).type = type THEN {Head(queue).command} ELSE {})
BY OnceTail, CommandsTail

LEMMA OtherAppended ==
  ASSUME NEW S, NEW queue \in Seq(S), NEW x, NEW type, Once(queue, type), x.type # type
  PROVE  /\ Once(Append(queue, x), type)
         /\ CommandsOf(Append(queue, x), type) = CommandsOf(queue, type)
<1>1. Once(Append(queue, x), type)
  BY OnceAppended
<1>2. CommandsOf(Append(queue, x), type) = CommandsOf(queue, type)
  BY Appended DEF CommandsOf
<1>3. QED
  BY <1>1, <1>2

LEMMA OtherTaken ==
  ASSUME NEW S, NEW queue \in Seq(S), queue # <<>>, NEW type, Once(queue, type),
         Head(queue).type # type
  PROVE  /\ Once(Tail(queue), type)
         /\ CommandsOf(Tail(queue), type) = CommandsOf(queue, type)
<1>1. Once(Tail(queue), type)
  BY OnceTail
<1>2. CommandsOf(Tail(queue), type) = CommandsOf(queue, type)
  BY TailToSet DEF CommandsOf
<1>3. QED
  BY <1>1, <1>2

(* The queues' tasks that carry no command do not matter. *)
LEMMA TransitKept ==
  ASSUME TransitInv,
         Once(jni', "pass") /\ CommandsOf(jni', "pass") = CommandsOf(jni, "pass"),
         Once(main', "response") /\ CommandsOf(main', "response") = CommandsOf(main, "response"),
         UNCHANGED <<held, issuing, java, serial>>,
         manager # 0 => manager' # 0
  PROVE  TransitInv'
BY DEF TransitInv

LEMMA TransitStep ==
  ASSUME IInv, IssuingInv, QueuesInv, TransitInv, [BridgeNext]_allvars
  PROVE  TransitInv'
<1> DEFINE P == CommandsOf(jni, "pass")
           R == CommandsOf(main, "response")
<1>1. /\ jni \in Seq(JniWork) /\ main \in Seq(MainWork)
      /\ Once(jni, "pass") /\ Once(main, "response")
      /\ P \cap held = {} /\ P \cap R = {} /\ held \cap R = {}
      /\ P \cup held \cup R = java \cup {call.command : call \in issuing}
      /\ IsFiniteSet(held)
  BY DEF QueuesInv, TransitInv
<1>2. CASE UNCHANGED allvars \/ Aside \/ Switched
  BY <1>1, <1>2, TransitKept DEF allvars, transport, vars, Aside, Switched
<1>3. CASE BridgeReady
  <2>1. /\ jni' = Append(jni, Ready(readies + 1)) /\ Ready(readies + 1).type = "ready"
        /\ UNCHANGED <<main, held, issuing, java, serial, manager>>
    BY <1>3 DEF BridgeReady, OnJniWorker, Ready, vars
  <2>2. QED
    BY <1>1, <2>1, OtherAppended, TransitKept
<1>4. ASSUME NEW name \in EventName, NEW args \in Args, SendEvent(name, args)
      PROVE  TransitInv'
  <2>1. PICK x : main' = Append(main, x) /\ x.type = "event"
    BY <1>4 DEF SendEvent, OnMainWorker
  <2>2. UNCHANGED <<jni, held, issuing, java, serial, manager>>
    BY <1>4 DEF SendEvent, vars
  <2>3. QED
    BY <1>1, <2>1, <2>2, OtherAppended, TransitKept
<1>5. ASSUME NEW c \in held, SendResponse(c)
      PROVE  TransitInv'
  <2>1. /\ main' = Append(main, Response(c)) /\ held' = held \ {c}
        /\ UNCHANGED <<jni, issuing, java, serial, manager>>
    BY <1>5 DEF SendResponse, OnMainWorker, vars
  <2>2. Response(c).type = "response" /\ Response(c).command = c
    BY DEF Response
  <2>3. /\ CommandsOf(main', "response") = R \cup {c}
        /\ Once(main', "response")
    BY <1>1, <2>1, <2>2, CommandsAppended, OnceAppended
  <2>4. IsFiniteSet(held')
    BY <1>1, <2>1, FS_Subset
  <2>5. QED
    BY <1>1, <2>1, <2>3, <2>4 DEF TransitInv
<1>6. CASE OnLoad \/ ReplaceInvokers
  <2>1. /\ jni # <<>> /\ jni' = Tail(jni) /\ Head(jni).type # "pass"
        /\ UNCHANGED <<held, issuing, java, serial, manager>>
    BY <1>6 DEF OnLoad, ReplaceInvokers, Fetch, JniTask, vars
  <2>2. main' = main \/ \E x : main' = Append(main, x) /\ x.type = "start"
    BY <1>6 DEF OnLoad, ReplaceInvokers, OnMainWorker, Start
  <2>3. Once(main', "response") /\ CommandsOf(main', "response") = R
    <3>1. CASE main' = main
      BY <1>1, <3>1
    <3>2. ASSUME NEW x, main' = Append(main, x), x.type = "start"
          PROVE  Once(main', "response") /\ CommandsOf(main', "response") = R
      BY <1>1, <3>2, OtherAppended
    <3>3. QED
      BY <2>2, <3>1, <3>2
  <2>4. Once(jni', "pass") /\ CommandsOf(jni', "pass") = P
    BY <1>1, <2>1, OtherTaken
  <2>5. QED
    BY <2>1, <2>3, <2>4, TransitKept
<1>7. CASE PassCommand
  <2> DEFINE c == Head(jni).command
  <2>1. /\ jni # <<>> /\ jni' = Tail(jni) /\ Head(jni).type = "pass"
        /\ held' = held \cup {c}
        /\ UNCHANGED <<main, issuing, java, serial, manager>>
    BY <1>7 DEF PassCommand, Fetch, JniTask, vars
  <2>2. Once(jni', "pass") /\ CommandsOf(jni', "pass") = P \ {c}
    BY <1>1, <2>1, OnceTaken
  <2>3. c \in P
    BY <1>1, <2>1, CommandsTail
  <2>4. IsFiniteSet(held')
    BY <1>1, <2>1, FS_AddElement
  <2>5. /\ (P \ {c}) \cap held' = {} /\ (P \ {c}) \cap R = {} /\ held' \cap R = {}
        /\ (P \ {c}) \cup held' \cup R = P \cup held \cup R
    <3> HIDE DEF P, R, c
    <3>1. QED
      BY <1>1, <2>1, <2>3
  <2>6. java' \cup {call.command : call \in issuing'} = P \cup held \cup R
    BY <1>1, <2>1
  <2>7. Once(main', "response") /\ CommandsOf(main', "response") = R
    BY <1>1, <2>1
  <2>8. QED
    BY <2>1, <2>2, <2>4, <2>5, <2>6, <2>7 DEF TransitInv
<1>8. CASE ControllerStart
  <2>1. /\ main # <<>> /\ Head(main).type # "response" /\ Switch.type # "response"
        /\ UNCHANGED <<jni, held, issuing, java, serial>>
        /\ main' = Tail(main) \/ main' = Append(Tail(main), Switch)
        /\ manager # 0 => manager' # 0
    BY <1>8 DEF ControllerStart, MainTask, vars, Switch
  <2>2. /\ Tail(main) \in Seq(MainWork) /\ Once(Tail(main), "response")
        /\ CommandsOf(Tail(main), "response") = R
    BY <1>1, <2>1, OtherTaken, TailToSet
  <2> DEFINE rest == Tail(main)
  <2>3. Once(main', "response") /\ CommandsOf(main', "response") = R
    <3>1. /\ rest \in Seq(MainWork) /\ Once(rest, "response")
          /\ CommandsOf(rest, "response") = R
          /\ main' = rest \/ main' = Append(rest, Switch)
      BY <2>1, <2>2
    <3> HIDE DEF rest, R
    <3>2. /\ Once(Append(rest, Switch), "response")
          /\ CommandsOf(Append(rest, Switch), "response") = R
      BY <2>1, <3>1, OtherAppended
    <3>3. QED
      BY <3>1, <3>2
  <2>4. QED
    BY <1>1, <2>1, <2>3, TransitKept
<1>9. CASE SwitchToIdle \/ OnEvent
  <2>1. /\ main # <<>> /\ Head(main).type # "response" /\ main' = Tail(main)
        /\ UNCHANGED <<jni, held, issuing, java, serial, manager>>
    BY <1>9 DEF SwitchToIdle, OnEvent, MainTask, vars
  <2>2. QED
    BY <1>1, <2>1, OtherTaken, TransitKept
<1>10. CASE OnCommandResponse
  <2> DEFINE c == Head(main).command
  <2>1. /\ main # <<>> /\ main' = Tail(main) /\ Head(main).type = "response"
        /\ issuing = {} /\ UNCHANGED <<jni, held, issuing, manager>>
    BY <1>10 DEF OnCommandResponse, MainTask, Between
  <2>2. Once(main', "response") /\ CommandsOf(main', "response") = R \ {c}
    BY <1>1, <2>1, OnceTaken
  <2>3. c \in R
    BY <1>1, <2>1, CommandsTail
  <2>4. c \in java /\ manager # 0
    BY <1>1, <2>1, <2>3 DEF TransitInv
  <2>5. java' = java \ {c} /\ serial' = serial
    BY <1>10, <2>4 DEF OnCommandResponse, Answer, AnswerIgnored, SubmitResponse
  <2>6. QED
    BY <1>1, <2>1, <2>2, <2>3, <2>4, <2>5 DEF TransitInv
<1>11. ASSUME NEW b \in Base, NEW id \in Nat, NEW t \in Task \cup {NoTask}, Invoke(t, b, id)
       PROVE  TransitInv'
  <2> DEFINE c    == [id |-> id, base |-> b, serial |-> serial + 1]
             call == [awaiter |-> t, command |-> c]
  <2>1. /\ issuing = {} /\ issuing' = {call} /\ manager # 0
        /\ jni' = Append(jni, Pass(c, manager))
        /\ UNCHANGED <<main, held, java, serial, manager>>
    BY <1>11 DEF Invoke, InvokerLives, OnJniWorker, vars
  <2>2. Pass(c, manager).type = "pass" /\ Pass(c, manager).command = c
    BY DEF Pass
  <2>3. c \notin java
    <3>1. serial \in Nat /\ c.serial = serial + 1
      BY DEF IInv, RegInv, TypeOK
    <3>2. \A d \in java : d.serial # serial + 1
      BY <3>1 DEF TransitInv, IInv, RegInv, TypeOK, Command
    <3>3. QED
      BY <3>1, <3>2
  <2>4. c \notin P \cup held \cup R
    BY <1>1, <2>1, <2>3
  <2> HIDE DEF c
  <2>5. Once(jni', "pass") /\ CommandsOf(jni', "pass") = P \cup {c}
    BY <1>1, <2>1, <2>2, <2>4, CommandsAppended, OnceAppended
  <2>6. {x.command : x \in issuing} = {} /\ {x.command : x \in issuing'} = {c}
    BY <2>1
  <2>7. /\ (P \cup {c}) \cap held = {} /\ (P \cup {c}) \cap R = {}
        /\ (P \cup {c}) \cup held \cup R = java \cup {c}
    <3> HIDE DEF P, R
    <3>1. QED
      BY <1>1, <2>4, <2>6
  <2>8. Once(main', "response") /\ CommandsOf(main', "response") = R
    BY <1>1, <2>1
  <2>9. QED
    BY <1>1, <2>1, <2>5, <2>6, <2>7, <2>8 DEF TransitInv
<1>12. CASE Invoked
  <2>1. PICK call \in issuing :
          LET c == call.command
          IN IF call.awaiter = NoTask THEN IssueDetached(c.base, c.id)
             ELSE IssueAndAwait(call.awaiter, c.base, c.id)
    BY <1>12 DEF Invoked
  <2> DEFINE c == call.command
  <2>2. c = [id |-> c.id, base |-> c.base, serial |-> serial + 1]
    BY DEF QueuesInv, IssuingInv, Command
  <2>3. java' = java \cup {c} /\ serial' = serial + 1 /\ c.serial = serial + 1
    BY <2>1, <2>2 DEF IssueDetached, IssueAndAwait, Issue
  <2>4. issuing = {call} /\ issuing' = {} /\ UNCHANGED <<jni, main, held, manager>>
    BY <1>12 DEF Invoked, TransitInv
  <2>5. \A d \in java' : d.serial <= serial'
    BY <2>3 DEF TransitInv, IInv, RegInv, TypeOK, Command
  <2>6. QED
    BY <1>1, <2>3, <2>4, <2>5 DEF TransitInv
<1>13. QED
  BY <1>2, <1>3, <1>4, <1>5, <1>6, <1>7, <1>8, <1>9, <1>10, <1>11, <1>12, StepCases

-----------------------------------------------------------------------------
(* The owners of the invokers.                                               *)

PassingOver(i) == {work \in Passing : work.invoker = i}

(***************************************************************************)
(* An invoker is shared by the Context, by each task of the JNI worker that *)
(* calls it, by the one it ran last and by the call of Invoke under way.    *)
(***************************************************************************)
RefsInv ==
  /\ refs \in [1 .. MaxReady -> Int]
  /\ \A i \in 1 .. MaxReady :
       refs[i] = (IF i = invoker THEN 1 ELSE 0) + Cardinality(PassingOver(i))
                 + (IF issuing # {} /\ i = manager THEN 1 ELSE 0)
                 + (IF i = kept THEN 1 ELSE 0)

LEMMA FinitePassing ==
  ASSUME QueuesInv
  PROVE  /\ IsFiniteSet(Passing)
         /\ \A i : IsFiniteSet(PassingOver(i)) /\ Cardinality(PassingOver(i)) \in Nat
<1>1. IsFiniteSet(ToSet(jni))
  BY FiniteQueue DEF QueuesInv
<1>2. IsFiniteSet(Passing)
  BY <1>1, FS_Subset DEF Passing
<1>3. ASSUME NEW i
      PROVE  IsFiniteSet(PassingOver(i)) /\ Cardinality(PassingOver(i)) \in Nat
  BY <1>2, FS_Subset, FS_CardinalityType DEF PassingOver
<1>4. QED
  BY <1>2, <1>3

LEMMA RefsStep ==
  ASSUME IInv, QueuesInv, TransitInv, RefsInv, [BridgeNext]_allvars
  PROVE  RefsInv'
<1>1. /\ jni \in Seq(JniWork) /\ Once(jni, "pass")
      /\ refs \in [1 .. MaxReady -> Int]
      /\ \A i : IsFiniteSet(PassingOver(i)) /\ Cardinality(PassingOver(i)) \in Nat
  BY FinitePassing DEF QueuesInv, TransitInv, RefsInv
<1>2. ASSUME UNCHANGED <<Passing, invoker, refs, kept>>, issuing' = issuing,
             manager' = manager \/ issuing = {}
      PROVE  RefsInv'
  <2>1. \A i : PassingOver(i)' = PassingOver(i)
    BY <1>2 DEF PassingOver
  <2>2. QED
    BY <1>2, <2>1 DEF RefsInv
<1>3. CASE UNCHANGED allvars \/ Aside \/ Switched \/ (\E c \in held : SendResponse(c))
           \/ (\E name \in EventName, args \in Args : SendEvent(name, args))
           \/ ControllerStart \/ SwitchToIdle \/ OnEvent \/ OnCommandResponse
  BY <1>2, <1>3
     DEF allvars, transport, Aside, Switched, SendEvent, SendResponse, ControllerStart,
         SwitchToIdle, OnEvent, OnCommandResponse, Between, Passing
<1>4. CASE BridgeReady
  <2>1. ToSet(jni') = ToSet(jni) \cup {Ready(readies + 1)}
    BY <1>1, <1>4, Appended DEF BridgeReady, OnJniWorker
  <2>2. Passing' = Passing
    BY <2>1 DEF Passing, Ready
  <2>3. QED
    BY <1>2, <1>4, <2>2 DEF BridgeReady
<1>5. ASSUME OnLoad \/ ReplaceInvokers \/ PassCommand
      PROVE  /\ Head(jni) \in JniWork /\ ToSet(jni) = ToSet(jni') \cup {Head(jni)}
             /\ jni # <<>> /\ jni' = Tail(jni)
  <2>1. jni # <<>> /\ jni' = Tail(jni)
    BY <1>5 DEF OnLoad, ReplaceInvokers, PassCommand, Fetch, JniTask
  <2>2. QED
    BY <1>1, <2>1, TailToSet
<1> DEFINE less == Fetched
<1>12. /\ less \in [1 .. MaxReady -> Int]
       /\ \A j \in 1 .. MaxReady : less[j] = IF j = kept THEN refs[j] + (0 - 1) ELSE refs[j]
  BY <1>1 DEF Fetched, Owned
<1>13. ASSUME NEW j \in 1 .. MaxReady
       PROVE  /\ less[j] \in Int /\ Cardinality(PassingOver(j)) \in Nat
              /\ less[j] = (IF j = invoker THEN 1 ELSE 0) + Cardinality(PassingOver(j))
                           + (IF issuing # {} /\ j = manager THEN 1 ELSE 0)
  <2>1. refs[j] = (IF j = invoker THEN 1 ELSE 0) + Cardinality(PassingOver(j))
                  + (IF issuing # {} /\ j = manager THEN 1 ELSE 0)
                  + (IF j = kept THEN 1 ELSE 0)
    BY DEF RefsInv
  <2>2. refs[j] \in Int /\ Cardinality(PassingOver(j)) \in Nat
    BY <1>1
  <2> HIDE DEF less
  <2>3. QED
    BY <1>12, <2>1, <2>2
<1>6. CASE OnLoad
  <2>1. Passing' = Passing
    BY <1>5, <1>6 DEF OnLoad, Fetch, JniTask, Passing
  <2>2. \A j : PassingOver(j)' = PassingOver(j)
    BY <2>1 DEF PassingOver
  <2>3. refs' = less /\ kept' = 0 /\ UNCHANGED <<invoker, issuing, manager>>
    BY <1>6 DEF OnLoad, Fetch
  <2> HIDE DEF less
  <2>4. ASSUME NEW j \in 1 .. MaxReady
        PROVE  refs'[j] = (IF j = invoker' THEN 1 ELSE 0) + Cardinality(PassingOver(j)')
                          + (IF issuing' # {} /\ j = manager' THEN 1 ELSE 0)
                          + (IF j = kept' THEN 1 ELSE 0)
    BY <1>13, <2>2, <2>3
  <2>5. QED
    BY <1>12, <2>3, <2>4 DEF RefsInv
<1>7. CASE ReplaceInvokers
  <2> DEFINE i    == Head(jni).invoker
             once == Owned(less, i, 1)
  <2>1. Passing' = Passing
    BY <1>5, <1>7 DEF ReplaceInvokers, Fetch, JniTask, Passing
  <2>2. \A j : PassingOver(j)' = PassingOver(j)
    BY <2>1 DEF PassingOver
  <2>3. /\ invoker' = i /\ refs' = Owned(once, invoker, 0 - 1) /\ kept' = 0
        /\ UNCHANGED <<issuing, manager>>
    BY <1>7 DEF ReplaceInvokers, Fetch
  <2> HIDE DEF less
  <2>4. /\ once \in [1 .. MaxReady -> Int]
        /\ \A j \in 1 .. MaxReady : once[j] = IF j = i THEN less[j] + 1 ELSE less[j]
    BY <1>12 DEF Owned
  <2> HIDE DEF once
  <2>5. /\ refs' \in [1 .. MaxReady -> Int]
        /\ \A j \in 1 .. MaxReady : refs'[j] = IF j = invoker THEN once[j] + (0 - 1) ELSE once[j]
    BY <2>3, <2>4 DEF Owned
  <2>6. ASSUME NEW j \in 1 .. MaxReady
        PROVE  refs'[j] - less[j] =
                 (IF j = i THEN 1 ELSE 0) - (IF j = invoker THEN 1 ELSE 0)
    BY <1>12, <2>4, <2>5
  <2>7. ASSUME NEW j \in 1 .. MaxReady
        PROVE  refs'[j] = (IF j = invoker' THEN 1 ELSE 0) + Cardinality(PassingOver(j)')
                          + (IF issuing' # {} /\ j = manager' THEN 1 ELSE 0)
                          + (IF j = kept' THEN 1 ELSE 0)
    <3>1. refs'[j] \in Int
      BY <2>5
    <3> HIDE DEF i
    <3>2. QED
      BY <1>13, <2>2, <2>3, <2>6, <3>1
  <2>8. QED
    BY <2>5, <2>7 DEF RefsInv
<1>8. CASE PassCommand
  <2> DEFINE work == Head(jni)
             i    == work.invoker
  <2>1. /\ work.type = "pass" /\ refs' = less /\ kept' = i
        /\ UNCHANGED <<invoker, issuing, manager>>
    BY <1>8 DEF PassCommand, Fetch, JniTask
  <2>2. work \in Passing /\ Passing' = Passing \ {work}
    <3>1. work.command \notin CommandsOf(jni', "pass")
      BY <1>1, <1>5, <1>8, <2>1, OnceTail
    <3>2. work \notin ToSet(jni')
      BY <2>1, <3>1 DEF CommandsOf
    <3>3. QED
      BY <1>5, <1>8, <2>1, <3>2 DEF Passing
  <2>3. ASSUME NEW j \in 1 .. MaxReady
        PROVE  Cardinality(PassingOver(j)) =
                 Cardinality(PassingOver(j)') + (IF j = i THEN 1 ELSE 0)
    <3>1. CASE j = i
      <4>1. PassingOver(j)' = PassingOver(j) \ {work} /\ work \in PassingOver(j)
        BY <2>2, <3>1 DEF PassingOver
      <4>2. Cardinality(PassingOver(j) \ {work}) = Cardinality(PassingOver(j)) - 1
        BY <1>1, <4>1, FS_RemoveElement
      <4> HIDE DEF work, i
      <4>3. (IF j = i THEN 1 ELSE 0) = 1
        BY <3>1
      <4>4. QED
        BY <1>1, <4>1, <4>2, <4>3
    <3>2. CASE j # i
      <4>1. PassingOver(j)' = PassingOver(j)
        BY <2>2, <3>2 DEF PassingOver
      <4>2. QED
        BY <1>1, <3>2, <4>1
    <3>3. QED
      BY <3>1, <3>2
  <2>4. \A j : IsFiniteSet(PassingOver(j)') /\ Cardinality(PassingOver(j)') \in Nat
    <3>1. \A j : PassingOver(j)' \subseteq PassingOver(j)
      BY <2>2 DEF PassingOver
    <3>2. QED
      BY <1>1, <3>1, FS_Subset, FS_CardinalityType
  <2> HIDE DEF less
  <2>5. ASSUME NEW j \in 1 .. MaxReady
        PROVE  refs'[j] = (IF j = invoker' THEN 1 ELSE 0) + Cardinality(PassingOver(j)')
                          + (IF issuing' # {} /\ j = manager' THEN 1 ELSE 0)
                          + (IF j = kept' THEN 1 ELSE 0)
    <3> HIDE DEF i
    <3>1. QED
      BY <1>13, <2>1, <2>3, <2>4
  <2>6. QED
    BY <1>12, <2>1, <2>5 DEF RefsInv
<1>9. ASSUME NEW b \in Base, NEW id \in Nat, NEW t \in Task \cup {NoTask}, Invoke(t, b, id)
      PROVE  RefsInv'
  <2> DEFINE c    == [id |-> id, base |-> b, serial |-> serial + 1]
             work == Pass(c, manager)
  <2>1. /\ issuing = {} /\ issuing' # {} /\ jni' = Append(jni, work)
        /\ refs' = Owned(refs, manager, 2) /\ UNCHANGED <<invoker, manager, kept>>
    BY <1>9 DEF Invoke, OnJniWorker
  <2>2. work.type = "pass" /\ work.command = c /\ work.invoker = manager
    BY DEF Pass
  <2>3. c \notin CommandsOf(jni, "pass")
    <3>1. serial \in Nat /\ c.serial = serial + 1
      BY DEF IInv, RegInv, TypeOK
    <3>2. \A d \in java : d.serial # serial + 1
      BY <3>1 DEF TransitInv, IInv, RegInv, TypeOK, Command
    <3>3. QED
      BY <2>1, <3>1, <3>2 DEF TransitInv
  <2> HIDE DEF work
  <2>4. work \notin Passing /\ Passing' = Passing \cup {work}
    BY <1>1, <2>1, <2>2, <2>3, Appended DEF Passing, CommandsOf
  <2>5. /\ refs' \in [1 .. MaxReady -> Int]
        /\ \A j \in 1 .. MaxReady : refs'[j] = IF j = manager THEN refs[j] + 2 ELSE refs[j]
    BY <1>1, <2>1 DEF Owned
  <2>6. ASSUME NEW j \in 1 .. MaxReady
        PROVE  Cardinality(PassingOver(j)') =
                 Cardinality(PassingOver(j)) + (IF j = manager THEN 1 ELSE 0)
    <3>1. CASE j = manager
      <4>1. PassingOver(j)' = PassingOver(j) \cup {work} /\ work \notin PassingOver(j)
        BY <2>2, <2>4, <3>1 DEF PassingOver
      <4>2. Cardinality(PassingOver(j) \cup {work}) = Cardinality(PassingOver(j)) + 1
        BY <1>1, <4>1, FS_AddElement
      <4>3. QED
        BY <1>1, <3>1, <4>1, <4>2
    <3>2. CASE j # manager
      <4>1. PassingOver(j)' = PassingOver(j)
        BY <2>2, <2>4, <3>2 DEF PassingOver
      <4>2. QED
        BY <1>1, <3>2, <4>1
    <3>3. QED
      BY <3>1, <3>2
  <2>7. ASSUME NEW j \in 1 .. MaxReady
        PROVE  refs'[j] = (IF j = invoker' THEN 1 ELSE 0) + Cardinality(PassingOver(j)')
                          + (IF issuing' # {} /\ j = manager' THEN 1 ELSE 0)
                          + (IF j = kept' THEN 1 ELSE 0)
    <3>1. refs[j] = (IF j = invoker THEN 1 ELSE 0) + Cardinality(PassingOver(j))
                    + (IF issuing # {} /\ j = manager THEN 1 ELSE 0)
                    + (IF j = kept THEN 1 ELSE 0)
      BY DEF RefsInv
    <3>2. QED
      BY <1>1, <2>1, <2>5, <2>6, <3>1
  <2>8. QED
    BY <2>5, <2>7 DEF RefsInv
<1>10. CASE Invoked
  <2>1. /\ issuing # {} /\ issuing' = {} /\ refs' = Owned(refs, manager, 0 - 1)
        /\ UNCHANGED <<jni, invoker, manager, kept>>
    BY <1>10 DEF Invoked
  <2>2. \A j : PassingOver(j)' = PassingOver(j)
    BY <2>1 DEF Passing, PassingOver
  <2>3. /\ refs' \in [1 .. MaxReady -> Int]
        /\ \A j \in 1 .. MaxReady : refs'[j] = IF j = manager THEN refs[j] + (0 - 1) ELSE refs[j]
    BY <1>1, <2>1 DEF Owned
  <2>4. QED
    BY <1>1, <2>1, <2>2, <2>3 DEF RefsInv
<1>11. QED
  BY <1>3, <1>4, <1>6, <1>7, <1>8, <1>9, <1>10, StepCases

-----------------------------------------------------------------------------
(* The invariant of the bridge, and what follows from it.                    *)

BridgeInv == IInv /\ IssuingInv /\ QueuesInv /\ ToldInv /\ TransitInv /\ RefsInv

LEMMA BridgeInvInit ==
  ASSUME BridgeInit
  PROVE  BridgeInv
<1>1. IInv /\ IssuingInv
  BY BridgeInitInv
<1>2. /\ jni = <<Attach>> /\ main = <<>> /\ ToSet(jni) = {Attach} /\ ToSet(main) = {}
      /\ jni \in Seq(JniWork) /\ main \in Seq(MainWork)
  BY DEF BridgeInit, ToSet, JniWork
<1>3. QueuesInv
  <2>1. 0 \in 0 .. MaxReady /\ 0 \in 0 .. 0
    BY BridgeAssumption
  <2>2. \A work \in ToSet(jni) \cup ToSet(main) : work.type \notin {"ready", "start"}
    BY <1>2 DEF Attach
  <2>3. QED
    BY <1>2, <2>1, <2>2 DEF BridgeInit, QueuesInv
<1>4. Passing = {}
  BY <1>2 DEF Passing, Attach
<1>5. ToldInv
  BY <1>2, <1>4 DEF BridgeInit, ToldInv
<1>6. TransitInv
  <2>1. Once(jni, "pass") /\ Once(main, "response")
    BY <1>2 DEF Once
  <2>2. CommandsOf(jni, "pass") = {} /\ CommandsOf(main, "response") = {}
    BY <1>2 DEF CommandsOf, Attach
  <2>3. IsFiniteSet(held)
    BY FS_EmptySet DEF BridgeInit
  <2>4. QED
    BY <2>1, <2>2, <2>3 DEF BridgeInit, Init, TransitInv
<1>7. RefsInv
  <2>1. \A i : Cardinality(PassingOver(i)) = 0
    BY <1>4, FS_EmptySet DEF PassingOver
  <2>2. /\ refs = [i \in 1 .. MaxReady |-> 0] /\ issuing = {} /\ invoker = 0 /\ kept = 0
        /\ \A i \in 1 .. MaxReady : i # 0
    BY BridgeAssumption DEF BridgeInit
  <2>3. QED
    BY <2>1, <2>2 DEF RefsInv
<1>8. QED
  BY <1>1, <1>3, <1>5, <1>6, <1>7 DEF BridgeInv

LEMMA BridgeInvStep ==
  ASSUME BridgeInv, [BridgeNext]_allvars
  PROVE  BridgeInv'
BY BridgeManagerInv, QueuesStep, ToldStep, TransitStep, RefsStep DEF BridgeInv

LEMMA InvokersAreLive ==
  ASSUME BridgeInv
  PROVE  InvokersLive /\ refs \in [1 .. MaxReady -> Nat]
<1>1. /\ QueuesInv /\ refs \in [1 .. MaxReady -> Int]
      /\ \A i \in 1 .. MaxReady :
           refs[i] = (IF i = invoker THEN 1 ELSE 0) + Cardinality(PassingOver(i))
                     + (IF issuing # {} /\ i = manager THEN 1 ELSE 0)
                     + (IF i = kept THEN 1 ELSE 0)
      /\ \A i : IsFiniteSet(PassingOver(i)) /\ Cardinality(PassingOver(i)) \in Nat
  BY FinitePassing DEF BridgeInv, RefsInv
<1>2. ASSUME NEW i \in 1 .. MaxReady
      PROVE  /\ refs[i] \in Nat
             /\ i = invoker => refs[i] > 0
             /\ PassingOver(i) # {} => refs[i] > 0
             /\ i = kept => refs[i] > 0
             /\ refs[i] > 0 => \/ i = invoker \/ PassingOver(i) # {}
                               \/ issuing # {} /\ i = manager
                               \/ i = kept
  <2> DEFINE n     == Cardinality(PassingOver(i))
             owns  == IF i = invoker THEN 1 ELSE 0
             calls == IF issuing # {} /\ i = manager THEN 1 ELSE 0
             keeps == IF i = kept THEN 1 ELSE 0
  <2>1. n \in Nat /\ (n = 0 <=> PassingOver(i) = {})
    BY <1>1, FS_EmptySet
  <2>2. refs[i] = owns + n + calls + keeps
    BY <1>1
  <2>3. /\ owns \in {0, 1} /\ (owns = 1 <=> i = invoker)
        /\ calls \in {0, 1} /\ (calls = 1 <=> issuing # {} /\ i = manager)
        /\ keeps \in {0, 1} /\ (keeps = 1 <=> i = kept)
    OBVIOUS
  <2> HIDE DEF n, owns, calls, keeps
  <2>4. /\ refs[i] \in Nat
        /\ owns = 1 => refs[i] > 0
        /\ n # 0 => refs[i] > 0
        /\ keeps = 1 => refs[i] > 0
        /\ refs[i] > 0 => owns = 1 \/ n # 0 \/ calls = 1 \/ keeps = 1
    BY <2>1, <2>2, <2>3
  <2>5. PassingOver(i) # {} <=> n # 0
    BY <2>1
  <2>6. refs[i] > 0 => \/ i = invoker \/ PassingOver(i) # {}
                       \/ issuing # {} /\ i = manager
                       \/ i = kept
    BY <2>3, <2>4, <2>5
  <2>7. /\ i = invoker => refs[i] > 0
        /\ PassingOver(i) # {} => refs[i] > 0
        /\ i = kept => refs[i] > 0
    BY <2>3, <2>4, <2>5
  <2>8. QED
    BY <2>4, <2>6, <2>7
<1>3. ASSUME NEW work \in Passing
      PROVE  refs[work.invoker] > 0
  <2>1. work.invoker \in 1 .. MaxReady
    BY <1>1 DEF Passing, ToSet, QueuesInv, JniWork, Attach
  <2>2. work \in PassingOver(work.invoker)
    BY DEF PassingOver
  <2>3. QED
    BY <1>2, <2>1, <2>2
<1>4. ASSUME readies = 1, manager # 0
      PROVE  InvokerLives
  <2>1. invoker = 1 /\ manager = 1 /\ 1 \in 1 .. MaxReady
    BY <1>1, <1>4, BridgeAssumption DEF QueuesInv
  <2>2. QED
    BY <1>2, <2>1 DEF InvokerLives
<1>5. kept # 0 => refs[kept] > 0
  BY <1>1, <1>2, BridgeAssumption DEF QueuesInv
<1>6. QED
  BY <1>1, <1>2, <1>3, <1>4, <1>5 DEF InvokersLive, PassingOver

LEMMA CommandsAreInTransit ==
  ASSUME BridgeInv
  PROVE  CommandsInTransit
<1> DEFINE P == CommandsOf(jni, "pass")
           R == CommandsOf(main, "response")
<1>1. /\ IsFiniteSet(P) /\ IsFiniteSet(R) /\ IsFiniteSet(held)
      /\ Cardinality(Passing) = Cardinality(P)
      /\ P \cap held = {} /\ P \cap R = {} /\ held \cap R = {}
      /\ P \cup held \cup R = java \cup {call.command : call \in issuing}
  BY OncePerTask DEF BridgeInv, QueuesInv, TransitInv, Passing
<1>2. P = {work.command : work \in Passing} /\ R = Responding
  BY DEF CommandsOf, Passing, Responding
<1>3. BridgeTypeOK
  <2>1. Cardinality(issuing) <= 1
    <3>1. issuing = {} \/ \E call : issuing = {call}
      BY DEF BridgeInv, TransitInv
    <3>2. Cardinality(issuing) = 0 \/ Cardinality(issuing) = 1
      BY <3>1, FS_EmptySet, FS_Singleton
    <3>3. QED
      BY <3>2
  <2>2. /\ jni \in Seq({Attach} \cup [type : {"ready"}, invoker : 1 .. MaxReady] \cup
               [type : {"pass"}, command : Command, invoker : 1 .. MaxReady])
        /\ main \in Seq({Switch} \cup [type : {"start"}, invoker : 1 .. MaxReady] \cup
               Event \cup [type : {"response"}, command : Command])
    BY DEF BridgeInv, QueuesInv, JniWork, MainWork
  <2>3. QED
    BY <2>1, <2>2, InvokersAreLive DEF BridgeTypeOK, BridgeInv, QueuesInv
<1> HIDE DEF P, R
<1>4. /\ IsFiniteSet(P \cup held)
      /\ Cardinality(P \cup held) = Cardinality(P) + Cardinality(held)
  <2>1. Cardinality(P \cup held) = Cardinality(P) + Cardinality(held) - Cardinality(P \cap held)
    BY <1>1, FS_Union
  <2>2. Cardinality(P) \in Nat /\ Cardinality(held) \in Nat /\ Cardinality(P \cap held) = 0
    BY <1>1, FS_CardinalityType, FS_EmptySet
  <2>3. QED
    BY <1>1, <2>1, <2>2, FS_Union
<1>5. Cardinality(P \cup held \cup R) = Cardinality(P) + Cardinality(held) + Cardinality(R)
  <2> DEFINE Q == P \cup held
  <2>1. Q \cap R = {}
    BY <1>1
  <2>2. Cardinality(Q \cup R) = Cardinality(Q) + Cardinality(R) - Cardinality(Q \cap R)
    BY <1>1, <1>4, FS_Union
  <2>3. Cardinality(Q) \in Nat /\ Cardinality(R) \in Nat /\ Cardinality(Q \cap R) = 0
    BY <1>1, <1>4, <2>1, FS_CardinalityType, FS_EmptySet
  <2>4. QED
    BY <1>4, <2>2, <2>3
<1>6. QED
  BY <1>1, <1>2, <1>3, <1>5 DEF CommandsInTransit

(***************************************************************************)
(* Every command the manager waits for is in exactly one place between the  *)
(* workers and Java, for any number of bridges, commands and events.        *)
(***************************************************************************)
THEOREM BridgeTransit == BridgeSpec => []CommandsInTransit
<1>1. BridgeInit => BridgeInv
  BY BridgeInvInit
<1>2. BridgeInv /\ [BridgeNext]_allvars => BridgeInv'
  BY BridgeInvStep
<1>3. BridgeInv => CommandsInTransit
  BY CommandsAreInTransit
<1>4. QED
  BY <1>1, <1>2, <1>3, PTL DEF BridgeSpec

(***************************************************************************)
(* The JNI worker never calls an invoker that has been destroyed, however   *)
(* often bridgeReady replaces it; a replaced one lives as long as a command *)
(* is on its way over it and until the worker then fetches another task.    *)
(***************************************************************************)
THEOREM BridgeInvokers == BridgeSpec => []InvokersLive
<1>1. BridgeInit => BridgeInv
  BY BridgeInvInit
<1>2. BridgeInv /\ [BridgeNext]_allvars => BridgeInv'
  BY BridgeInvStep
<1>3. BridgeInv => InvokersLive
  BY InvokersAreLive
<1>4. QED
  BY <1>1, <1>2, <1>3, PTL DEF BridgeSpec

(***************************************************************************)
(* An event sent after Java's first command finds a state, whatever was     *)
(* queued before it.                                                        *)
(***************************************************************************)
THEOREM BridgeEvents == BridgeSpec => EventsHeard
<1> DEFINE Heard ==
      \A e \in ToSet(main) \ ToSet(main') :
        e.type = "event" /\ e.told /\ Parsed(e) /\ state # "left"
          => e.serial \in heard'
<1>1. BridgeInit => BridgeInv
  BY BridgeInvInit
<1>2. BridgeInv /\ [BridgeNext]_allvars => BridgeInv'
  BY BridgeInvStep
<1>3. BridgeInv /\ [BridgeNext]_allvars => [Heard]_allvars
  BY HeardStep DEF BridgeInv
<1>4. QED
  BY <1>1, <1>2, <1>3, PTL DEF BridgeSpec, EventsHeard

-----------------------------------------------------------------------------
(* The arguments of commands.                                                *)

(* Induction, for a set. *)
LEMMA NatInd ==
  ASSUME NEW set, 0 \in set, \A n \in Nat : n \in set => n + 1 \in set
  PROVE  Nat \subseteq set
<1> SUFFICES ASSUME NEW m \in Nat, m \notin set
             PROVE  FALSE
  OBVIOUS
<1> DEFINE low  == {n \in 0 .. m : n \in set}
           next == [n \in low |-> n + 1]
<1>1. IsFiniteSet(low)
  <2>1. low \in SUBSET (0 .. m) /\ IsFiniteSet(0 .. m)
    BY FS_Interval
  <2>2. QED
    BY <2>1, FS_Subset
<1>2. \A n \in low : n + 1 \in low
  OBVIOUS
<1>3. next \in Injection(low, low)
  BY <1>2 DEF Injection, IsInjective
<1>4. next \in Surjection(low, low)
  BY <1>1, <1>3, FS_Injection
<1>5. 0 \in low
  OBVIOUS
<1>6. \E n \in low : next[n] = 0
  BY <1>4, <1>5 DEF Surjection
<1>7. QED
  BY <1>6

(* The texts of a command are as long as those of its parameters may be. *)
LEMMA TextsFit ==
  ASSUME NEW cmd, NEW m \in Nat, m = Len(cmd.params), NEW texts \in TextLengths(cmd),
         \A i \in 1 .. m : Lengths(cmd, cmd.params[i]) \subseteq Nat
  PROVE  /\ texts \in Seq(Nat) /\ Len(texts) = m
         /\ \A i \in 1 .. m : texts[i] \in Lengths(cmd, cmd.params[i])
<1> DEFINE len(i)  == Lengths(cmd, cmd.params[i])
           longer(set, i) == {Append(t, n) : t \in set, n \in len(i)}
           body(k) == [i \in 0 .. m |-> IF i = 0 THEN {<<>>} ELSE longer(k[i - 1], i)]
           some    == CHOOSE k : k = body(k)
           fit(i)  == {t \in Seq(Nat) : Len(t) = i /\ \A j \in 1 .. i : t[j] \in len(j)}
           all     == [i \in 0 .. m |-> fit(i)]
<1>1. TextLengths(cmd) = some[m]
  BY DEF TextLengths
<1>2. fit(0) = {<<>>}
  <2>1. \A t \in Seq(Nat) : Len(t) = 0 => t = <<>>
    OBVIOUS
  <2>2. <<>> \in Seq(Nat) /\ Len(<<>>) = 0 /\ 1 .. 0 = {}
    OBVIOUS
  <2> HIDE DEF len
  <2>3. \A t : t \in fit(0) <=> t = <<>>
    BY <2>1, <2>2
  <2> HIDE DEF fit
  <2>4. QED
    BY <2>3
<1>3. ASSUME NEW i \in 1 .. m
      PROVE  fit(i) = longer(fit(i - 1), i)
  <2>1. ASSUME NEW t \in fit(i - 1), NEW n \in len(i)
        PROVE  Append(t, n) \in fit(i)
    <3>1. n \in Nat
      OBVIOUS
    <3>2. Append(t, n) \in Seq(Nat) /\ Len(Append(t, n)) = i /\ Append(t, n)[i] = n
      BY <3>1
    <3>3. \A j \in 1 .. i - 1 : Append(t, n)[j] = t[j]
      BY <3>1
    <3>4. \A j \in 1 .. i : j # i => j \in 1 .. i - 1
      OBVIOUS
    <3> HIDE DEF len
    <3>5. \A j \in 1 .. i : Append(t, n)[j] \in len(j)
      BY <3>2, <3>3, <3>4
    <3>6. QED
      BY <3>2, <3>5
  <2>2. ASSUME NEW t \in fit(i)
        PROVE  \E u \in fit(i - 1), n \in len(i) : t = Append(u, n)
    <3> DEFINE u == SubSeq(t, 1, i - 1)
    <3> HIDE DEF len
    <3>1. u \in Seq(Nat) /\ Len(u) = i - 1 /\ \A j \in 1 .. i - 1 : u[j] = t[j]
      OBVIOUS
    <3>2. t[i] \in len(i) /\ t[i] \in Nat
      OBVIOUS
    <3>3. t = Append(u, t[i])
      OBVIOUS
    <3>4. u \in fit(i - 1)
      <4>1. \A j \in 1 .. i - 1 : u[j] \in len(j)
        BY <3>1
      <4> HIDE DEF u
      <4>2. QED
        BY <3>1, <4>1
    <3>5. QED
      BY <3>2, <3>3, <3>4
  <2> HIDE DEF fit, len
  <2>3. \A t : t \in longer(fit(i - 1), i) <=> \E u \in fit(i - 1), n \in len(i) : t = Append(u, n)
    OBVIOUS
  <2> HIDE DEF longer
  <2>4. \A t : t \in fit(i) <=> t \in longer(fit(i - 1), i)
    <3>1. ASSUME NEW t, t \in longer(fit(i - 1), i)
          PROVE  t \in fit(i)
      <4>1. PICK u \in fit(i - 1), n \in len(i) : t = Append(u, n)
        BY <2>3, <3>1
      <4>2. QED
        BY <2>1, <4>1
    <3>2. ASSUME NEW t, t \in fit(i)
          PROVE  t \in longer(fit(i - 1), i)
      BY <2>2, <2>3, <3>2
    <3>3. QED
      BY <3>1, <3>2
  <2>5. QED
    BY <2>4
<1>4. all = body(all)
  <2> HIDE DEF fit, longer
  <2>1. ASSUME NEW i \in 1 .. m
        PROVE  all[i] = longer(all[i - 1], i)
    <3>1. i - 1 \in 0 .. m /\ i \in 0 .. m
      OBVIOUS
    <3>2. all[i - 1] = fit(i - 1) /\ all[i] = fit(i)
      BY <3>1
    <3> HIDE DEF all
    <3>3. QED
      BY <1>3, <3>2
  <2>2. all[0] = {<<>>}
    BY <1>2
  <2>3. all = [i \in 0 .. m |-> all[i]]
    OBVIOUS
  <2> HIDE DEF all
  <2>4. \A i \in 0 .. m : i # 0 => i \in 1 .. m
    OBVIOUS
  <2>5. \A i \in 0 .. m : all[i] = IF i = 0 THEN {<<>>} ELSE longer(all[i - 1], i)
    BY <2>1, <2>2, <2>4
  <2>6. QED
    BY <2>3, <2>5
<1> HIDE DEF all, fit, longer
<1>5. some = body(some)
  BY <1>4
<1>b. \A i \in 0 .. m : body(some)[i] = IF i = 0 THEN {<<>>} ELSE longer(some[i - 1], i)
  OBVIOUS
<1> HIDE DEF some, body
<1>6. some[0] = {<<>>} /\ \A i \in 1 .. m :
        some[i] = longer(some[i - 1], i)
  <2>1. \A i \in 1 .. m : i \in 0 .. m /\ i # 0
    OBVIOUS
  <2>2. QED
    BY <1>5, <1>b, <2>1
<1>7. some[m] = fit(m)
  <2> DEFINE good == {i \in Nat : i <= m => some[i] = fit(i)}
  <2>1. 0 \in good
    BY <1>2, <1>6
  <2>2. ASSUME NEW i \in Nat, i \in good
        PROVE  i + 1 \in good
    <3>1. SUFFICES ASSUME i + 1 <= m
                   PROVE  some[i + 1] = fit(i + 1)
      OBVIOUS
    <3>2. some[i] = fit(i) /\ i + 1 \in 1 .. m /\ (i + 1) - 1 = i
      BY <2>2, <3>1
    <3>3. some[i + 1] = longer(some[i], i + 1)
      BY <1>6, <3>2
    <3>4. fit(i + 1) = longer(fit(i), i + 1)
      BY <1>3, <3>2
    <3>5. QED
      BY <3>2, <3>3, <3>4
  <2> HIDE DEF good
  <2>3. m \in good
    BY <2>1, <2>2, NatInd
  <2>4. QED
    BY <2>3 DEF good
<1>8. QED
  BY <1>1, <1>7 DEF fit, len

(* The smaller of two lengths, the smallest of some numbers of arguments. *)
LEMMA MinOfTwo ==
  ASSUME NEW a \in Nat, NEW b \in Nat, a <= b
  PROVE  Min({a, b}) = a /\ Min({b, a}) = a
BY DEF Min

LEMMA MinOfSome ==
  ASSUME NEW S, S \subseteq 2 .. 4, NEW k \in S
  PROVE  Min(S) \in S
<1>1. \E x \in S : \A y \in S : x <= y
  <2>1. CASE 2 \in S
    OBVIOUS
  <2>2. CASE 2 \notin S /\ 3 \in S
    <3>1. \A y \in S : 3 <= y
      BY <2>2
    <3>2. QED
      BY <2>2, <3>1
  <2>3. CASE 2 \notin S /\ 3 \notin S
    <3>1. \A y \in S : y = 4
      BY <2>3
    <3>2. QED
      BY <3>1
  <2>4. QED
    BY <2>1, <2>2, <2>3
<1>2. QED
  BY <1>1 DEF Min

(* A byte counts what a buffer of up to 256 bytes keeps of a text. *)
LEMMA KeptBytes ==
  ASSUME NEW size \in Nat, size > 0, size <= 256, NEW text \in Nat
  PROVE  LET n == Min({text, size - 1})
         IN n \in Nat /\ n <= size /\ n % 256 = n
<1>1. \A a, b \in Nat : a <= b => Min({a, b}) = a /\ Min({b, a}) = a
  BY MinOfTwo
<1>2. size - 1 \in Nat /\ size - 1 < 256 /\ size - 1 <= size
  OBVIOUS
<1>3. CASE text <= size - 1
  <2>1. Min({text, size - 1}) = text
    BY <1>1, <1>2, <1>3
  <2>2. text < 256 /\ text <= size /\ text % 256 = text
    BY <1>2, <1>3
  <2>3. QED
    BY <2>1, <2>2
<1>4. CASE size - 1 <= text
  <2>1. Min({text, size - 1}) = size - 1
    BY <1>1, <1>2, <1>4
  <2>2. (size - 1) % 256 = size - 1
    BY <1>2
  <2>3. QED
    BY <1>2, <2>1, <2>2
<1>5. QED
  BY <1>2, <1>3, <1>4

(* A length byte that is not taken for a negative number counts the text. *)
LEMMA ByteCounts ==
  ASSUME NEW cmd, NEW texts \in Seq(Nat), NEW i \in DOMAIN texts, NEW signed \in BOOLEAN,
         NEW long \in Nat, NEW short \in Nat, cmd.long = long, cmd.short = short,
         long > 0, short > 0, short <= 256,
         Counted(cmd, i), ~(signed /\ Buffer(cmd, texts, i) > 127)
  PROVE  /\ GetArgAt(signed, cmd, texts, i) = Buffer(cmd, texts, i)
         /\ Asserted(signed, cmd, texts, i)
<1> DEFINE size == BufferSize(cmd, i)
           n    == Buffer(cmd, texts, i)
<1>1. size \in Nat /\ size > 0 /\ size <= 256 /\ texts[i] \in Nat
  <2>1. texts[i] \in Nat
    OBVIOUS
  <2>2. QED
    BY <2>1 DEF BufferSize, Counted, MAX_BUFFER_SIZE, UCHAR_MAX
<1>2. n = Min({texts[i], size - 1})
  BY DEF Buffer, Kept
<1> HIDE DEF size, n
<1>3. n <= size /\ n % 256 = n
  BY <1>1, <1>2, KeptBytes
<1>4. LengthByte(n) = n
  <2>1. UCHAR_MAX + 1 = 256
    BY DEF UCHAR_MAX
  <2>2. QED
    BY <1>3, <2>1 DEF LengthByte
<1>5. GetArgAt(signed, cmd, texts, i) = n
  BY <1>4 DEF GetArgAt, AsSize, n
<1>6. QED
  BY <1>3, <1>5 DEF Asserted, size, n

(* As a signed char the byte of a longer text is far beyond any buffer. *)
LEMMA NegativeBytes ==
  ASSUME NEW cmd, NEW texts \in Seq(Nat), NEW i \in DOMAIN texts,
         NEW long \in Nat, NEW short \in Nat, cmd.long = long, cmd.short = short,
         long > 0, long <= 1024, short > 0, short <= 256,
         Counted(cmd, i), Buffer(cmd, texts, i) > 127
  PROVE  ~Asserted(TRUE, cmd, texts, i)
<1> DEFINE size == BufferSize(cmd, i)
           n    == Buffer(cmd, texts, i)
<1>1. size \in Nat /\ size > 0 /\ size <= 256 /\ texts[i] \in Nat
  <2>1. texts[i] \in Nat
    OBVIOUS
  <2>2. QED
    BY <2>1 DEF BufferSize, Counted, MAX_BUFFER_SIZE, UCHAR_MAX
<1>2. n = Min({texts[i], size - 1})
  BY DEF Buffer, Kept
<1>3. n > 127
  OBVIOUS
<1> HIDE DEF size, n
<1>4. n \in Nat /\ n % 256 = n
  BY <1>1, <1>2, KeptBytes
<1>5. LengthByte(n) = n
  <2>1. UCHAR_MAX + 1 = 256
    BY DEF UCHAR_MAX
  <2>2. QED
    BY <1>4, <2>1 DEF LengthByte
<1>6. GetArgAt(TRUE, cmd, texts, i) = Huge + n
  BY <1>3, <1>5 DEF GetArgAt, AsSize, n
<1>7. Huge > 256
  BY DEF Huge
<1>8. ~(Huge + n <= size)
  BY <1>1, <1>4, <1>7 DEF Huge
<1>9. QED
  BY <1>6, <1>8 DEF Asserted, size

(* What ends before its buffer does is read up to its end. *)
LEMMA ReadWhole ==
  ASSUME NEW cmd, NEW texts \in Seq(Nat), NEW i \in DOMAIN texts, NEW signed \in BOOLEAN,
         NEW long \in Nat, NEW short \in Nat, cmd.long = long, cmd.short = short,
         long > 0, short > 0, short <= 256, texts[i] < BufferSize(cmd, i) - 1
  PROVE  /\ EndsHere(cmd, texts, i) /\ Buffer(cmd, texts, i) = texts[i]
         /\ ~(signed /\ Counted(cmd, i) /\ texts[i] > 127) =>
              /\ GetArgAt(signed, cmd, texts, i) = texts[i]
              /\ Asserted(signed, cmd, texts, i)
<1> DEFINE size == BufferSize(cmd, i)
<1>1. size \in Nat \ {0} /\ texts[i] \in Nat /\ (i # 1 => size <= 256)
  <2>1. texts[i] \in Nat
    OBVIOUS
  <2>2. QED
    BY <2>1 DEF BufferSize
<1>2. Buffer(cmd, texts, i) = texts[i]
  <2>1. Min({texts[i], size - 1}) = texts[i]
    BY <1>1 DEF Min
  <2>2. QED
    BY <2>1 DEF Buffer, Kept
<1>3. EndsHere(cmd, texts, i)
  BY <1>1, <1>2 DEF EndsHere, Full
<1>4. LastRead(cmd, texts, i) = i
  <2> DEFINE ends == {j \in i .. Len(texts) : EndsHere(cmd, texts, j)} \cup {Len(texts)}
  <2>1. i \in ends /\ \A j \in ends : j \in Nat /\ i <= j
    BY <1>3
  <2> HIDE DEF ends
  <2>2. Min(ends) = i
    BY <2>1 DEF Min
  <2>3. QED
    BY <2>2 DEF LastRead, ends
<1>5. CASE ~Counted(cmd, i)
  <2>1. i = 1
    BY <1>5 DEF Counted
  <2>2. CStringLength(cmd, texts, i) = Offset(cmd, i) - Offset(cmd, i) + texts[i]
    BY <1>2, <1>4 DEF CStringLength
  <2>3. Offset(cmd, i) = 0
    BY <2>1 DEF Offset
  <2>4. CStringLength(cmd, texts, i) = texts[i]
    BY <1>1, <2>2, <2>3
  <2>5. QED
    BY <1>1, <1>2, <1>3, <1>5, <2>4 DEF GetArgAt, Asserted
<1>6. CASE Counted(cmd, i)
  BY <1>2, <1>3, <1>6, ByteCounts
<1>7. QED
  BY <1>5, <1>6

(* What a command needs for its arguments to be read as they are meant. *)
Proper(cmd) ==
  /\ cmd.long \in {32, 256, 1024} /\ cmd.short \in {24, 32} /\ Len(cmd.params) \in 1 .. 4
  /\ \A i \in 2 .. Len(cmd.params) :
       cmd.params[i] \in {"application", "number", "flag", "address", "type", "name"}
  /\ \A i \in 2 .. Len(cmd.params) - 1 : cmd.params[i] # "name"
  /\ Len(cmd.params) > 1 =>
       cmd.params[2] \in {"application", "number", "flag", "address", "type"}
  /\ cmd.long = 1024 => Len(cmd.params) > 1
  /\ \/ cmd.params[1] \in {"reason", "type", "name", "toast", "cast"}
     \/ cmd.params[1] \in {"uuid", "farewell"} /\ cmd.long = 256
     \/ /\ Len(cmd.params) = 2 /\ cmd.params[2] = "address"
        /\ \/ cmd.params[1] = "message" /\ cmd.long = 256
           \/ cmd.params[1] = "longMessage" /\ cmd.long = 1024

LEMMA CommandsProper == \A name \in DOMAIN Dictionary : Proper(Dictionary[name])
<1>1. DOMAIN Dictionary =
        {"StartListening", "StartDiscovery", "CloseConnection", "NegotiationStop", "SendMessage",
         "SendLongMessage", "ShowAndExit", "ShowToast", "ShowNotification", "ShowRequest",
         "ShowResponse", "ShowLongResponse"}
  BY DEF Dictionary
<1>2. Proper(Dictionary["StartListening"])
  <2>1. Dictionary["StartListening"] = LongTraits(<<"uuid", "application", "number">>)
    BY DEF Dictionary
  <2>2. Proper(LongTraits(<<"uuid", "application", "number">>))
    BY DEF Proper, LongTraits
  <2>3. QED
    BY <2>1, <2>2
<1>3. Proper(Dictionary["StartDiscovery"])
  <2>1. Dictionary["StartDiscovery"] = LongTraits(<<"uuid", "application", "flag">>)
    BY DEF Dictionary
  <2>2. Proper(LongTraits(<<"uuid", "application", "flag">>))
    BY DEF Proper, LongTraits
  <2>3. QED
    BY <2>1, <2>2
<1>4. Proper(Dictionary["CloseConnection"])
  <2>1. Dictionary["CloseConnection"] = Traits(<<"reason", "address">>)
    BY DEF Dictionary
  <2>2. Proper(Traits(<<"reason", "address">>))
    BY DEF Proper, Traits
  <2>3. QED
    BY <2>1, <2>2
<1>5. Proper(Dictionary["NegotiationStop"])
  <2>1. Dictionary["NegotiationStop"] = Traits(<<"name">>)
    BY DEF Dictionary
  <2>2. Proper(Traits(<<"name">>))
    BY DEF Proper, Traits
  <2>3. QED
    BY <2>1, <2>2
<1>6. Proper(Dictionary["SendMessage"])
  <2>1. Dictionary["SendMessage"] = LongTraits(<<"message", "address">>)
    BY DEF Dictionary
  <2>2. Proper(LongTraits(<<"message", "address">>))
    BY DEF Proper, LongTraits
  <2>3. QED
    BY <2>1, <2>2
<1>7. Proper(Dictionary["SendLongMessage"])
  <2>1. Dictionary["SendLongMessage"] = ExtraLongTraits(<<"longMessage", "address">>)
    BY DEF Dictionary
  <2>2. Proper(ExtraLongTraits(<<"longMessage", "address">>))
    BY DEF Proper, ExtraLongTraits
  <2>3. QED
    BY <2>1, <2>2
<1>8. Proper(Dictionary["ShowAndExit"])
  <2>1. Dictionary["ShowAndExit"] = LongTraits(<<"farewell">>)
    BY DEF Dictionary
  <2>2. Proper(LongTraits(<<"farewell">>))
    BY DEF Proper, LongTraits
  <2>3. QED
    BY <2>1, <2>2
<1>9. Proper(Dictionary["ShowToast"])
  <2>1. Dictionary["ShowToast"] = Traits(<<"toast", "number">>)
    BY DEF Dictionary
  <2>2. Proper(Traits(<<"toast", "number">>))
    BY DEF Proper, Traits
  <2>3. QED
    BY <2>1, <2>2
<1>10. Proper(Dictionary["ShowNotification"])
  <2>1. Dictionary["ShowNotification"] = Traits(<<"toast">>)
    BY DEF Dictionary
  <2>2. Proper(Traits(<<"toast">>))
    BY DEF Proper, Traits
  <2>3. QED
    BY <2>1, <2>2
<1>11. Proper(Dictionary["ShowRequest"])
  <2>1. Dictionary["ShowRequest"] = Traits(<<"type", "number", "number", "name">>)
    BY DEF Dictionary
  <2>2. Proper(Traits(<<"type", "number", "number", "name">>))
    BY DEF Proper, Traits
  <2>3. QED
    BY <2>1, <2>2
<1>12. Proper(Dictionary["ShowResponse"])
  <2>1. Dictionary["ShowResponse"] = LongTraits(<<"cast", "type", "number", "name">>)
    BY DEF Dictionary
  <2>2. Proper(LongTraits(<<"cast", "type", "number", "name">>))
    BY DEF Proper, LongTraits
  <2>3. QED
    BY <2>1, <2>2
<1>13. Proper(Dictionary["ShowLongResponse"])
  <2>1. Dictionary["ShowLongResponse"] = ExtraLongTraits(<<"cast", "type", "number", "name">>)
    BY DEF Dictionary
  <2>2. Proper(ExtraLongTraits(<<"cast", "type", "number", "name">>))
    BY DEF Proper, ExtraLongTraits
  <2>3. QED
    BY <2>1, <2>2
<1>14. QED
  BY <1>1, <1>2, <1>3, <1>4, <1>5, <1>6, <1>7, <1>8, <1>9, <1>10, <1>11, <1>12, <1>13

(* What follows the first argument is short, but names. *)
LEMMA ShortLengths ==
  ASSUME NEW cmd, NEW param \in {"application", "number", "flag", "address", "type"}
  PROVE  Lengths(cmd, param) \subseteq 1 .. 17
<1>1. CASE param = "application"
  <2>1. Lengths(cmd, param) = {7}
    BY <1>1 DEF Lengths
  <2>2. QED
    BY <1>1, <2>1
<1>2. CASE param = "number"
  <2>1. Lengths(cmd, param) = {1, 2, 10, 11}
    BY <1>2 DEF Lengths
  <2>2. QED
    BY <1>2, <2>1
<1>3. CASE param = "flag"
  <2>1. Lengths(cmd, param) = {4, 5}
    BY <1>3 DEF Lengths
  <2>2. QED
    BY <1>3, <2>1
<1>4. CASE param = "address"
  <2>1. Lengths(cmd, param) = {17}
    BY <1>4 DEF Lengths
  <2>2. QED
    BY <1>4, <2>1
<1>5. CASE param = "type"
  <2>1. Lengths(cmd, param) = 2 .. 4
    BY <1>5 DEF Lengths
  <2>2. QED
    BY <1>5, <2>1
<1>6. QED
  BY <1>1, <1>2, <1>3, <1>4, <1>5

(* The first arguments whose lengths are known. *)
LEMMA FirstLengths ==
  ASSUME NEW cmd, NEW param \in {"reason", "uuid", "farewell"}
  PROVE  Lengths(cmd, param) \subseteq 0 .. 38 /\ (param = "reason" => Lengths(cmd, param) = {0, 23})
<1>1. CASE param = "reason"
  <2>1. Lengths(cmd, param) = {0, 23}
    BY <1>1 DEF Lengths
  <2>2. QED
    BY <1>1, <2>1
<1>2. CASE param = "uuid"
  <2>1. Lengths(cmd, param) = {36}
    BY <1>2 DEF Lengths
  <2>2. QED
    BY <1>2, <2>1
<1>3. CASE param = "farewell"
  <2>1. Lengths(cmd, param) = {38}
    BY <1>3 DEF Lengths
  <2>2. QED
    BY <1>3, <2>1
<1>4. QED
  BY <1>1, <1>2, <1>3

(* Names, and what is shown: some are longer than their buffers. *)
LEMMA ShownLengths ==
  ASSUME NEW cmd, NEW param, NEW long \in Nat, cmd.long = long, long > 3,
         param \in {"name", "toast", "cast"}
  PROVE  Lengths(cmd, param) \subseteq Nat
<1>1. CASE param = "name"
  <2>1. Lengths(cmd, param) = 0 .. 33 \cup {248}
    BY <1>1 DEF Lengths
  <2>2. QED
    BY <2>1
<1>2. CASE param = "toast"
  <2>1. Lengths(cmd, param) = {16, 34, 45}
    BY <1>2 DEF Lengths
  <2>2. QED
    BY <2>1
<1>3. CASE param = "cast"
  <2> DEFINE max == MAX_BUFFER_SIZE(cmd)
  <2>1. Lengths(cmd, param) = {0, 2, 127, 128, 250} \cup max - 3 .. max + 3
    BY <1>3 DEF Lengths
  <2>2. max = long - 1
    BY DEF MAX_BUFFER_SIZE
  <2> HIDE DEF max
  <2>3. max - 3 .. max + 3 \subseteq Nat
    BY <2>2
  <2>4. {0, 2, 127, 128, 250} \subseteq Nat
    OBVIOUS
  <2>5. QED
    BY <2>1, <2>3, <2>4
<1>4. QED
  BY <1>1, <1>2, <1>3

(* The lengths of messages are lengths. *)
LEMMA MessageLengths ==
  ASSUME NEW cmd, NEW param, NEW long \in Nat, cmd.long = long,
         (param = "message" /\ long = 256) \/ (param = "longMessage" /\ long = 1024)
  PROVE  Lengths(cmd, param) \subseteq Nat
<1>1. MAX_BUFFER_SIZE(cmd) = long - 1
  BY DEF MAX_BUFFER_SIZE
<1>2. CASE param = "message" /\ long = 256
  <2>1. Lengths(cmd, param) = {43, 60, 127, 128} \cup 250 .. MAX_BUFFER_SIZE(cmd)
    BY <1>2 DEF Lengths
  <2>2. QED
    BY <1>1, <1>2, <2>1
<1>3. CASE param = "longMessage" /\ long = 1024
  <2>1. Lengths(cmd, param) = 256 .. 258 \cup 1020 .. MAX_BUFFER_SIZE(cmd)
    BY <1>3 DEF Lengths
  <2>2. QED
    BY <1>1, <1>3, <2>1
<1>4. QED
  BY <1>2, <1>3

(* The lengths of what the core passes are lengths. *)
LEMMA LengthsAreNat ==
  ASSUME NEW cmd, Proper(cmd), NEW i \in 1 .. Len(cmd.params)
  PROVE  /\ Lengths(cmd, cmd.params[i]) \subseteq Nat
         /\ cmd.params[i] \notin {"toast", "name", "cast", "message", "longMessage"} =>
              \A n \in Lengths(cmd, cmd.params[i]) : n < BufferSize(cmd, i) - 1 /\ n <= 127
<1> DEFINE param == cmd.params[i]  long == cmd.long  size == BufferSize(cmd, i)
<1>2. /\ long \in {32, 256, 1024} /\ cmd.short \in {24, 32}
      /\ size = (IF i = 1 THEN long ELSE cmd.short)
  BY DEF Proper, BufferSize
<1>3. \/ i # 1 /\ param \in {"application", "number", "flag", "address", "type", "name"}
      \/ i = 1 /\ param \in {"reason", "type", "name", "toast", "cast"}
      \/ i = 1 /\ param \in {"uuid", "farewell"} /\ long = 256
      \/ i = 1 /\ ((param = "message" /\ long = 256) \/ (param = "longMessage" /\ long = 1024))
  <2>1. CASE i = 1
    <3> DEFINE first == cmd.params[1]
    <3>1. \/ first \in {"reason", "type", "name", "toast", "cast"}
          \/ first \in {"uuid", "farewell"} /\ long = 256
          \/ first = "message" /\ long = 256
          \/ first = "longMessage" /\ long = 1024
      BY ZenonT(30) DEF Proper
    <3>2. param = first
      BY <2>1
    <3> HIDE DEF param, first, long
    <3>3. CASE first \in {"reason", "type", "name", "toast", "cast"}
      BY <2>1, <3>2, <3>3
    <3>4. CASE first \in {"uuid", "farewell"} /\ long = 256
      BY <2>1, <3>2, <3>4
    <3>5. CASE first = "message" /\ long = 256
      BY <2>1, <3>2, <3>5
    <3>6. CASE first = "longMessage" /\ long = 1024
      BY <2>1, <3>2, <3>6
    <3>7. QED
      BY <3>1, <3>3, <3>4, <3>5, <3>6, ZenonT(30)
  <2>2. CASE i # 1
    <3>1. i \in 2 .. Len(cmd.params)
      BY <2>2 DEF Proper
    <3>2. QED
      BY <2>2, <3>1 DEF Proper
  <2>3. QED
    BY <2>1, <2>2
<1> DEFINE all == Lengths(cmd, param)
<1> HIDE DEF param, long, size
<1>4. CASE param \in {"application", "number", "flag", "address", "type"}
  <2>1. all \subseteq 1 .. 17
    BY <1>4, ShortLengths
  <2> HIDE DEF all
  <2>2. all \subseteq Nat /\ \A n \in all : n < size - 1 /\ n <= 127
    BY <1>2, <2>1
  <2>3. param \notin {"toast", "name", "cast", "message", "longMessage"}
    BY <1>4
  <2>4. QED
    BY <2>1, <2>2, <2>3 DEF all, param, size
<1>5. CASE param \in {"name", "toast", "cast"}
  <2>1. all \subseteq Nat
    <3>1. long \in Nat /\ long > 3 /\ cmd.long = long
      BY <1>2 DEF long
    <3>2. QED
      BY <1>5, <3>1, ShownLengths
  <2> HIDE DEF all
  <2>2. QED
    BY <1>5, <2>1 DEF all, param, size
<1>7. CASE i = 1 /\ param \in {"reason", "uuid", "farewell"} /\ (param # "reason" => long = 256)
  <2>1. all \subseteq 0 .. 38 /\ (param = "reason" => all = {0, 23})
    <3>1. param \in {"reason", "uuid", "farewell"}
      BY <1>7
    <3>2. QED
      BY <3>1, FirstLengths
  <2> HIDE DEF all
  <2>2. all \subseteq Nat /\ \A n \in all : n < size - 1 /\ n <= 127
    BY <1>2, <1>7, <2>1
  <2>3. param \notin {"toast", "name", "cast", "message", "longMessage"}
    BY <1>7
  <2>4. QED
    BY <2>2, <2>3 DEF all, param, size
<1>8. CASE i = 1 /\ ((param = "message" /\ long = 256) \/ (param = "longMessage" /\ long = 1024))
  <2>1. all \subseteq Nat
    <3>1. long \in Nat /\ cmd.long = long
      BY <1>2 DEF long
    <3>2. QED
      BY <1>8, <3>1, MessageLengths
  <2>2. param \in {"message", "longMessage"}
    BY <1>8
  <2>3. QED
    BY <2>1, <2>2 DEF all, param, size
<1>9. QED
  <2>1. CASE i # 1 /\ param \in {"application", "number", "flag", "address", "type", "name"}
    BY <1>4, <1>5, <2>1
  <2>2. CASE i = 1 /\ param \in {"reason", "type", "name", "toast", "cast"}
    BY <1>4, <1>5, <1>7, <2>2
  <2>3. CASE i = 1 /\ param \in {"uuid", "farewell"} /\ long = 256
    BY <1>7, <2>3
  <2>4. CASE i = 1 /\ ((param = "message" /\ long = 256) \/ (param = "longMessage" /\ long = 1024))
    BY <1>8, <2>4
  <2>5. QED
    BY <1>3, <2>1, <2>2, <2>3, <2>4, Zenon

(* Numbers the next lemma needs: a short text and its byte; sums of buffers. *)
LEMMA ShortText ==
  ASSUME NEW n \in 1 .. 17, NEW short \in {24, 32}
  PROVE  Min({n, short - 1}) = n /\ LengthByte(n) # 0
<1>1. n \in Nat /\ short - 1 \in Nat /\ n <= short - 1
  OBVIOUS
<1>2. Min({n, short - 1}) = n
  BY <1>1, MinOfTwo
<1>3. UCHAR_MAX + 1 = 256 /\ n % 256 = n
  BY DEF UCHAR_MAX
<1>4. QED
  BY <1>2, <1>3 DEF LengthByte

LEMMA KeptIsNat ==
  ASSUME NEW a \in Nat, NEW b \in Nat
  PROVE  Min({a, b}) \in Nat
<1>1. CASE a <= b
  BY <1>1, MinOfTwo
<1>2. CASE b <= a
  BY <1>2, MinOfTwo
<1>3. QED
  BY <1>1, <1>2

LEMMA LaterArguments ==
  ASSUME NEW m \in 1 .. 4, NEW S, S \subseteq 1 .. m, 1 \notin S
  PROVE  S \subseteq 2 .. 4
OBVIOUS

LEMMA LongerThanBuffer ==
  ASSUME NEW last \in 2 .. 4, NEW short \in {24, 32}, NEW n \in Nat, last = 2 => n > 0
  PROVE  ~((1024 + (last - 2) * short) - 0 + n <= 1024)
<1>1. CASE last = 2
  BY <1>1
<1>2. CASE last = 3
  BY <1>2
<1>3. CASE last = 4
  BY <1>3
<1>4. QED
  BY <1>1, <1>2, <1>3

(* A text without room runs on, a long one past what GetArgAt asserts. *)
LEMMA RunsOn ==
  ASSUME NEW cmd, Proper(cmd), NEW texts \in Seq(Nat), Len(texts) = Len(cmd.params),
         \A j \in 1 .. Len(texts) : texts[j] \in Lengths(cmd, cmd.params[j]),
         NEW i \in DOMAIN texts, ~(texts[i] < BufferSize(cmd, i) - 1)
  PROVE  /\ ~EndsHere(cmd, texts, i)
         /\ ~Counted(cmd, i) => \A signed \in BOOLEAN : ~Asserted(signed, cmd, texts, i)
<1> DEFINE long == cmd.long  short == cmd.short  m == Len(texts)  size == BufferSize(cmd, i)
<1>1. /\ long \in {32, 256, 1024} /\ short \in {24, 32} /\ m \in 1 .. 4 /\ i \in 1 .. m
      /\ size = (IF i = 1 THEN long ELSE short)
  BY DEF Proper, BufferSize
<1>2. \A j \in 1 .. m : texts[j] \in Nat
  OBVIOUS
<1>3. Full(cmd, texts, i)
  <2>1. size - 1 \in Nat /\ texts[i] \in Nat /\ ~(texts[i] < size - 1)
    BY <1>1, <1>2
  <2> HIDE DEF size
  <2>2. Min({texts[i], size - 1}) = size - 1
    BY <2>1 DEF Min
  <2>3. QED
    BY <2>2 DEF Full, Buffer, Kept, size
<1>4. ASSUME i < m
      PROVE  i = 1
  <2>1. SUFFICES ASSUME i # 1
                 PROVE  FALSE
    OBVIOUS
  <2>2. i \in 2 .. m /\ i \in 2 .. m - 1
    BY <1>1, <1>4, <2>1
  <2>3. /\ cmd.params[i] \in {"application", "number", "flag", "address", "type", "name"}
        /\ cmd.params[i] # "name"
    BY <2>2 DEF Proper
  <2>4. texts[i] < BufferSize(cmd, i) - 1
    BY <1>1, <2>3, LengthsAreNat
  <2>5. QED
    BY <2>4
<1>5. ASSUME m > 1
      PROVE  Buffer(cmd, texts, 2) \in 1 .. 17 /\ LengthByte(Buffer(cmd, texts, 2)) # 0
  <2>1. cmd.params[2] \in {"application", "number", "flag", "address", "type"}
    BY <1>5 DEF Proper
  <2>2. 2 \in 1 .. m
    BY <1>1, <1>5
  <2>3. texts[2] \in 1 .. 17
    BY <2>1, <2>2, ShortLengths
  <2>4. Buffer(cmd, texts, 2) = Min({texts[2], short - 1})
    BY DEF Buffer, Kept, BufferSize
  <2>5. short \in {24, 32}
    BY <1>1
  <2> HIDE DEF short
  <2>6. Min({texts[2], short - 1}) = texts[2] /\ LengthByte(texts[2]) # 0
    BY <2>3, <2>5, ShortText
  <2>7. QED
    BY <2>3, <2>4, <2>6
<1>6. ~EndsHere(cmd, texts, i)
  <2>1. CASE i < m
    BY <1>1, <1>3, <1>4, <1>5, <2>1 DEF EndsHere
  <2>2. CASE ~(i < m)
    BY <1>3, <2>2 DEF EndsHere
  <2>3. QED
    BY <2>1, <2>2
<1>7. ASSUME ~Counted(cmd, i), NEW signed \in BOOLEAN
      PROVE  ~Asserted(signed, cmd, texts, i)
  <2> DEFINE last == LastRead(cmd, texts, 1)
             ends == {j \in 1 .. m : EndsHere(cmd, texts, j)} \cup {m}
             n    == Buffer(cmd, texts, last)
  <2>1. i = 1 /\ long = 1024 /\ m > 1
    <3>1. i = 1 /\ ~(long - 1 <= 255)
      BY <1>7 DEF Counted, MAX_BUFFER_SIZE, UCHAR_MAX
    <3>2. long = 1024
      BY <1>1, <3>1
    <3>3. QED
      BY <3>1, <3>2 DEF Proper
  <2>2. ends \subseteq 2 .. 4 /\ ends \subseteq 1 .. m /\ m \in ends
    <3>1. ~EndsHere(cmd, texts, 1)
      BY <1>6, <2>1
    <3>2. ends \subseteq 1 .. m /\ 1 \notin ends /\ m \in ends
      BY <1>1, <2>1, <3>1
    <3> HIDE DEF ends
    <3>3. m \in 1 .. 4
      BY <1>1
    <3>4. QED
      BY <3>2, <3>3, LaterArguments
  <2>3. last = Min(ends)
    BY DEF LastRead
  <2> HIDE DEF last, ends
  <2>4. Min(ends) \in ends
    BY <2>2, MinOfSome
  <2>5. last \in 2 .. 4 /\ last \in 1 .. m
    BY <2>2, <2>3, <2>4
  <2>6. n \in Nat /\ (last = 2 => n > 0)
    <3>1. BufferSize(cmd, last) - 1 \in Nat /\ texts[last] \in Nat
      BY <1>1, <1>2, <2>5 DEF BufferSize
    <3>2. n \in Nat
      BY <3>1, KeptIsNat DEF Buffer, Kept
    <3>3. ASSUME last = 2
          PROVE  n > 0
      <4>1. Buffer(cmd, texts, 2) \in 1 .. 17
        BY <1>5, <2>1
      <4>2. n \in 1 .. 17
        BY <3>3, <4>1
      <4> HIDE DEF n
      <4>3. QED
        BY <4>2
    <3>4. QED
      BY <3>2, <3>3
  <2>7. Offset(cmd, last) = 1024 + (last - 2) * short /\ Offset(cmd, 1) = 0
    BY <2>1, <2>5 DEF Offset
  <2>8. CStringLength(cmd, texts, 1) = (1024 + (last - 2) * short) - 0 + n
    <3>1. CStringLength(cmd, texts, 1) = Offset(cmd, last) - Offset(cmd, 1) + n
      BY DEF CStringLength, last, n
    <3> HIDE DEF n
    <3>2. QED
      BY <2>7, <3>1
  <2> HIDE DEF n
  <2>9. ~((1024 + (last - 2) * short) - 0 + n <= 1024)
    <3>1. short \in {24, 32}
      BY <1>1
    <3> HIDE DEF short
    <3>2. QED
      BY <2>5, <2>6, <3>1, LongerThanBuffer
  <2>10. QED
    BY <1>7, <2>1, <2>8, <2>9 DEF Asserted, GetArgAt, BufferSize
<1>8. QED
  BY <1>6, <1>7

(***************************************************************************)
(* Whatever else a command carries, Java reads every argument that leaves   *)
(* its buffer room, and every one by which it acts, as it was written, and  *)
(* runs on behind every other; the log, too, but for what a signed char     *)
(* cannot count.  GetArgAt's assertions fail exactly there and for a long   *)
(* text that fills its buffer.                                              *)
(***************************************************************************)
THEOREM ArgumentsAreIntact == BridgeSpec => []ArgumentsIntact
<1>1. ASSUME NEW signed \in BOOLEAN, NEW name \in DOMAIN Dictionary,
             NEW texts \in TextLengths(Dictionary[name]), NEW i \in DOMAIN texts
      PROVE  LET cmd      == Dictionary[name]
                 room     == texts[i] < BufferSize(cmd, i) - 1
                 negative == signed /\ Counted(cmd, i) /\ Buffer(cmd, texts, i) > 127
                 whole    == GetArgAt(signed, cmd, texts, i) = texts[i]
             IN /\ room <=> EndsHere(cmd, texts, i)
                /\ room /\ ~negative => whole
                /\ cmd.params[i] \notin {"toast", "name", "cast", "message", "longMessage"}
                     => room /\ ~negative
                /\ Asserted(signed, cmd, texts, i) <=> ~negative /\ (Counted(cmd, i) \/ room)
  <2> DEFINE cmd      == Dictionary[name]
             m        == Len(cmd.params)
             room     == texts[i] < BufferSize(cmd, i) - 1
             negative == signed /\ Counted(cmd, i) /\ Buffer(cmd, texts, i) > 127
  <2>1. Proper(cmd)
    BY CommandsProper
  <2>2. m \in Nat /\ cmd.long \in Nat /\ cmd.short \in Nat /\ cmd.long > 0 /\ cmd.short > 0
        /\ cmd.short <= 256 /\ cmd.long <= 1024
    BY <2>1 DEF Proper
  <2>3. \A j \in 1 .. m : Lengths(cmd, cmd.params[j]) \subseteq Nat
    BY <2>1, LengthsAreNat
  <2>4. texts \in TextLengths(cmd)
    OBVIOUS
  <2> HIDE DEF cmd
  <2>5. /\ texts \in Seq(Nat) /\ Len(texts) = m
        /\ \A j \in 1 .. m : texts[j] \in Lengths(cmd, cmd.params[j])
    BY <2>2, <2>3, <2>4, TextsFit
  <2>6. i \in 1 .. m /\ texts[i] \in Nat
    BY <2>5
  <2>7. room => /\ EndsHere(cmd, texts, i) /\ Buffer(cmd, texts, i) = texts[i]
                /\ ~negative => /\ GetArgAt(signed, cmd, texts, i) = texts[i]
                                /\ Asserted(signed, cmd, texts, i)
    BY <2>2, <2>5, ReadWhole
  <2>8. ASSUME cmd.params[i] \notin {"toast", "name", "cast", "message", "longMessage"}
        PROVE  room /\ ~negative
    <3>1. room /\ texts[i] <= 127
      BY <2>1, <2>5, <2>6, <2>8, LengthsAreNat
    <3>2. ~(texts[i] > 127)
      BY <2>6, <3>1
    <3>3. QED
      BY <2>7, <3>1, <3>2
  <2>9. ~room => /\ ~EndsHere(cmd, texts, i)
                 /\ ~Counted(cmd, i) => ~Asserted(signed, cmd, texts, i)
    BY <2>1, <2>5, RunsOn
  <2>10. negative => ~Asserted(signed, cmd, texts, i)
    <3>1. SUFFICES ASSUME negative
                   PROVE  ~Asserted(TRUE, cmd, texts, i)
      OBVIOUS
    <3>2. QED
      BY <2>2, <2>5, <3>1, NegativeBytes
  <2>11. Asserted(signed, cmd, texts, i) <=> ~negative /\ (Counted(cmd, i) \/ room)
    <3>1. Counted(cmd, i) /\ ~negative => Asserted(signed, cmd, texts, i)
      BY <2>2, <2>5, ByteCounts
    <3>2. negative => Counted(cmd, i)
      OBVIOUS
    <3> HIDE DEF room, negative
    <3>3. QED
      BY <2>7, <2>9, <2>10, <3>1, <3>2
  <2>12. QED
    BY <2>7, <2>8, <2>9, <2>11 DEF cmd
<1>2. ArgumentsIntact
  BY <1>1 DEF ArgumentsIntact
<1>3. QED
  BY <1>2, PTL

=============================================================================
