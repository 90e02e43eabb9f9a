----------------------------- MODULE Coroutines -----------------------------
(***************************************************************************)
(* Coroutines of one thread: cr::TaskHandle and its promise (task.hpp), the *)
(* TaskOwner that starts them (taskowner.hpp) and AnyOf (taskutils.hpp).    *)
(*                                                                         *)
(* A frame is resumed inline, on top of whoever resumes it; "stack" holds   *)
(* the frames that execute.  A frame that resumes its awaiter at its final  *)
(* suspend point leaves the stack then: nothing of it is touched later.     *)
(* What a task does between two awaits is its own choice; a leaf await (a   *)
(* command, a timer) is resumed by an event of the thread.  One AnyOf is    *)
(* enough, its wrappers are the numbers 1, 2, ...                           *)
(***************************************************************************)
EXTENDS Naturals, Sequences, FiniteSets, SequencesExt

CONSTANTS
  Task,     \* the tasks that may ever be created; a frame is not used again
  AnyFrame, \* the frame of AnyOf
  Wrappers, \* number of tasks AnyOf is called with
  None

Wrap  == 1 .. Wrappers
Frame == Task \cup {AnyFrame} \cup Wrap

ASSUME FramesAssumption ==
  /\ Wrappers \in Nat \ {0} /\ IsFiniteSet(Task)
  /\ AnyFrame \notin Task \cup Wrap /\ Task \cap Wrap = {} /\ None \notin Frame

VARIABLES
  frames,   \* the promise of each frame and how far the frame has got
  stack,    \* frames executing, the one that has control first
  tasks,    \* m_tasks of the TaskOwner
  owner,    \* the TaskOwner exists
  ret,      \* AnyOf: the wrapper whose result is kept
  resumable,\* AnyOf: thisHandle is set
  surfaced, \* history: tasks whose exception RethrowExceptions has thrown
  winners   \* history: wrappers that have stored a result

vars == <<frames, stack, tasks, owner, ret, resumable, surfaced, winners>>

(***************************************************************************)
(* at: suspended at its start (created), at an await (leaf, awaiting, anyof)*)
(* or at its end (done); executing its body (running), the call by which it *)
(* awaits or starts another (calling, starting, notifying), or unwinding.   *)
(***************************************************************************)
Suspension == {"created", "leaf", "awaiting", "anyof", "done"}
Execution  == {"running", "calling", "starting", "won", "notifying", "unwinding"}

Promise ==
  [at : Suspension \cup Execution \cup {"unborn", "destroyed"},
   canceled : BOOLEAN,
   root     : Frame \cup {None},   \* whose flag parentCanceled points to
   parent   : Frame \cup {None},   \* parentHandle
   holder   : Frame \cup {None},   \* the frame that holds the TaskHandle
   failed   : BOOLEAN]             \* value holds an exception

Init ==
  /\ frames = [f \in Frame |-> [at |-> "unborn", canceled |-> FALSE, root |-> None,
                                parent |-> None, holder |-> None, failed |-> FALSE]]
  /\ stack = <<>> /\ tasks = <<>> /\ owner = TRUE
  /\ ret = None /\ resumable = FALSE
  /\ surfaced = {} /\ winners = {}

Top(f) == stack # <<>> /\ Head(stack) = f
At(fs, state) == {f \in Frame : fs[f].at = state}
Held(fs, f)   == {c \in Frame : fs[c].holder = f}
Push(f) == <<f>> \o stack

-----------------------------------------------------------------------------
(* TaskHandle and Promise, as functions of the frames                        *)

Canceled(fs, f) ==
  fs[f].canceled \/ (fs[f].root # None /\ fs[fs[f].root].canceled)

(* await_resume of CancelingAwaiter *)
Resumed(fs, f) ==
  [fs EXCEPT ![f].at = IF Canceled(fs, f) THEN "unwinding" ELSE "running"]

(* Run, to its first step: the initial suspend point is an await like others. *)
Run(fs, f, root) == Resumed([fs EXCEPT ![f].root = root], f)

(* The flag that cancels what f awaits. *)
RootOf(fs, f) == IF fs[f].root # None THEN fs[f].root ELSE f

Created(fs, new, holder) ==
  [f \in Frame |-> IF f \in new THEN [fs[f] EXCEPT !.at = "created", !.holder = holder]
                                ELSE fs[f]]

(* Mutant: a handle does not tell a task that goes on that it is gone. *)
DroppedMutantSilent(fs, handles) ==
  LET ended == handles \cap At(fs, "done")
  IN [f \in Frame |->
       IF f \in ended THEN [fs[f] EXCEPT !.at = "destroyed", !.holder = None]
       ELSE IF f \in handles THEN [fs[f] EXCEPT !.holder = None]
       ELSE fs[f]]

(* Mutant: every frame is destroyed with its handle. *)
DroppedMutantDestroy(fs, handles) ==
  [f \in Frame |-> IF f \in handles
     THEN [fs[f] EXCEPT !.at = "destroyed", !.holder = None] ELSE fs[f]]

(***************************************************************************)
(* ~TaskHandle: a frame that is done is destroyed, and with it the handles  *)
(* it holds (one level, AnyOf's arguments); another is left to itself.      *)
(***************************************************************************)
Dropped(fs, handles) ==
  LET ended == handles \cap At(fs, "done")
      all   == handles \cup {c \in Frame : fs[c].holder \in ended}
  IN [f \in Frame |->
       IF f \in all THEN [fs[f] EXCEPT
         !.at       = IF @ = "done" THEN "destroyed" ELSE @,
         !.canceled = fs[f].at # "done" \/ @,
         !.holder   = None]
       ELSE fs[f]]

(* A frame runs off its end with nobody to hold it. *)
SelfDestroyed(fs, f) ==
  [Dropped(fs, Held(fs, f)) EXCEPT ![f].at = "destroyed"]

(* Mutant: the awaiter does not look whether it has been canceled. *)
ConsumedMutantBlind(fs, f, c) ==
  LET go == IF fs[c].failed THEN "unwinding" ELSE IF f \in Wrap THEN "won" ELSE "running"
      gs == [fs EXCEPT ![f].at = go]
  IN IF f \in Wrap THEN gs ELSE Dropped(gs, {c})

(* f goes on after its task c is done; a wrapper keeps the handle to its end. *)
Consumed(fs, f, c) ==
  LET go == IF Canceled(fs, f) \/ fs[c].failed THEN "unwinding"
            ELSE IF f \in Wrap THEN "won" ELSE "running"
      gs == [fs EXCEPT ![f].at = go]
  IN IF f \in Wrap THEN gs ELSE Dropped(gs, {c})

(* Mutant: the final suspend point does not look whether the handle is gone. *)
FinalMutantBlind(fs, f, failed) ==
  LET p    == fs[f].parent
      done == [fs EXCEPT ![f].at = "done", ![f].failed = failed]
  IN IF p = None THEN frames' = done /\ stack' = Tail(stack)
     ELSE frames' = Consumed(done, p, f) /\ stack' = <<p>> \o Tail(stack)

(* final_suspend of the frame that has control, its locals destroyed. *)
Final(fs, f, failed) ==
  LET p    == fs[f].parent
      done == [fs EXCEPT ![f].at = "done", ![f].failed = failed]
  IN IF fs[f].canceled
     THEN frames' = SelfDestroyed(fs, f) /\ stack' = Tail(stack)
     ELSE IF p = None THEN frames' = done /\ stack' = Tail(stack)
     ELSE frames' = Consumed(done, p, f) /\ stack' = <<p>> \o Tail(stack)

-----------------------------------------------------------------------------
(* What a task does                                                          *)

Running(t) == Top(t) /\ frames[t].at = "running"

Suspend(t) ==
  /\ Running(t)
  /\ frames' = [frames EXCEPT ![t].at = "leaf"]
  /\ stack' = Tail(stack)
  /\ UNCHANGED <<tasks, owner, ret, resumable, surfaced, winners>>

ResumeLeaf(t) ==
  /\ stack = <<>> /\ frames[t].at = "leaf"
  /\ frames' = Resumed(frames, t)
  /\ stack' = <<t>>
  /\ UNCHANGED <<tasks, owner, ret, resumable, surfaced, winners>>

Return(t) ==
  /\ Running(t)
  /\ Final(frames, t, FALSE)
  /\ UNCHANGED <<tasks, owner, ret, resumable, surfaced, winners>>

(* The task throws, or lets through what was thrown at an await. *)
Throw(t) ==
  /\ Top(t) /\ frames[t].at \in {"running", "unwinding"}
  /\ Final(frames, t, TRUE)
  /\ UNCHANGED <<tasks, owner, ret, resumable, surfaced, winners>>

Unborn == At(frames, "unborn")

(* co_await of a new task *)
Await(t) ==
  LET c  == CHOOSE u \in Task : u \in Unborn
      fs == Created(frames, {c}, t)
  IN /\ Running(t) /\ Unborn \cap Task # {}
     /\ frames' = [Run(fs, c, RootOf(fs, t)) EXCEPT ![t].at = "calling"]
     /\ stack' = Push(c)
     /\ UNCHANGED <<tasks, owner, ret, resumable, surfaced, winners>>

(* Run has returned: the task is done, or t registers with it and suspends. *)
CallReturned(t) ==
  LET c == CHOOSE u \in Held(frames, t) : TRUE
  IN /\ Top(t) /\ frames[t].at = "calling"
     /\ \/ /\ frames[c].at = "done"
           /\ frames' = Consumed(frames, t, c)
           /\ UNCHANGED stack
        \/ /\ frames[c].at # "done"
           /\ frames' = [frames EXCEPT ![t].at = "awaiting", ![c].parent = t]
           /\ stack' = Tail(stack)
     /\ UNCHANGED <<tasks, owner, ret, resumable, surfaced, winners>>

-----------------------------------------------------------------------------
(* TaskOwner                                                                 *)

Done(t) == frames[t].at = "done"

(* The first stored exception is thrown and forgotten. *)
Rethrow(t) ==
  /\ Done(t) /\ frames[t].failed
  /\ \E i \in DOMAIN tasks :
       tasks[i] = t /\ \A j \in 1 .. i - 1 : ~(Done(tasks[j]) /\ frames[tasks[j]].failed)
  /\ surfaced' = surfaced \cup {t}

(* std::erase_if *)
Erased(seq, ended) ==
  LET kept[i \in 0 .. Len(seq)] ==
        IF i = 0 THEN <<>>
        ELSE IF seq[i] \in ended THEN kept[i - 1] ELSE Append(kept[i - 1], seq[i])
  IN kept[Len(seq)]

(* Mutant: finished tasks are erased before their exceptions are looked at. *)
StartRootTaskMutantErase(fs, c, below) ==
  LET ended == {t \in ToSet(tasks) : Done(t)}
  IN /\ tasks'  = Append(Erased(tasks, ended), c)
     /\ frames' = Run(Created(Dropped(fs, ended), {c}, None), c, None)
     /\ stack'  = <<c>> \o below
     /\ UNCHANGED surfaced

(***************************************************************************)
(* StartRootTask with the new task c, called by "below" in the frames fs.   *)
(* When it throws, c goes without ever having run; throwing is left to the  *)
(* caller.                                                                  *)
(***************************************************************************)
StartRootTask(fs, c, below) ==
  LET ended == {t \in ToSet(tasks) : Done(t)}
  IN /\ \A t \in ended : ~frames[t].failed
     /\ tasks'  = Append(Erased(tasks, ended), c)
     /\ frames' = Run(Created(Dropped(fs, ended), {c}, None), c, None)
     /\ stack'  = <<c>> \o below
     /\ UNCHANGED surfaced

RethrowExceptions(fs, c) ==
  \E t \in ToSet(tasks) :
    /\ Rethrow(t)
    /\ frames' = [Dropped(Created(fs, {c}, None), {c}) EXCEPT ![t].failed = FALSE]

NewTask == CHOOSE u \in Task : u \in Unborn

(* An event starts a task; an exception goes up to the worker. *)
Start ==
  /\ stack = <<>> /\ owner /\ Unborn \cap Task # {}
  /\ \/ StartRootTask(frames, NewTask, <<>>)
     \/ RethrowExceptions(frames, NewTask) /\ UNCHANGED <<tasks, stack>>
  /\ UNCHANGED <<owner, ret, resumable, winners>>

(* co_await StartNestedTask *)
StartNested(t) ==
  /\ Running(t) /\ owner /\ Unborn \cap Task # {}
  /\ \/ StartRootTask([frames EXCEPT ![t].at = "starting"], NewTask, stack)
     \/ /\ RethrowExceptions([frames EXCEPT ![t].at = "unwinding"], NewTask)
        /\ UNCHANGED <<tasks, stack>>
  /\ UNCHANGED <<owner, ret, resumable, winners>>

(* await_suspend returned false. *)
NestedStarted(t) ==
  /\ Top(t) /\ frames[t].at = "starting"
  /\ frames' = Resumed(frames, t)
  /\ UNCHANGED <<stack, tasks, owner, ret, resumable, surfaced, winners>>

(* ~TaskOwner, by an event or by a task it may own itself. *)
DropOwner ==
  /\ owner /\ (stack = <<>> \/ \E t \in Task : Running(t))
  /\ owner' = FALSE
  /\ frames' = Dropped(frames, ToSet(tasks))
  /\ tasks' = <<>>
  /\ UNCHANGED <<stack, ret, resumable, surfaced, winners>>

-----------------------------------------------------------------------------
(* AnyOf                                                                     *)

(* co_await AnyOf(...): the tasks are created, AnyOf holds their handles. *)
AwaitAnyOf(t) ==
  LET given == CHOOSE us \in SUBSET (Unborn \cap Task) : Cardinality(us) = Wrappers
      fs    == Created(Created(frames, given, AnyFrame), {AnyFrame}, t)
  IN /\ Running(t) /\ AnyFrame \in Unborn
     /\ Cardinality(Unborn \cap Task) >= Wrappers
     /\ frames' = [Run(fs, AnyFrame, RootOf(fs, t)) EXCEPT ![t].at = "calling"]
     /\ stack' = Push(AnyFrame)
     /\ UNCHANGED <<tasks, owner, ret, resumable, surfaced, winners>>

(* CreateArray: each wrapper takes one of the handles. *)
CreateArray ==
  LET given == Held(frames, AnyFrame)
      taken == CHOOSE m \in [Wrap -> given] : \A v, w \in Wrap : m[v] = m[w] => v = w
      fs    == Created(frames, Wrap, AnyFrame)
  IN /\ Running(AnyFrame) /\ Wrap \subseteq Unborn
     /\ frames' = [f \in Frame |-> IF f \in given
          THEN [fs[f] EXCEPT !.holder = CHOOSE w \in Wrap : taken[w] = f]
          ELSE fs[f]]
     /\ UNCHANGED <<stack, tasks, owner, ret, resumable, surfaced, winners>>

(* The wrappers run in order, with no flag of AnyOf's awaiter. *)
RunWrapper(w) ==
  /\ Running(AnyFrame) /\ frames[w].at = "created"
  /\ \A v \in 1 .. w - 1 : frames[v].at # "created"
  /\ frames' = Run(frames, w, None)
  /\ stack' = Push(w)
  /\ UNCHANGED <<tasks, owner, ret, resumable, surfaced, winners>>

(* With a result there already the wrapper ends, its task never runs. *)
ShortCircuit(w) ==
  /\ Running(w) /\ ret # None
  /\ Final(frames, w, FALSE)
  /\ UNCHANGED <<tasks, owner, ret, resumable, surfaced, winners>>

AwaitGiven(w) ==
  LET c == CHOOSE u \in Held(frames, w) : TRUE
  IN /\ Running(w) /\ ret = None
     /\ frames' = [Run(frames, c, RootOf(frames, w)) EXCEPT ![w].at = "calling"]
     /\ stack' = Push(c)
     /\ UNCHANGED <<tasks, owner, ret, resumable, surfaced, winners>>

(* The result is stored and AnyOf resumed, on top of the wrapper. *)
Emplace(w) ==
  /\ Top(w) /\ frames[w].at = "won"
  /\ ret' = w /\ winners' = winners \cup {w}
  /\ \/ /\ resumable
        /\ frames' = [Resumed(frames, AnyFrame) EXCEPT ![w].at = "notifying"]
        /\ stack' = Push(AnyFrame)
     \/ ~resumable /\ Final(frames, w, FALSE)
  /\ UNCHANGED <<tasks, owner, resumable, surfaced>>

(* A wrapper ends: AnyOf has returned control to it, or its task has thrown. *)
WrapperEnds(w) ==
  /\ Top(w)
  /\ \/ frames[w].at = "notifying" /\ Final(frames, w, FALSE)
     \/ frames[w].at = "unwinding" /\ Final(frames, w, TRUE)
  /\ UNCHANGED <<tasks, owner, ret, resumable, surfaced, winners>>

AllStarted == Wrap \cap (Unborn \cup At(frames, "created")) = {}

(* No result yet: AnyOf suspends, unless it has been canceled meanwhile. *)
WaitForAny ==
  /\ Running(AnyFrame) /\ AllStarted /\ ret = None
  /\ \/ /\ Canceled(frames, AnyFrame)
        /\ frames' = [frames EXCEPT ![AnyFrame].at = "unwinding"]
        /\ UNCHANGED <<stack, resumable>>
     \/ /\ ~Canceled(frames, AnyFrame)
        /\ frames' = [frames EXCEPT ![AnyFrame].at = "anyof"]
        /\ resumable' = TRUE
        /\ stack' = Tail(stack)
  /\ UNCHANGED <<tasks, owner, ret, surfaced, winners>>

(* AnyOf ends, the array of wrappers with it. *)
EndAnyOf ==
  /\ Top(AnyFrame)
  /\ \/ /\ frames[AnyFrame].at = "running" /\ AllStarted /\ ret # None
        /\ Final(Dropped(frames, Held(frames, AnyFrame) \cap Wrap), AnyFrame, FALSE)
     \/ /\ frames[AnyFrame].at = "unwinding"
        /\ Final(Dropped(frames, Held(frames, AnyFrame) \cap Wrap), AnyFrame, TRUE)
  /\ UNCHANGED <<tasks, owner, ret, resumable, surfaced, winners>>

-----------------------------------------------------------------------------
(* What control does next within the frames on the stack *)
Step ==
  \/ \E t \in Task : \/ Suspend(t) \/ Return(t) \/ Throw(t) \/ Await(t)
                      \/ StartNested(t) \/ NestedStarted(t) \/ AwaitAnyOf(t)
  \/ \E t \in Task \cup Wrap : CallReturned(t)
  \/ CreateArray \/ WaitForAny \/ EndAnyOf
  \/ \E w \in Wrap : \/ RunWrapper(w) \/ ShortCircuit(w) \/ AwaitGiven(w)
                      \/ Emplace(w) \/ WrapperEnds(w)

Next == Step \/ Start \/ DropOwner \/ \E t \in Task : ResumeLeaf(t)
Spec == Init /\ [][Next]_vars

(* What is awaited is answered, and no task goes on forever by itself. *)
Fairness ==
  /\ WF_vars(Step)
  /\ \A t \in Task : WF_vars(ResumeLeaf(t)) /\ SF_vars(Return(t) \/ Throw(t))

FairSpec == Spec /\ Fairness

-----------------------------------------------------------------------------
(* Frames, the stack and the owner have the shape the C++ types give them. *)
TypeOK ==
  /\ frames \in [Frame -> Promise]
  /\ stack \in Seq(Frame) /\ tasks \in Seq(Task)
  /\ owner \in BOOLEAN /\ (~owner => tasks = <<>>)
  /\ ret \in Wrap \cup {None} /\ resumable \in BOOLEAN
  /\ surfaced \subseteq Task /\ winners \subseteq Wrap

Started(f) == frames[f].at \in (Suspension \cup Execution) \ {"created", "done"}

(***************************************************************************)
(* A coroutine_handle, a pointer to a flag or a reference to AnyOf's locals *)
(* that will still be used leads to a live frame in the right position: no  *)
(* frame is on the stack twice, the flag a task looks at outlives it, the   *)
(* awaiter is resumed by the one task it holds and awaits.                  *)
(***************************************************************************)
HandlesLive ==
  /\ TypeOK
  /\ ToSet(stack) = {f \in Frame : frames[f].at \in Execution}
  /\ Cardinality(ToSet(stack)) = Len(stack)
  /\ \A f \in Frame : Started(f) /\ frames[f].root # None => Started(frames[f].root)
  /\ \A f \in Frame : Started(f) /\ frames[f].parent # None /\ ~frames[f].canceled =>
       frames[f].holder = frames[f].parent /\ frames[frames[f].parent].at = "awaiting"
  /\ \A p \in Frame : frames[p].at = "awaiting" =>
       \E c \in Held(frames, p) :
         Started(c) /\ frames[c].parent = p /\ ~frames[c].canceled
  /\ \A w \in Wrap : Started(w) /\ ~frames[w].canceled => Started(AnyFrame)

(* What holds f, up to a task of the owner, a wrapper or a frame nobody holds. *)
Holders(f) ==
  {g \in Frame : \A up \in SUBSET Frame :
     f \in up /\ (\A h \in up \ Wrap : frames[h].holder \in up \cup {None}) => g \in up}

Abandoned(f) ==
  \E g \in Holders(f) : frames[g].holder = None /\ g \notin ToSet(tasks)

(***************************************************************************)
(* A task whose handle has gone, or that is awaited by such a task, however *)
(* indirectly, gets past no await and is not begun: it unwinds when what it *)
(* awaits ends.  AnyOf does not pass this on to the tasks it is given.      *)
(***************************************************************************)
AbandonedUnwind ==
  [][\A f \in Frame :
       /\ frames[f].at \in {"leaf", "awaiting", "anyof"} /\ Abandoned(f)
            => frames'[f].at \notin {"running", "won"}
       /\ frames[f].at = "unborn" /\ frames'[f].at = "running" => ~Abandoned(f)']_vars

(***************************************************************************)
(* AnyOf keeps one result: the tasks it does not wait for store nothing in  *)
(* its frame, which may be gone, and it ends with a result once it has one. *)
(***************************************************************************)
OneWinner ==
  [][/\ winners' # winners => winners = {} /\ Started(AnyFrame)
     /\ winners # {} /\ stack = <<>> => frames[AnyFrame].at # "anyof"]_vars

(***************************************************************************)
(* What a task of the owner throws is thrown again, once, by a later start  *)
(* of a task; it is not lost with the task's frame.                         *)
(***************************************************************************)
ExceptionsSurface ==
  [][\A t \in ToSet(tasks) :
       /\ owner' /\ frames'[t].at = "destroyed" /\ frames[t].at = "done"
            => ~frames[t].failed
       /\ t \in surfaced => ~frames'[t].failed]_vars

(***************************************************************************)
(* Nothing leaks: once the owner is gone every frame that ever ran comes to *)
(* its end and is destroyed.  The exception is an AnyOf all of whose tasks  *)
(* have thrown: nobody resumes it, nor what awaits it.                      *)
(***************************************************************************)
FramesReclaimed ==
  ~owner ~> \/ \A f \in Frame : frames[f].at \in {"unborn", "created", "destroyed"}
            \/ /\ frames[AnyFrame].at = "anyof"
               /\ \A w \in Wrap : frames[w].at = "done" /\ frames[w].failed

=============================================================================
