------------------------------- MODULE Worker -------------------------------
(***************************************************************************)
(* async::Worker (worker.cpp): one thread that runs tasks at their time,    *)
(* fed by other threads through a queue with a capacity.  Everything a      *)
(* thread does while it holds m_tasksSync is one action, a wait releases    *)
(* it; the times are computed, and the conditions notified, without it.     *)
(***************************************************************************)
EXTENDS Naturals, Sequences, FiniteSets, SequencesExt

CONSTANTS
  Producer,   \* threads that schedule tasks
  Owner,      \* the thread that destroys the worker
  Self,       \* the worker's own thread
  Capacity,   \* m_config.capacity
  Delay,      \* the delays asked for
  MaxTasks,   \* bound: calls of Schedule and TrySchedule
  MaxTime     \* bound: the clock

ASSUME ThreadAssumption ==
  /\ IsFiniteSet(Producer)
  /\ Owner \notin Producer /\ Self \notin Producer \cup {Owner}
ASSUME WorkerAssumption ==
  /\ Capacity \in Nat \ {0} /\ Delay \subseteq Nat
  /\ MaxTasks \in Nat /\ MaxTime \in Nat

VARIABLES
  now,      \* steady_clock
  calls,    \* calls so far, each of them has a task of its own
  thread,   \* where each caller is, with its task
  tasks,    \* m_tasks, ordered by time and then by insertion
  worker,   \* where the worker thread is: "idle" waits for a task, "sleeping" for its
            \* time, "stuck" for itself
  work,     \* the task it has taken
  until,    \* what wait_until waits for
  stop,     \* m_stop
  order     \* tasks run so far

vars == <<now, calls, thread, tasks, worker, work, until, stop, order>>

Caller == Producer \cup {Owner}

(* must: Schedule rather than TrySchedule. *)
Task == [id : 0 .. MaxTasks + 1, by : Caller \cup {Self}, at : 0 .. MaxTime,
         must : BOOLEAN]
Place == [at : {"out", "locking", "waiting", "notifying", "joining", "over"}, task : Task]

NewTask(id, p, delay, must) == [id |-> id, by |-> p, at |-> now + delay, must |-> must]

(* ~Worker schedules the task that sets m_stop. *)
StopTask(t) == t.by = Owner

Blank == [id |-> 0, by |-> Owner, at |-> 0, must |-> TRUE]
At(place, task) == [at |-> place, task |-> task]

Init ==
  /\ now    = 0
  /\ calls  = 0
  /\ thread = [p \in Caller |-> At("out", Blank)]
  /\ tasks  = <<>>
  /\ worker = "seeking"
  /\ work   = Blank
  /\ until  = 0
  /\ stop   = FALSE
  /\ order  = <<>>

Tick ==
  /\ now < MaxTime /\ now' = now + 1
  /\ UNCHANGED <<calls, thread, tasks, worker, work, until, stop, order>>

(* Mutant: among equals the last one comes first. *)
EmplacedMutantLower(queue, t) ==
  InsertAt(queue, Cardinality({k \in DOMAIN queue : queue[k].at < t.at}) + 1, t)

(* multimap::emplace *)
Emplaced(queue, t) ==
  InsertAt(queue, Cardinality({k \in DOMAIN queue : queue[k].at <= t.at}) + 1, t)

-----------------------------------------------------------------------------
(* Callers                                                                   *)

Move(p, place) == thread' = [thread EXCEPT ![p].at = place]

(* Schedule, TrySchedule: the time is computed before the mutex is taken. *)
Call(p, delay, must) ==
  /\ thread[p].at = "out" /\ thread[Owner].at = "out"
  /\ calls < MaxTasks /\ now + delay <= MaxTime
  /\ calls'  = calls + 1
  /\ thread' = [thread EXCEPT ![p] = At("locking", NewTask(calls + 1, p, delay, must))]
  /\ UNCHANGED <<now, tasks, worker, work, until, stop, order>>

(* ~Worker; nobody uses the worker any more. *)
Destroy ==
  /\ \A p \in Caller : thread[p].at = "out"
  /\ thread' = [thread EXCEPT ![Owner] =
                 At("locking", NewTask(MaxTasks + 1, Owner, 0, TRUE))]
  /\ UNCHANGED <<now, calls, tasks, worker, work, until, stop, order>>

(* The critical section of both; the predicate is evaluated again after a wait. *)
Lock(p) ==
  /\ thread[p].at = "locking"
  /\ \/ /\ Len(tasks) < Capacity
        /\ tasks' = Emplaced(tasks, thread[p].task)
        /\ Move(p, "notifying")
     \/ /\ Len(tasks) >= Capacity
        /\ Move(p, IF thread[p].task.must THEN "waiting" ELSE "out")
        /\ UNCHANGED tasks
  /\ UNCHANGED <<now, calls, worker, work, until, stop, order>>

Asleep == worker \in {"idle", "sleeping"}

(* Mutant: a worker that waits for the time of a task is left alone. *)
NotifyFilledMutantEmpty(p) ==
  /\ thread[p].at = "notifying"
  /\ worker' = IF worker = "idle" THEN "seeking" ELSE worker
  /\ Move(p, IF p = Owner THEN "joining" ELSE "out")
  /\ UNCHANGED <<now, calls, tasks, work, until, stop, order>>

(* m_filledSignal.notify_one() *)
NotifyFilled(p) ==
  /\ thread[p].at = "notifying"
  /\ worker' = IF Asleep THEN "seeking" ELSE worker
  /\ Move(p, IF p = Owner THEN "joining" ELSE "out")
  /\ UNCHANGED <<now, calls, tasks, work, until, stop, order>>

Join ==
  /\ thread[Owner].at = "joining" /\ worker = "over"
  /\ Move(Owner, "over")
  /\ UNCHANGED <<now, calls, tasks, worker, work, until, stop, order>>

SpuriousWakeup(p) ==
  /\ thread[p].at = "waiting" /\ Move(p, "locking")
  /\ UNCHANGED <<now, calls, tasks, worker, work, until, stop, order>>

-----------------------------------------------------------------------------
(* The worker thread                                                         *)

(* GetNextTask up to its next wait or its end. *)
GetNextTask ==
  /\ worker = "seeking"
  /\ \/ /\ tasks = <<>>
        /\ worker' = "idle"
        /\ UNCHANGED <<tasks, work, until>>
     \/ /\ tasks # <<>> /\ Head(tasks).at > now
        /\ worker' = "sleeping"
        /\ until' = Head(tasks).at
        /\ UNCHANGED <<tasks, work>>
     \/ /\ tasks # <<>> /\ Head(tasks).at <= now
        /\ worker' = "notifying"
        /\ work' = Head(tasks)
        /\ tasks' = Tail(tasks)
        /\ UNCHANGED until
  /\ UNCHANGED <<now, calls, thread, stop, order>>

(* wait_until has waited long enough, or a wait ends for no reason. *)
WakeUp ==
  /\ Asleep
  /\ worker' = "seeking"
  /\ UNCHANGED <<now, calls, thread, tasks, work, until, stop, order>>

Timeout == worker = "sleeping" /\ now >= until /\ WakeUp

(* Mutant: nobody is told that there is room again. *)
NotifyEmptiedMutantSilent ==
  /\ worker = "notifying" /\ worker' = "running"
  /\ UNCHANGED <<now, calls, thread, tasks, work, until, stop, order>>

(* m_emptiedSignal.notify_one() *)
NotifyEmptied ==
  /\ worker = "notifying" /\ worker' = "running"
  /\ \/ \E p \in Caller : thread[p].at = "waiting" /\ Move(p, "locking")
     \/ (\A p \in Caller : thread[p].at # "waiting") /\ UNCHANGED thread
  /\ UNCHANGED <<now, calls, tasks, work, until, stop, order>>

(* work() returned or threw, and the loop looks at m_stop. *)
RunTask ==
  /\ worker = "running"
  /\ order'  = Append(order, work)
  /\ stop'   = StopTask(work)
  /\ worker' = IF StopTask(work) THEN "over" ELSE "seeking"
  /\ UNCHANGED <<now, calls, thread, tasks, work, until>>

(***************************************************************************)
(* The task calls Schedule.  The worker is awake and needs no notification; *)
(* if the queue is full, it waits for itself.                               *)
(***************************************************************************)
ScheduleFromTask(delay) ==
  /\ worker = "running" /\ ~StopTask(work)
  /\ calls < MaxTasks /\ now + delay <= MaxTime
  /\ calls' = calls + 1
  /\ \/ /\ Len(tasks) < Capacity
        /\ tasks' = Emplaced(tasks, NewTask(calls + 1, Self, delay, TRUE))
        /\ UNCHANGED worker
     \/ /\ Len(tasks) >= Capacity
        /\ worker' = "stuck"
        /\ UNCHANGED tasks
  /\ UNCHANGED <<now, thread, work, until, stop, order>>

Calls(p) ==
  \/ \E delay \in Delay, must \in BOOLEAN : Call(p, delay, must)
  \/ SpuriousWakeup(p)

Run == GetNextTask \/ NotifyEmptied \/ RunTask

Next ==
  \/ Tick \/ Run \/ WakeUp
  \/ \E p \in Producer : Calls(p)
  \/ \E p \in Caller : Lock(p) \/ NotifyFilled(p)
  \/ Destroy \/ Join
  \/ \E delay \in Delay : ScheduleFromTask(delay)

Spec == Init /\ [][Next]_vars

(* Every thread runs and time goes on; nobody has to call or to wake up early. *)
Fairness ==
  /\ WF_vars(Tick) /\ WF_vars(Run) /\ WF_vars(Timeout) /\ WF_vars(Join)
  /\ \A p \in Caller : WF_vars(Lock(p)) /\ WF_vars(NotifyFilled(p))

FairSpec == Spec /\ Fairness

-----------------------------------------------------------------------------
(* Threads and queue have the shape the code gives them; the capacity is kept. *)
TypeOK ==
  /\ now \in 0 .. MaxTime
  /\ calls \in 0 .. MaxTasks
  /\ thread \in [Caller -> Place]
  /\ tasks \in Seq(Task) /\ Len(tasks) <= Capacity
  /\ worker \in {"seeking", "idle", "sleeping", "notifying",
                 "running", "stuck", "over"}
  /\ work \in Task
  /\ until \in 0 .. MaxTime
  /\ stop \in BOOLEAN
  /\ order \in Seq(Task)

(* wait_until may have ended early. *)
NotEarly == worker \in {"notifying", "running"} => work.at <= now

(* The tasks run so far, the one about to run and those in the queue. *)
FifoPerThread ==
  LET line == order \o (IF worker \in {"notifying", "running"} THEN <<work>> ELSE <<>>)
                    \o tasks
  IN \A i, j \in DOMAIN line :
       i < j /\ line[i].by = line[j].by /\ line[j].id < line[i].id =>
         line[j].at > line[i].at

(***************************************************************************)
(* No task runs before its time, even if wait_until ends early, and what    *)
(* one thread asks for first and not later runs first, however the callers  *)
(* interleave: timers of equal length fire in order, on which the queue of  *)
(* state switches and the order of messages and answers rest.               *)
(***************************************************************************)
InTimeAndOrder == TypeOK /\ NotEarly /\ FifoPerThread

(***************************************************************************)
(* A sleeping thread is not left behind: if what it waits for is true, or   *)
(* an earlier task came, a notification is on its way; a caller that waits  *)
(* for room will be told, or another one is about to take it.               *)
(***************************************************************************)
NoLostWakeup ==
  /\ worker = "idle" /\ tasks # <<>> =>
       \E p \in Caller : thread[p].at = "notifying"
  /\ worker = "sleeping" /\ Head(tasks).at < until =>
       \E p \in Caller : thread[p].at = "notifying"
  /\ (\E p \in Caller : thread[p].at = "waiting") /\ Len(tasks) < Capacity =>
       worker = "notifying" \/ \E p \in Caller : thread[p].at = "locking"

(* What nobody can help: ~Worker was called, or a task has filled the queue.  *)
Over == stop \/ worker = "stuck"

(***************************************************************************)
(* No thread is left waiting for the worker: every call of Schedule gets    *)
(* its task run unless the worker is stopped first, and then ~Worker        *)
(* returns, whatever is in the queue.                                       *)
(***************************************************************************)
EveryCallServed ==
  /\ \A id \in 1 .. MaxTasks :
       (\E p \in Caller : thread[p].at = "locking" /\ thread[p].task.must
                          /\ thread[p].task.id = id)
       ~> (Over \/ \E k \in DOMAIN order : order[k].id = id)
  /\ thread[Owner].at = "locking" ~>
       (thread[Owner].at = "over" \/ worker = "stuck")

=============================================================================
