----------------------------- MODULE Scheduler -----------------------------
(***************************************************************************)
(* The Scheduler of sched/src/scheduler.cpp, a TaskRunner whose run()      *)
(* sorts the list by the time of each task's trigger (trigger.cpp) and     *)
(* runs the first task that is due.                                        *)
(***************************************************************************)
EXTENDS TaskRunner

CONSTANTS
    MaxTime     \* bound on the clock

ASSUME ClockAssumption == MaxTime \in Nat

VARIABLES
    now,        \* the clock
    trig,       \* trig[t]: the trigger of a task
    early       \* a task's run() was entered before its time

svars == <<trvars, now, trig, early>>

\* OnceOnlyTrigger (every = 0) or IntervalTrigger; max = 0 is no limit.
NewTrigger(a, i, m) == [at |-> a, every |-> i, max |-> m, timesRun |-> 0]

SInit ==
    /\ TaskInit /\ \A t \in TaskId : ~task[t].repeating
    /\ now = 0 /\ early = FALSE
    /\ trig \in [TaskId -> {NewTrigger(1, 0, 0), NewTrigger(1, 1, 2)}]

-----------------------------------------------------------------------------
(* Faulty variants, used to show that the properties can fail.             *)

UnsortedList(kept) ==
    { f \in Bijection(1..Cardinality(kept), kept) : \A i, j \in 1..Cardinality(kept) : i < j => f[i] < f[j] }

TimeoutIgnored(t) == TRUE

-----------------------------------------------------------------------------
(* Triggers                                                                *)

timeout(t) == now >= trig[t].at

update(g) == [g EXCEPT !.at = @ + g.every]

triggerExpired(g) ==
    IF g.every = 0 THEN g.timesRun > 0 ELSE g.max > 0 /\ g.timesRun >= g.max

\* Task::afterRun()
afterRun(g) == [update(g) EXCEPT !.timesRun = @ + 1]

-----------------------------------------------------------------------------
(* Scheduler::run()                                                        *)

\* std::sort() by remaining(), as the places that the tasks kept had before: the
\* order of equal times is not specified.
Sorted(kept) ==
    { f \in Bijection(1..Cardinality(kept), kept) :
        \A i, j \in 1..Cardinality(kept) : i < j => trig[tasks[f[i]]].at <= trig[tasks[f[j]]].at }

\* update(): under the lock, deletes the destroyed tasks and sorts the rest.
Update ==
    /\ thread.at = "next" /\ runner = "up"
    /\ LET kept == {i \in 1..Len(tasks) : ~task[tasks[i]].destroyed} IN
       /\ \E f \in Sorted(kept) : tasks' = [i \in 1..Cardinality(kept) |-> tasks[f[i]]]
       /\ task' = [t \in TaskId |-> IF exists(t) /\ task[t].destroyed
                                    THEN [task[t] EXCEPT !.life = "deleted"] ELSE task[t]]
    /\ thread' = [thread EXCEPT !.at = "look"]
    /\ UNCHANGED <<app, ran, runner, now, trig, early>>

Look ==
    /\ thread.at = "look"
    /\ \/ \E t \in TaskId : IsNext(t) /\ timeout(t) /\ thread' = [at |-> "before", t |-> t]
       \/ (\A t \in TaskId : IsNext(t) => ~timeout(t)) /\ thread' = [at |-> "next", t |-> None]
    /\ UNCHANGED <<tasks, task, app, ran, runner, now, trig, early>>

\* Task::beforeRun(), and the task's run().
BeforeRun ==
    /\ thread.at = "before"
    /\ LET t == thread.t IN
       IF timeout(t) /\ ~task[t].destroyed /\ ~task[t].cancelled
       THEN /\ thread' = [thread EXCEPT !.at = "running"] /\ ran' = t
            /\ early' = (early \/ now < trig[t].at)
       ELSE /\ thread' = [thread EXCEPT !.at = "check"] /\ UNCHANGED <<ran, early>>
    /\ UNCHANGED <<tasks, task, app, runner, now, trig>>

\* The task's run() may destroy or cancel the task; then afterRun().
AfterRun(self) ==
    /\ thread.at = "running"
    /\ self = "destroy" => ~task[thread.t].destroyed /\ app.t # thread.t
    /\ LET t == thread.t
           g == afterRun(trig[t])
       IN  /\ trig' = [trig EXCEPT ![t] = g]
           /\ task' = [task EXCEPT ![t] =
                 [task[t] EXCEPT !.cancelled = @ \/ self = "cancel",
                                 !.destroyed = @ \/ self = "destroy" \/ triggerExpired(g)]]
    /\ thread' = [thread EXCEPT !.at = "check"]
    /\ UNCHANGED <<tasks, app, ran, runner, now, early>>

\* "assert(remove(task)); delete task", in a build that has assertions.
SCheck ==
    /\ thread.at = "check"
    /\ thread' = [at |-> "next", t |-> None]
    /\ IF task[thread.t].destroyed
       THEN /\ remove(thread.t)
            /\ task' = [task EXCEPT ![thread.t].life = "deleted"]
       ELSE UNCHANGED <<tasks, task>>
    /\ UNCHANGED <<app, ran, runner, now, trig, early>>

\* serialize() and, in a new scheduler, deserialize(): maxTimes is not
\* written, and an interval starts again.
Reload ==
    /\ thread.at = "next" /\ app.t = None /\ runner = "up"
    /\ \A t \in TaskId : exists(t) => ~task[t].destroyed /\ ~task[t].cancelled
    /\ trig' = [t \in TaskId |-> IF exists(t) /\ trig[t].every > 0
                                 THEN [trig[t] EXCEPT !.max = 0, !.at = now + trig[t].every]
                                 ELSE trig[t]]
    /\ UNCHANGED <<trvars, now, early>>

SchedTick ==
    /\ now < MaxTime
    /\ now' = now + 1
    /\ UNCHANGED <<trvars, trig, early>>

SThread ==
    \/ Update \/ Look \/ BeforeRun \/ SCheck
    \/ \E self \in {"none", "cancel", "destroy"} : AfterRun(self)

SNext ==
    \/ SThread \/ SchedTick \/ Reload
    \/ (App \/ Delete) /\ UNCHANGED <<now, trig, early>>

SFairness ==
    /\ WF_svars(SThread)
    /\ \A t \in TaskId : WF_svars(destroyAct(t) /\ UNCHANGED <<now, trig, early>>)

SSpec == SInit /\ [][SNext]_svars /\ SFairness

-----------------------------------------------------------------------------
(* Properties                                                              *)

\* A task runs at its time and no more than its trigger allows, although it
\* is looked up, checked and run in separate steps with the application's
\* calls between them; nothing in the list dangles.
ScheduledRunsSound ==
    /\ TasksOutliveTheirRun /\ ~early
    /\ \A t \in TaskId :
        trig[t].timesRun <= (IF trig[t].every = 0 THEN 1
                             ELSE IF trig[t].max > 0 THEN trig[t].max ELSE MaxTime)

\* Only the front of the sorted list is looked at, yet every task that is due
\* runs until its trigger is in the future, and a task whose trigger has
\* expired, or that is destroyed, cancelled or not, is deleted.
ScheduledRunsHappen ==
    \A t \in TaskId :
        /\ (runner = "up" /\ exists(t) /\ timeout(t)) ~>
               (task[t].cancelled \/ task[t].destroyed \/ runner = "down" \/ ~timeout(t))
        /\ (runner = "up" /\ exists(t) /\ task[t].destroyed) ~>
               (task[t].life = "deleted" \/ runner = "down")
=============================================================================
