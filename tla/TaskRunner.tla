----------------------------- MODULE TaskRunner -----------------------------
(***************************************************************************)
(* The TaskRunner of base/src/task.cpp: a list of tasks that a thread runs *)
(* one after the other, while the application starts, cancels and destroys *)
(* them and finally destroys the runner.  Each step of the thread between  *)
(* two uses of the mutex or of a task is an action.                        *)
(***************************************************************************)
EXTENDS Integers, Sequences, SequencesExt, FiniteSets

CONSTANTS
    NTasks      \* the tasks of the application

ASSUME TasksAssumption == NTasks \in Nat

VARIABLES
    tasks,      \* _tasks
    task,       \* task[t]: the object
    thread,     \* the thread in run(): where it is and the task it holds
    app,        \* the application in destroy(), between its check and its act: the task
                \* and what exists() said
    ran,        \* the task whose run() was entered last
    runner      \* "up", "down" once ~TaskRunner has begun

trvars == <<tasks, task, thread, app, ran, runner>>

None == 0
NoCall == [t |-> None, listed |-> FALSE]

\* The tasks are numbered in the order in which they are started.
TaskId == 1..NTasks

NewTask(r) ==
    [life |-> "new", cancelled |-> FALSE, destroyed |-> FALSE, repeating |-> r]

TaskInit ==
    /\ tasks = <<>>
    /\ task \in [TaskId -> {NewTask(r) : r \in BOOLEAN}]
    /\ thread = [at |-> "next", t |-> None]
    /\ app = NoCall /\ ran = None /\ runner = "up"

-----------------------------------------------------------------------------
(* A faulty variant, used to show that the properties can fail: the task   *)
(* was put at the back of the list, and is taken from there.               *)

PopBack(t) ==
    tasks' = IF tasks = <<>> THEN tasks ELSE Front(tasks)

-----------------------------------------------------------------------------
(* The application                                                         *)

exists(t) == Contains(tasks, t)

\* start(), and the add() in it: a task is started once.
start(t) ==
    /\ app.t = None /\ runner = "up"
    /\ task[t].life = "new" /\ \A u \in 1..(t - 1) : task[u].life # "new"
    /\ task' = [task EXCEPT ![t].life = "alive"]
    /\ tasks' = Append(tasks, t)
    /\ UNCHANGED <<thread, app, ran, runner>>

cancel(t) ==
    /\ app.t = None /\ task[t].life = "alive" /\ ~task[t].destroyed /\ ~task[t].cancelled
    /\ task' = [task EXCEPT ![t].cancelled = TRUE]
    /\ UNCHANGED <<tasks, thread, app, ran, runner>>

\* destroy() reads exists() under the lock ...
destroy(t) ==
    /\ app.t = None /\ runner = "up" /\ task[t].life = "alive" /\ ~task[t].destroyed
    /\ app' = [t |-> t, listed |-> exists(t)]
    /\ UNCHANGED <<tasks, task, thread, ran, runner>>

\* ... and then flags or deletes the task without it.
destroyAct(t) ==
    /\ app.t = t /\ app' = NoCall
    /\ task' = [task EXCEPT ![t] = IF app.listed THEN [task[t] EXCEPT !.destroyed = TRUE]
                                                 ELSE [task[t] EXCEPT !.life = "deleted"]]
    /\ UNCHANGED <<tasks, thread, ran, runner>>

\* ~TaskRunner: cancels the thread without waiting for it, and clear().
Delete ==
    /\ app.t = None /\ runner = "up"
    /\ runner' = "down"
    /\ tasks' = <<>>
    /\ task' = [t \in TaskId |-> IF exists(t) THEN [task[t] EXCEPT !.life = "deleted"] ELSE task[t]]
    /\ UNCHANGED <<thread, app, ran>>

-----------------------------------------------------------------------------
(* The thread, in TaskRunner::run()                                        *)

\* next(): t is the first task that is not cancelled.
IsNext(t) ==
    \E i \in 1..Len(tasks) :
        /\ tasks[i] = t /\ ~task[t].cancelled
        /\ \A j \in 1..(i - 1) : task[tasks[j]].cancelled

\* remove(): the first entry, if there is one.
remove(t) ==
    \/ ~exists(t) /\ UNCHANGED tasks
    \/ \E i \in 1..Len(tasks) :
        /\ tasks[i] = t /\ \A j \in 1..(i - 1) : tasks[j] # t
        /\ tasks' = RemoveAt(tasks, i)

\* The runner stops repeating once it is cancelled.
Next1 ==
    /\ thread.at = "next" /\ runner = "up"
    /\ \E t \in TaskId : IsNext(t) /\ thread' = [at |-> "picked", t |-> t]
    /\ UNCHANGED <<tasks, task, app, ran, runner>>

\* The second look at cancelled(), and the task's run().
Enter ==
    /\ thread.at = "picked"
    /\ IF task[thread.t].cancelled
       THEN thread' = [thread EXCEPT !.at = "advance"] /\ UNCHANGED ran
       ELSE thread' = [thread EXCEPT !.at = "running"] /\ ran' = thread.t
    /\ UNCHANGED <<tasks, task, app, runner>>

\* The task's run() may call its own destroy() or cancel().
Leave(self) ==
    /\ thread.at = "running"
    /\ self = "destroy" => ~task[thread.t].destroyed /\ app.t # thread.t
    /\ task' = [task EXCEPT ![thread.t] =
                  [task[thread.t] EXCEPT !.cancelled = @ \/ self = "cancel" \/ ~task[thread.t].repeating,
                                         !.destroyed = @ \/ self = "destroy"]]
    /\ thread' = [thread EXCEPT !.at = "advance"]
    /\ UNCHANGED <<tasks, app, ran, runner>>

Rotate(s) == IF s = <<>> THEN s ELSE Append(Tail(s), Head(s))

Advance ==
    /\ thread.at = "advance"
    /\ tasks' = Rotate(tasks)
    /\ thread' = [thread EXCEPT !.at = "check"]
    /\ UNCHANGED <<task, app, ran, runner>>

\* The end of run(): a destroyed task is removed and deleted.
DestroyIfAsked ==
    /\ thread.at = "check"
    /\ thread' = [at |-> "next", t |-> None]
    /\ IF task[thread.t].destroyed
       THEN /\ remove(thread.t)
            /\ task' = [task EXCEPT ![thread.t].life = "deleted"]
       ELSE UNCHANGED <<tasks, task>>
    /\ UNCHANGED <<app, ran, runner>>

RunnerThread ==
    \/ Next1 \/ Enter \/ Advance \/ DestroyIfAsked
    \/ \E self \in {"none", "cancel", "destroy"} : Leave(self)

App == \E t \in TaskId : start(t) \/ cancel(t) \/ destroy(t) \/ destroyAct(t)

TaskNext == RunnerThread \/ App \/ Delete

\* The thread is scheduled, task::run() returns, and a call that was begun
\* is finished.
TaskFairness == WF_trvars(RunnerThread) /\ \A t \in TaskId : WF_trvars(destroyAct(t))

TaskSpec == TaskInit /\ [][TaskNext]_trvars /\ TaskFairness

-----------------------------------------------------------------------------
(* Properties                                                              *)

\* The thread never touches a task that was deleted under it, and no list
\* entry dangles, for as long as the runner lives and each task is
\* destroyed once.
TasksOutliveTheirRun ==
    /\ runner = "up" /\ thread.t # None => task[thread.t].life = "alive"
    /\ \A i \in 1..Len(tasks) : task[tasks[i]].life = "alive"
    /\ IsInjective(tasks)

\* next() looks for a task from the front, but run() rotates the list whatever
\* position the task had: still no repeating task is starved, and a task
\* that is destroyed before it is cancelled leaves the list, and is deleted.
Managed(t) == runner = "up" /\ exists(t) /\ ~task[t].cancelled

EveryTaskRuns ==
    \A t \in TaskId :
        /\ []<>(~Managed(t) \/ ran = t)
        /\ (Managed(t) /\ task[t].destroyed) ~> ~Managed(t)
=============================================================================
