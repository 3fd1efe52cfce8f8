-------------------------- MODULE GarbageCollector --------------------------
(***************************************************************************)
(* The deferred deletion of base/include/scy/memory.h and                  *)
(* base/src/memory.cpp: deleteLater() on any thread, the cleaner of an     *)
(* event loop (one loop here), whose timer runs work() on the main thread, *)
(* and finalize(), which holds GarbageCollector::_mutex while it runs the  *)
(* loop until nothing is left.  The cleaner's own _mutex covers single     *)
(* steps.  A destructor may itself call deleteLater(): Chain[o] is the     *)
(* object that the destructor of o schedules.                              *)
(***************************************************************************)
EXTENDS Integers, FiniteSets

CONSTANTS
    Obj, NoObj,
    Thread,       \* threads calling deleteLater(), callbacks of the loop included
    Nobody,
    Chain         \* Chain[o]: scheduled by the destructor of o, or NoObj

ASSUME CollectorAssumption ==
    /\ NoObj \notin Obj /\ Nobody \notin Thread /\ "main" \notin Thread
    /\ Chain \in [Obj -> Obj \cup {NoObj}]
    \* no two destructors schedule the same object: deleteLater() takes it over
    /\ \A p, q \in Obj : Chain[p] = Chain[q] /\ Chain[p] # NoObj => p = q

VARIABLES
    pending,    \* _pending
    ready,      \* _ready
    deletable,  \* the local of work()
    deleted,    \* objects deleted
    given,      \* objects passed to deleteLater() so far
    arg,        \* arg[t]: the object a thread is scheduling, or NoObj
    lock,       \* owner of GarbageCollector::_mutex
    work,       \* what the timer's callback is doing
    child,      \* the object the running destructor is scheduling, or NoObj
    phase,      \* "open", "finalizing", "finalized"
    timer       \* the cleaner's timer is active

queues == <<pending, ready, deletable, deleted>>
gcvars == <<queues, given, arg, lock, work, child, phase, timer>>

\* Objects that only the application can schedule.
Roots == {o \in Obj : \A p \in Obj : Chain[p] # o}

GcTypeOK ==
    /\ {pending, ready, deletable, deleted, given} \subseteq SUBSET Obj
    /\ arg \in [Thread -> Obj \cup {NoObj}]
    /\ lock \in {Nobody, "main"}
    /\ work \in {"idle", "delete", "chain", "push", "check"}
    /\ child \in Obj \cup {NoObj}
    /\ phase \in {"open", "finalizing", "finalized"}
    /\ timer \in BOOLEAN

GcInit ==
    /\ pending = {} /\ ready = {} /\ deletable = {} /\ deleted = {} /\ given = {}
    /\ arg = [t \in Thread |-> NoObj]
    /\ lock = Nobody /\ work = "idle" /\ child = NoObj
    /\ phase = "open" /\ timer = TRUE

-----------------------------------------------------------------------------
(* A faulty variant, used to show that the property can fail.              *)

TakeKeepingReady ==
    /\ work = "idle" /\ timer /\ phase # "finalized"
    /\ deletable' = ready
    /\ ready' = ready \cup pending /\ pending' = {}
    /\ work' = "delete"
    /\ UNCHANGED <<deleted, given, arg, lock, child, phase, timer>>

-----------------------------------------------------------------------------
(* deleteLater()                                                           *)

\* getCleaner(), under GarbageCollector::_mutex.
GetCleaner(t, o) ==
    /\ arg[t] = NoObj /\ lock = Nobody
    /\ o \in Roots \ given
    /\ arg' = [arg EXCEPT ![t] = o]
    /\ given' = given \cup {o}
    /\ UNCHANGED <<queues, lock, work, child, phase, timer>>

\* The push to _pending, under the cleaner's _mutex.
Schedule(t) ==
    /\ arg[t] # NoObj
    /\ pending' = pending \cup {arg[t]}
    /\ arg' = [arg EXCEPT ![t] = NoObj]
    /\ UNCHANGED <<ready, deletable, deleted, given, lock, work, child, phase, timer>>

-----------------------------------------------------------------------------
(* work(), on the main thread.                                             *)

Take ==
    /\ work = "idle" /\ timer /\ phase # "finalized"
    /\ deletable' = ready
    /\ ready' = pending /\ pending' = {}
    /\ work' = "delete"
    /\ UNCHANGED <<deleted, given, arg, lock, child, phase, timer>>

\* Run the destructor of the next object.
DeleteNext(o) ==
    /\ work = "delete" /\ o \in deletable
    /\ deletable' = deletable \ {o}
    /\ deleted' = deleted \cup {o}
    /\ child' = Chain[o]
    /\ work' = IF Chain[o] = NoObj THEN "delete" ELSE "chain"
    /\ UNCHANGED <<pending, ready, given, arg, lock, phase, timer>>

\* deleteLater() in the destructor.  The mutex is not recursive.
ChildCleaner ==
    /\ work = "chain" /\ lock = Nobody
    /\ given' = given \cup {child}
    /\ work' = "push"
    /\ UNCHANGED <<queues, arg, lock, child, phase, timer>>

ChildSchedule ==
    /\ work = "push"
    /\ pending' = pending \cup {child}
    /\ child' = NoObj
    /\ work' = "delete"
    /\ UNCHANGED <<ready, deletable, deleted, given, arg, lock, phase, timer>>

\* if (_finalize), look whether anything is left.
Deleted ==
    /\ work = "delete" /\ deletable = {}
    /\ work' = IF phase = "finalizing" THEN "check" ELSE "idle"
    /\ UNCHANGED <<queues, given, arg, lock, child, phase, timer>>

Check ==
    /\ work = "check"
    /\ timer' = (ready # {} \/ pending # {})
    /\ work' = "idle"
    /\ UNCHANGED <<queues, given, arg, lock, child, phase>>

-----------------------------------------------------------------------------
(* finalize(), on the main thread while the loop is inactive.              *)

Finalize ==
    /\ phase = "open" /\ work = "idle" /\ lock = Nobody
    /\ lock' = "main"
    /\ phase' = "finalizing"
    /\ UNCHANGED <<queues, given, arg, work, child, timer>>

\* uv_run() has returned: nothing but the timer kept the loop alive.
FinalizeEnds ==
    /\ phase = "finalizing" /\ work = "idle" /\ ~timer
    /\ lock' = Nobody
    /\ phase' = "finalized"
    /\ UNCHANGED <<queues, given, arg, work, child, timer>>

Main ==
    \/ Take
    \/ \E o \in Obj : DeleteNext(o)
    \/ ChildCleaner \/ ChildSchedule \/ Deleted \/ Check
    \/ FinalizeEnds

GcNext ==
    \/ \E t \in Thread, o \in Obj : GetCleaner(t, o)
    \/ \E t \in Thread : Schedule(t)
    \/ Main
    \/ Finalize

GcSpec == GcInit /\ [][GcNext]_gcvars

\* The loop runs and a thread inside deleteLater() goes on.
GcFairSpec ==
    /\ GcSpec
    /\ WF_gcvars(Main)
    /\ \A t \in Thread : WF_gcvars(Schedule(t))

-----------------------------------------------------------------------------
(* Properties.                                                             *)

\* An object is in one place at a time, so it is deleted once, although
\* schedulers, destructors and the timer move objects concurrently.
DeletedOnce ==
    /\ \A A, B \in {<<1, pending>>, <<2, ready>>, <<3, deletable>>, <<4, deleted>>} :
          A # B => A[2] \cap B[2] = {}
    /\ \A t \in Thread : arg[t] \notin pending \cup ready \cup deletable \cup deleted

\* An object given to deleteLater() is deleted in the end, those scheduled by
\* destructors included.
EventuallyDeleted ==
    \A o \in Obj : (o \in given) ~> (o \in deleted \/ phase # "open")

\* finalize() returns, or has run a destructor that calls deleteLater(): that
\* destructor waits for the mutex which finalize() itself holds.
FinalizeReturns ==
    (phase = "finalizing") ~> (phase = "finalized" \/ (lock = "main" /\ work = "chain"))
=============================================================================
