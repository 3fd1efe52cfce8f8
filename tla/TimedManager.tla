---------------------------- MODULE TimedManager ----------------------------
(***************************************************************************)
(* TimedManager (util/timedmanager.h) on PointerCollection                 *)
(* (base/collection.h): a map of owned pointers, some of which expire.     *)
(* Threads add, refresh and free items while the timer of the loop looks   *)
(* for expired ones.  The map has one mutex and the timeouts another, and  *)
(* no operation holds both: every action is one critical section.  An item *)
(* is its address, and addresses of deleted items are used again.          *)
(***************************************************************************)
EXTENDS Integers, FiniteSets, Functions

CONSTANTS
    User,         \* threads that call the manager
    Key, Addr,
    NoItem,
    Delay,        \* timeouts that items are given; 0 is none
    MaxTicks,     \* bound of the clock
    MaxManaged    \* bound: calls made

ASSUME TimedAssumption == NoItem \notin Addr /\ "timer" \notin User

VARIABLES
    map,       \* _map: the item of each key
    timeouts,  \* _timeouts: when the timeout of an address is over, 0 if it has none
    heap,      \* addresses of items that have not been deleted
    actor,     \* what each thread is doing
    copy,      \* the timer's copy of _timeouts, while it walks through it
    ticks,     \* clock()
    managed,   \* calls so far
    twice      \* an item was deleted that was not there (auxiliary)

timedvars == <<map, timeouts, heap, actor, copy, ticks, managed, twice>>

Actor == User \cup {"timer"}
Idle == [at |-> "idle", key |-> CHOOSE k \in Key : TRUE, item |-> NoItem, new |-> NoItem, delay |-> 0]

TimedInit ==
    /\ map = [k \in Key |-> NoItem]
    /\ timeouts = [a \in Addr |-> 0]
    /\ heap = {}
    /\ actor = [u \in Actor |-> Idle]
    /\ copy = [a \in Addr |-> 0]
    /\ ticks = 0 /\ managed = 0 /\ twice = FALSE

expired(t) == t # 0 /\ ticks >= t

At(u, label) == actor[u].at = label
Goto(u, label) == actor' = [actor EXCEPT ![u].at = label]

-----------------------------------------------------------------------------
(* A faulty variant, used to show that the properties can fail.            *)

OnTimeoutUnasked(a) ==
    /\ map' = [k \in Key |-> IF map[k] = a THEN NoItem ELSE map[k]]
    /\ actor' = [actor EXCEPT !["timer"] = [Idle EXCEPT !.at = "erase", !.item = a]]

-----------------------------------------------------------------------------
(* remove(), in three steps, for everyone who deletes what it removed.     *)

\* remove(key), under _mutex.
Remove(u) ==
    LET item == map[actor[u].key]
    IN  /\ map' = [map EXCEPT ![actor[u].key] = NoItem]
        /\ actor' = [actor EXCEPT ![u].item = item,
                                  ![u].at = IF item # NoItem THEN "erase"
                                            ELSE IF actor[u].new # NoItem THEN "exists" ELSE "idle"]

\* onRemove(), under _tmutex.
OnRemove(u) ==
    /\ At(u, "erase")
    /\ timeouts' = [timeouts EXCEPT ![actor[u].item] = 0]
    /\ Goto(u, "delete")
    /\ UNCHANGED <<map, heap, copy, ticks, managed, twice>>

Delete(u) ==
    /\ At(u, "delete")
    /\ heap' = heap \ {actor[u].item}
    /\ twice' = (twice \/ actor[u].item \notin heap)
    /\ actor' = [actor EXCEPT ![u].item = NoItem,
                              ![u].at = IF u = "timer" THEN "walk"
                                        ELSE IF actor[u].new # NoItem THEN "exists" ELSE "idle"]
    /\ UNCHANGED <<map, timeouts, copy, ticks, managed>>

-----------------------------------------------------------------------------
(* Callers.                                                                *)

Calling(u) == At(u, "idle") /\ managed < MaxManaged /\ managed' = managed + 1

\* add(key, item, timeout): frees the item the key has ...
add(u, k, a, d) ==
    /\ Calling(u)
    /\ a \notin heap
    /\ heap' = heap \cup {a}
    /\ actor' = [actor EXCEPT ![u] = [Idle EXCEPT !.at = "remove", !.key = k, !.new = a, !.delay = d]]
    /\ UNCHANGED <<map, timeouts, copy, ticks, twice>>

free(u, k) ==
    /\ Calling(u)
    /\ actor' = [actor EXCEPT ![u] = [Idle EXCEPT !.at = "remove", !.key = k]]
    /\ UNCHANGED <<map, timeouts, heap, copy, ticks, twice>>

RemoveKey(u) ==
    /\ At(u, "remove") /\ Remove(u)
    /\ UNCHANGED <<timeouts, heap, copy, ticks, managed, twice>>

\* ... throws if the key has got another meanwhile (the item stays the caller's) ...
Exists(u) ==
    /\ At(u, "exists")
    /\ IF map[actor[u].key] # NoItem
       THEN heap' = heap \ {actor[u].new} /\ actor' = [actor EXCEPT ![u] = Idle]
       ELSE Goto(u, "insert") /\ UNCHANGED heap
    /\ UNCHANGED <<map, timeouts, copy, ticks, managed, twice>>

\* ... puts the new item into the map, and then gives it its timeout.
Insert(u) ==
    /\ At(u, "insert")
    /\ map' = [map EXCEPT ![actor[u].key] = actor[u].new]
    /\ actor' = [actor EXCEPT ![u].at = IF actor[u].delay > 0 THEN "set" ELSE "idle",
                              ![u].item = actor[u].new, ![u].new = NoItem]
    /\ UNCHANGED <<timeouts, heap, copy, ticks, managed, twice>>

\* expires(key, timeout): get() and setTimeout() are two critical sections.
expires(u, k, d) ==
    /\ Calling(u)
    /\ map[k] # NoItem
    /\ actor' = [actor EXCEPT ![u] = [Idle EXCEPT !.at = "set", !.item = map[k], !.delay = d]]
    /\ UNCHANGED <<map, timeouts, heap, copy, ticks, twice>>

setTimeout(u) ==
    /\ At(u, "set")
    /\ timeouts' = [timeouts EXCEPT ![actor[u].item] =
                       IF actor[u].delay > 0 THEN ticks + actor[u].delay ELSE 0]
    /\ actor' = [actor EXCEPT ![u] = Idle]
    /\ UNCHANGED <<map, heap, copy, ticks, managed, twice>>

\* clear(): all items are deleted under _mutex, their timeouts after that.
clear(u) ==
    /\ Calling(u)
    /\ heap' = heap \ Range(map)
    /\ twice' = (twice \/ ~(Range(map) \ {NoItem} \subseteq heap))
    /\ map' = [k \in Key |-> NoItem]
    /\ Goto(u, "clear")
    /\ UNCHANGED <<timeouts, copy, ticks>>

ClearTimeouts(u) ==
    /\ At(u, "clear")
    /\ timeouts' = [a \in Addr |-> 0]
    /\ actor' = [actor EXCEPT ![u] = Idle]
    /\ UNCHANGED <<map, heap, copy, ticks, managed, twice>>

-----------------------------------------------------------------------------
(* The timer: onTimerUpdate().                                             *)

CopyTimeouts ==
    /\ At("timer", "idle")
    /\ \E a \in Addr : timeouts[a] # 0
    /\ copy' = timeouts
    /\ Goto("timer", "walk")
    /\ UNCHANGED <<map, timeouts, heap, ticks, managed, twice>>

\* onTimeout(): only what remove(item) finds in the map is deleted.
onTimeout(a) ==
    /\ map' = [k \in Key |-> IF map[k] = a THEN NoItem ELSE map[k]]
    /\ actor' = [actor EXCEPT !["timer"] =
                    IF a \in Range(map) THEN [Idle EXCEPT !.at = "erase", !.item = a] ELSE @]

Walk ==
    /\ At("timer", "walk")
    /\ \E a \in Addr :
          /\ copy[a] # 0
          /\ copy' = [copy EXCEPT ![a] = 0]
          /\ IF expired(copy[a]) THEN onTimeout(a) ELSE UNCHANGED <<map, actor>>
    /\ UNCHANGED <<timeouts, heap, ticks, managed, twice>>

WalkEnds ==
    /\ At("timer", "walk") /\ \A a \in Addr : copy[a] = 0
    /\ Goto("timer", "idle")
    /\ UNCHANGED <<map, timeouts, heap, copy, ticks, managed, twice>>

Timer == CopyTimeouts \/ Walk \/ WalkEnds \/ OnRemove("timer") \/ Delete("timer")

ClockTick ==
    /\ ticks < MaxTicks
    /\ ticks' = ticks + 1
    /\ UNCHANGED <<map, timeouts, heap, actor, copy, managed, twice>>

UserStep(u) ==
    \/ RemoveKey(u) \/ OnRemove(u) \/ Delete(u) \/ Exists(u) \/ Insert(u)
    \/ setTimeout(u) \/ ClearTimeouts(u)

TimedNext ==
    \/ Timer \/ ClockTick
    \/ \E u \in User :
          \/ UserStep(u) \/ clear(u)
          \/ \E k \in Key : free(u, k) \/ \E d \in Delay : expires(u, k, d) \/ \E a \in Addr : add(u, k, a, d)

\* The loop's timer runs.
TimedSpec == TimedInit /\ [][TimedNext]_timedvars /\ WF_timedvars(Timer)

-----------------------------------------------------------------------------
(* Properties.                                                             *)

\* The map holds only items that exist, and no item is deleted twice, whoever frees
\* it and however the timer's copy has aged (timedmanager.h:121).
ManagedAlive ==
    /\ ~twice
    /\ Range(map) \ {NoItem} \subseteq heap

\* An item whose timeout is over leaves the map, or gets another timeout.
TimeoutsHappen ==
    \A a \in Addr : (a \in Range(map) /\ expired(timeouts[a])) ~> ~(a \in Range(map) /\ expired(timeouts[a]))
=============================================================================
