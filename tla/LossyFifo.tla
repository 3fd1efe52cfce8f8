----------------------------- MODULE LossyFifo -----------------------------
(***************************************************************************)
(* What the packet queues of base/include/scy/queue.h promise: packets     *)
(* come out in the order they went in, each at most once.  A packet may be *)
(* dropped (purged at the limit, or abandoned by a cancelled queue), never *)
(* overtaken or repeated.  Packets are numbered in the order of push().    *)
(***************************************************************************)
EXTENDS Integers

VARIABLES
    pushed,   \* packets pushed so far
    waiting,  \* the numbers of those not delivered or dropped yet
    last      \* the last one delivered, 0 before the first

Init == pushed = 0 /\ waiting = {} /\ last = 0

\* A full queue drops packets to take a new one.
Push ==
    /\ pushed' = pushed + 1
    /\ \E kept \in SUBSET waiting : waiting' = kept \cup {pushed + 1}
    /\ UNCHANGED last

Deliver ==
    /\ \E i \in waiting :
          /\ \A j \in waiting : i <= j
          /\ last' = i
          /\ waiting' = waiting \ {i}
    /\ UNCHANGED pushed

Drop ==
    /\ waiting' \in SUBSET waiting
    /\ UNCHANGED <<pushed, last>>

Next == Push \/ Deliver \/ Drop

Spec == Init /\ [][Next]_<<pushed, waiting, last>>
=============================================================================
