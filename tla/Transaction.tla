---------------------------- MODULE Transaction ----------------------------
(***************************************************************************)
(* Request/response transactions: PacketTransaction                        *)
(* (base/include/scy/packettransaction.h) as used over a socket by         *)
(* net::Transaction and stun::Transaction (net/include/scy/net/            *)
(* transaction.h, stun/src/transaction.cpp), or over a socket.io client by *)
(* sockio::Transaction (socketio/src/transaction.cpp).                     *)
(*                                                                         *)
(* Everything runs on one event loop, so a handler is one action, except   *)
(* that the application's delegate is called in the middle of a response:  *)
(* inCallback is the transaction whose delegate is running, and the        *)
(* application may call any method meanwhile.  The network loses,          *)
(* duplicates and reorders: a message stays in net and may be delivered    *)
(* any number of times, or never.                                          *)
(***************************************************************************)
EXTENDS Integers, FiniteSets

CONSTANTS
    Tx,        \* transactions
    NoTx,      \* no transaction
    Retries,   \* Retries[t]: _retries
    OverNet,   \* those that are a net::Transaction; the others are sockio::Transactions
    MaxSends   \* bound: calls of send() the application makes per transaction

ASSUME TransactionAssumption ==
    /\ NoTx \notin Tx
    /\ Retries \in [Tx -> Nat] /\ MaxSends \in Nat
    /\ OverNet \subseteq Tx

VARIABLES
    state,       \* state[t]: TransactionState
    attempts,    \* attempts[t]: _attempts
    timer,       \* timer[t]: the timer is active, with onTimeout() attached
    disposed,    \* disposed[t]: _destroyed
    deleted,     \* deleted[t]: the garbage collector has deleted it
    listening,   \* listening[t]: it receives the packets of the socket or client
    net,         \* messages ever sent: <<"request", t>>, <<"response", t>>
    inCallback,  \* the transaction whose delegate is running, or NoTx
    calls,       \* calls[t]: calls of send() made by the application (auxiliary)
    answers,     \* answers[t]: responses given to the delegate (auxiliary)
    excused,     \* excused[t]: it was cancelled or a send failed (auxiliary)
    touched      \* deleted transactions that were handed a packet: undefined from then on

own == <<state, attempts, timer, disposed>>
aux == <<calls, answers, excused>>
vars == <<own, deleted, listening, net, inCallback, aux, touched>>

States == {"Waiting", "Running", "Success", "Cancelled", "Failed"}

TypeOK ==
    /\ state \in [Tx -> States]
    /\ attempts \in [Tx -> Nat] /\ \A t \in Tx : attempts[t] <= Retries[t] + 1
    /\ {timer, disposed, deleted, listening, excused} \subseteq [Tx -> BOOLEAN]
    /\ net \subseteq {"request", "response"} \X Tx
    /\ inCallback \in Tx \cup {NoTx}
    /\ calls \in [Tx -> 0..MaxSends] /\ answers \in [Tx -> Nat]
    /\ touched \subseteq Tx

Init ==
    /\ state = [t \in Tx |-> "Waiting"]
    /\ attempts = [t \in Tx |-> 0]
    /\ timer = [t \in Tx |-> FALSE]
    /\ disposed = [t \in Tx |-> FALSE]
    /\ deleted = [t \in Tx |-> FALSE]
    /\ listening = [t \in Tx |-> t \in OverNet]
    /\ net = {} /\ inCallback = NoTx
    /\ calls = [t \in Tx |-> 0]
    /\ answers = [t \in Tx |-> 0]
    /\ excused = [t \in Tx |-> FALSE]
    /\ touched = {}

\* The deleted transactions still attached to the socket or client that t uses.
Dangling(t) ==
    {u \in Tx : (u \in OverNet <=> t \in OverNet) /\ listening[u] /\ deleted[u]}

-----------------------------------------------------------------------------
(* Faulty variants, used to show that the properties can fail.             *)

RespondAnyState(t) ==
    /\ inCallback = NoTx /\ touched = {} /\ Dangling(t) = {}
    /\ <<"response", t>> \in net /\ listening[t] /\ state[t] # "Waiting"
    /\ inCallback' = t
    /\ answers' = [answers EXCEPT ![t] = @ + 1]
    /\ listening' = [listening EXCEPT ![t] = t \in OverNet]
    /\ UNCHANGED <<own, deleted, net, calls, excused, touched>>

CanResendOnceLess(t) == state[t] # "Cancelled" /\ attempts[t] < Retries[t]

DeleteAttached(t) ==
    /\ inCallback = NoTx /\ disposed[t] /\ ~deleted[t] /\ touched = {}
    /\ deleted' = [deleted EXCEPT ![t] = TRUE]
    /\ timer' = [timer EXCEPT ![t] = FALSE]
    /\ UNCHANGED <<state, attempts, disposed, listening, net, inCallback, aux, touched>>

CancelStopsTimer(t) ==
    /\ ~disposed[t] /\ touched = {}
    /\ state' = [state EXCEPT ![t] = "Cancelled"]
    /\ timer' = [timer EXCEPT ![t] = FALSE]
    /\ excused' = [excused EXCEPT ![t] = TRUE]
    /\ UNCHANGED <<attempts, disposed, deleted, listening, net, inCallback, calls, answers, touched>>

-----------------------------------------------------------------------------
(* Steps shared by the handlers.                                           *)

CanResend(t) == state[t] # "Cancelled" /\ attempts[t] <= Retries[t]

\* dispose(): detach and stop the timer, schedule the deletion.
Dispose(t) ==
    /\ disposed' = [disposed EXCEPT ![t] = TRUE]
    /\ timer' = [timer EXCEPT ![t] = FALSE]

\* setState(Success or Failed) and the dispose() of onStateChange().
Finish(t, st) ==
    /\ state' = [state EXCEPT ![t] = st]
    /\ Dispose(t)
    /\ UNCHANGED attempts

\* PacketTransaction::send(): (re)start the timer, unless out of attempts.
Start(t) ==
    IF CanResend(t)
    THEN /\ attempts' = [attempts EXCEPT ![t] = @ + 1]
         /\ timer' = [timer EXCEPT ![t] = TRUE]
         /\ state' = [state EXCEPT ![t] = "Running"]
         /\ UNCHANGED disposed
    ELSE UNCHANGED own

\* send() of net::Transaction and of sockio::Transaction: the packet goes out
\* first; if it cannot be sent the former fails.
Sent(t) ==
    /\ net' = net \cup {<<"request", t>>}
    /\ Start(t)
    /\ UNCHANGED excused

NotSent(t) ==
    /\ IF t \in OverNet THEN Finish(t, "Failed") ELSE UNCHANGED own
    /\ excused' = [excused EXCEPT ![t] = TRUE]
    /\ UNCHANGED net

DoSend(t) ==
    /\ listening' = [listening EXCEPT ![t] = TRUE]
    /\ Sent(t) \/ NotSent(t)

-----------------------------------------------------------------------------
(* The application, on the loop or in a delegate.  It does not use a       *)
(* transaction any more once that has been disposed of.                    *)

Send(t) ==
    /\ ~disposed[t] /\ calls[t] < MaxSends /\ touched = {}
    /\ calls' = [calls EXCEPT ![t] = @ + 1]
    /\ DoSend(t)
    /\ UNCHANGED <<deleted, inCallback, answers, touched>>

Cancel(t) ==
    /\ ~disposed[t] /\ touched = {}
    /\ state' = [state EXCEPT ![t] = "Cancelled"]
    /\ excused' = [excused EXCEPT ![t] = TRUE]
    /\ UNCHANGED <<attempts, timer, disposed, deleted, listening, net, inCallback,
                   calls, answers, touched>>

AppDispose(t) ==
    /\ ~disposed[t] /\ touched = {}
    /\ Dispose(t)
    /\ UNCHANGED <<state, attempts, deleted, listening, net, inCallback, aux, touched>>

-----------------------------------------------------------------------------
(* The event loop.                                                         *)

\* onTimeout(): send again, or fail.
Timeout(t) ==
    /\ inCallback = NoTx /\ timer[t] /\ touched = {}
    /\ \/ CanResend(t) /\ DoSend(t)
       \/ ~CanResend(t) /\ Finish(t, "Failed") /\ UNCHANGED <<listening, net, excused>>
    /\ UNCHANGED <<deleted, inCallback, calls, answers, touched>>

\* The peer answers a request, each time it receives it.
Answer(t) ==
    /\ <<"request", t>> \in net
    /\ net' = net \cup {<<"response", t>>}
    /\ UNCHANGED <<own, deleted, listening, inCallback, aux, touched>>

\* handlePotentialResponse(): the packet is offered to everyone listening; the
\* transaction it matches calls the delegates if it is running.
Respond(t) ==
    /\ inCallback = NoTx /\ touched = {} /\ Dangling(t) = {}
    /\ <<"response", t>> \in net /\ listening[t] /\ state[t] = "Running"
    /\ inCallback' = t
    /\ answers' = [answers EXCEPT ![t] = @ + 1]
    /\ listening' = [listening EXCEPT ![t] = t \in OverNet]
    /\ UNCHANGED <<own, deleted, net, calls, excused, touched>>

Responded(t) ==
    /\ inCallback = t
    /\ Finish(t, "Success")
    /\ inCallback' = NoTx
    /\ UNCHANGED <<deleted, listening, net, aux, touched>>

\* A packet reaches the slots of deleted transactions.
Touch(t) ==
    /\ inCallback = NoTx /\ touched = {} /\ Dangling(t) # {}
    /\ <<"response", t>> \in net
    /\ touched' = Dangling(t)
    /\ UNCHANGED <<own, deleted, listening, net, inCallback, aux>>

\* The garbage collector, between two callbacks.  ~SocketEmitter detaches the
\* transaction from its socket.
Delete(t) ==
    /\ inCallback = NoTx /\ disposed[t] /\ ~deleted[t] /\ touched = {}
    /\ deleted' = [deleted EXCEPT ![t] = TRUE]
    /\ timer' = [timer EXCEPT ![t] = FALSE]
    /\ listening' = [listening EXCEPT ![t] = @ /\ t \notin OverNet]
    /\ UNCHANGED <<state, attempts, disposed, net, inCallback, aux, touched>>

Loop(t) == Timeout(t) \/ Responded(t) \/ Delete(t)

Next ==
    \/ \E t \in Tx : Send(t) \/ Cancel(t) \/ AppDispose(t)
    \/ \E t \in Tx : Loop(t) \/ Respond(t) \/ Touch(t) \/ Answer(t)

Spec == Init /\ [][Next]_vars

\* Timers fire, delegates return and the garbage collector runs.  Nothing is
\* assumed of the network or of the application.
FairSpec == Spec /\ \A t \in Tx : WF_vars(Loop(t))

-----------------------------------------------------------------------------
(* Properties.                                                             *)

\* However often the request is retransmitted and the response duplicated, and
\* whatever the delegate does meanwhile (cancel, send again, dispose), it is
\* given the response at most once.
AnsweredOnce == \A t \in Tx : answers[t] <= 1

\* A transaction that fails without having been cancelled and without a failed
\* send has used up its retries: a timer left over from an earlier attempt or
\* restarted by an explicit send() never cuts it short.
FailsOutOfAttempts ==
    \A t \in Tx : state[t] = "Failed" /\ ~excused[t] => attempts[t] = Retries[t] + 1

\* "The object will be deleted after a successful response or a timeout"
\* (packettransaction.h): a transaction that has been sent is deleted in the
\* end, cancelled or not, whatever the network does.
SentIsDeleted ==
    \A t \in Tx : (state[t] = "Running") ~> (deleted[t] \/ touched # {})

\* A deleted net::Transaction gets no packet, whatever arrives late: the
\* destructor of its SocketEmitter takes it off the socket.
NoPacketAfterDelete == touched \cap OverNet = {}

=============================================================================
