------------------------- MODULE TransactionProofs -------------------------
(***************************************************************************)
(* Proofs about Transaction, for any number of transactions and retries    *)
(* and any behaviour of the network and the application.                   *)
(***************************************************************************)
EXTENDS Transaction, TLAPS

\* The types of what the proofs speak about.
Types ==
    /\ state \in [Tx -> States]
    /\ attempts \in [Tx -> Nat]
    /\ timer \in [Tx -> BOOLEAN] /\ disposed \in [Tx -> BOOLEAN]
    /\ deleted \in [Tx -> BOOLEAN] /\ listening \in [Tx -> BOOLEAN]
    /\ excused \in [Tx -> BOOLEAN]
    /\ answers \in [Tx -> Nat]
    /\ inCallback \in Tx \cup {NoTx}

\* Once its delegate has returned, an answered transaction is disposed of and
\* neither running nor timed; only a cancelled or unlucky one fails early; what
\* is deleted was disposed of, has no timer and, over a socket, is detached.
TxInv(t) ==
    /\ inCallback = t => answers[t] = 1
    /\ inCallback # t /\ answers[t] # 0 =>
          answers[t] = 1 /\ disposed[t] /\ state[t] # "Running" /\ ~timer[t]
    /\ state[t] = "Cancelled" => excused[t]
    /\ state[t] = "Failed" /\ ~excused[t] => attempts[t] = Retries[t] + 1
    /\ deleted[t] => disposed[t] /\ ~timer[t] /\ (t \in OverNet => ~listening[t])
    /\ attempts[t] <= Retries[t] + 1

Inv == Types /\ (\A t \in Tx : TxInv(t)) /\ touched \cap OverNet = {}

\* The initial state satisfies the invariant.
LEMMA InitInv == Init => Inv
BY TransactionAssumption DEF Init, Inv, Types, TxInv, States

\* A step that changes at most the variables of one transaction t preserves the
\* invariant if it establishes it for t.
LEMMA OneInv ==
    ASSUME NEW t \in Tx, \A u \in Tx : TxInv(u), TxInv(t)',
           Types, Types',
           inCallback' = inCallback \/ {inCallback, inCallback'} \subseteq {t, NoTx},
           \A u \in Tx \ {t} :
              /\ state'[u] = state[u] /\ attempts'[u] = attempts[u]
              /\ timer'[u] = timer[u] /\ disposed'[u] = disposed[u]
              /\ deleted'[u] = deleted[u] /\ listening'[u] = listening[u]
              /\ excused'[u] = excused[u] /\ answers'[u] = answers[u]
    PROVE  (\A u \in Tx : TxInv(u))'
<1> SUFFICES ASSUME NEW u \in Tx PROVE TxInv(u)'
  OBVIOUS
<1>1. CASE u = t
  BY <1>1
<1>2. CASE u # t
  <2>1. (inCallback' = u) <=> (inCallback = u)
    BY <1>2, TransactionAssumption
  <2>2. TxInv(u)
    OBVIOUS
  <2> QED
    BY <1>2, <2>1, <2>2 DEF TxInv
<1> QED
  BY <1>1, <1>2

\* send(), called by the application or by the timer.
LEMMA DoSendInv ==
    ASSUME Inv, NEW t \in Tx, DoSend(t), ~deleted[t], ~disposed[t] \/ timer[t],
           UNCHANGED <<deleted, inCallback, answers, touched>>
    PROVE  Inv'
<1> USE TransactionAssumption
<1>0. Types /\ TxInv(t)
  BY DEF Inv
<1>1. Types'
  <2>1. CASE Sent(t)
    <3>1. CASE CanResend(t)
      <4>1. attempts[t] + 1 \in Nat /\ attempts[t] + 1 <= Retries[t] + 1
        BY <1>0, <3>1 DEF Types, CanResend
      <4>2. /\ attempts' = [attempts EXCEPT ![t] = @ + 1]
            /\ timer' = [timer EXCEPT ![t] = TRUE]
            /\ state' = [state EXCEPT ![t] = "Running"]
            /\ listening' = [listening EXCEPT ![t] = TRUE]
            /\ UNCHANGED <<disposed, deleted, excused, answers, inCallback>>
        BY <2>1, <3>1 DEF DoSend, Sent, Start
      <4>3. attempts' \in [Tx -> Nat]
        BY <1>0, <4>1, <4>2 DEF Types
      <4> QED
        BY <1>0, <4>2, <4>3 DEF Types, States
    <3>2. CASE ~CanResend(t)
      BY <1>0, <2>1, <3>2 DEF Types, DoSend, Sent, Start, own
    <3> QED
      BY <3>1, <3>2
  <2>2. CASE NotSent(t)
    BY <1>0, <2>2 DEF Types, DoSend, NotSent, Finish, Dispose, own, States
  <2> QED
    BY <2>1, <2>2 DEF DoSend
<1>2. TxInv(t)'
  <2>1. CASE Sent(t)
    <3>1. CASE CanResend(t)
      BY <1>0, <2>1, <3>1 DEF Types, TxInv, DoSend, Sent, Start, CanResend, States
    <3>2. CASE ~CanResend(t)
      BY <1>0, <2>1, <3>2 DEF Types, TxInv, DoSend, Sent, Start, own, States
    <3> QED
      BY <3>1, <3>2
  <2>2. CASE NotSent(t)
    BY <1>0, <2>2 DEF Types, TxInv, DoSend, NotSent, Finish, Dispose, own, States
  <2> QED
    BY <2>1, <2>2 DEF DoSend
<1>3. \A u \in Tx \ {t} :
              /\ state'[u] = state[u] /\ attempts'[u] = attempts[u]
              /\ timer'[u] = timer[u] /\ disposed'[u] = disposed[u]
              /\ deleted'[u] = deleted[u] /\ listening'[u] = listening[u]
              /\ excused'[u] = excused[u] /\ answers'[u] = answers[u]
  BY <1>0 DEF Types, DoSend, Sent, NotSent, Start, Finish, Dispose, own
<1>4. (\A u \in Tx : TxInv(u))'
  BY <1>0, <1>1, <1>2, <1>3, OneInv DEF Inv
<1> QED
  BY <1>1, <1>4 DEF Inv

\* Every step preserves the invariant.
LEMMA NextInv == Inv /\ [Next]_vars => Inv'
<1> SUFFICES ASSUME Inv, [Next]_vars PROVE Inv'
  OBVIOUS
<1> USE TransactionAssumption
<1>0. Types /\ (\A u \in Tx : TxInv(u)) /\ touched \cap OverNet = {}
  BY DEF Inv
<1>1. ASSUME NEW t \in Tx, Send(t) PROVE Inv'
  BY <1>0, <1>1, DoSendInv DEF Send, TxInv
<1>2. ASSUME NEW t \in Tx, Cancel(t) PROVE Inv'
  <2>1. Types'
    BY <1>0, <1>2 DEF Types, Cancel, States
  <2>2. TxInv(t)'
    BY <1>0, <1>2 DEF Types, TxInv, Cancel
  <2> QED
    BY <1>0, <1>2, <2>1, <2>2, OneInv DEF Inv, Types, Cancel
<1>3. ASSUME NEW t \in Tx, AppDispose(t) PROVE Inv'
  <2>1. Types'
    BY <1>0, <1>3 DEF Types, AppDispose, Dispose, aux
  <2>2. TxInv(t)'
    BY <1>0, <1>3 DEF Types, TxInv, AppDispose, Dispose, aux
  <2> QED
    BY <1>0, <1>3, <2>1, <2>2, OneInv DEF Inv, Types, AppDispose, Dispose, aux
<1>4. ASSUME NEW t \in Tx, Timeout(t) PROVE Inv'
  <2>1. CASE CanResend(t) /\ DoSend(t)
    BY <1>0, <1>4, <2>1, DoSendInv DEF Timeout, TxInv, Types
  <2>2. CASE ~CanResend(t) /\ Finish(t, "Failed") /\ UNCHANGED <<listening, net, excused>>
    <3>1. Types'
      BY <1>0, <1>4, <2>2 DEF Types, Timeout, Finish, Dispose, States
    <3>2. TxInv(t)'
      BY <1>0, <1>4, <2>2 DEF Types, TxInv, Timeout, Finish, Dispose, CanResend
    <3> QED
      BY <1>0, <1>4, <2>2, <3>1, <3>2, OneInv DEF Inv, Types, Timeout, Finish, Dispose
  <2> QED
    BY <1>4, <2>1, <2>2 DEF Timeout
<1>5. ASSUME NEW t \in Tx, Respond(t) PROVE Inv'
  <2>1. Types'
    BY <1>0, <1>5 DEF Types, Respond, own
  <2>2. TxInv(t)'
    BY <1>0, <1>5 DEF Types, TxInv, Respond, own
  <2> QED
    BY <1>0, <1>5, <2>1, <2>2, OneInv DEF Inv, Types, Respond, own
<1>6. ASSUME NEW t \in Tx, Responded(t) PROVE Inv'
  <2>1. Types'
    BY <1>0, <1>6 DEF Types, Responded, Finish, Dispose, aux, States
  <2>2. TxInv(t)'
    BY <1>0, <1>6 DEF Types, TxInv, Responded, Finish, Dispose, aux
  <2> QED
    BY <1>0, <1>6, <2>1, <2>2, OneInv DEF Inv, Types, Responded, Finish, Dispose, aux
<1>7. ASSUME NEW t \in Tx, Delete(t) PROVE Inv'
  <2>1. Types'
    BY <1>0, <1>7 DEF Types, Delete, aux
  <2>2. TxInv(t)'
    BY <1>0, <1>7 DEF Types, TxInv, Delete, aux
  <2> QED
    BY <1>0, <1>7, <2>1, <2>2, OneInv DEF Inv, Types, Delete, aux
<1>8. ASSUME NEW t \in Tx, Answer(t) PROVE Inv'
  BY <1>0, <1>8 DEF Inv, Types, TxInv, Answer, own, aux
<1>9. ASSUME NEW t \in Tx, Touch(t) PROVE Inv'
  <2>1. \A u \in Dangling(t) : u \notin OverNet
    BY <1>0 DEF Dangling, TxInv
  <2>2. touched' \cap OverNet = {}
    BY <1>9, <2>1 DEF Touch
  <2> QED
    BY <1>0, <1>9, <2>2 DEF Inv, Types, TxInv, Touch, own, aux
<1>10. CASE UNCHANGED vars
  BY <1>0, <1>10 DEF Inv, Types, TxInv, vars, own, aux
<1> QED
  BY <1>1, <1>2, <1>3, <1>4, <1>5, <1>6, <1>7, <1>8, <1>9, <1>10 DEF Next, Loop

\* The response is given to the delegate at most once, and a transaction that
\* times out has spent all its attempts, for every number of retries.
THEOREM TransactionCorrect == Spec => [](AnsweredOnce /\ FailsOutOfAttempts)
<1>1. Inv => AnsweredOnce /\ FailsOutOfAttempts
  <2> SUFFICES ASSUME Inv, NEW t \in Tx
               PROVE  /\ answers[t] <= 1
                      /\ state[t] = "Failed" /\ ~excused[t] => attempts[t] = Retries[t] + 1
    BY DEF AnsweredOnce, FailsOutOfAttempts
  <2> QED
    BY DEF Inv, Types, TxInv
<1> QED
  BY <1>1, InitInv, NextInv, PTL DEF Spec

\* A transaction that fails without a cancel() or a failed send has made every
\* attempt its retries allow (PacketTransaction::onTimeout).
THEOREM FailureCorrect == Spec => []FailsOutOfAttempts
  BY TransactionCorrect, PTL

\* Over a socket no packet is handed to a deleted transaction.
THEOREM DeletedIsDetached == Spec => []NoPacketAfterDelete
<1>1. Inv => NoPacketAfterDelete
  BY DEF Inv, NoPacketAfterDelete
<1> QED
  BY <1>1, InitInv, NextInv, PTL DEF Spec
=============================================================================
