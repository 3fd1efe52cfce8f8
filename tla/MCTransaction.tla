--------------------------- MODULE MCTransaction ---------------------------
(* Finite instances of Transaction.                                        *)
EXTENDS Transaction

CONSTANTS t1, t2, t3

\* A net::Transaction may retransmit, a sockio::Transaction does not.
NetRetries == [t \in Tx |-> IF t \in OverNet THEN 2 ELSE 0]
=============================================================================
