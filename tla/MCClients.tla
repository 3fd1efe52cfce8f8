----------------------------- MODULE MCClients -----------------------------
(***************************************************************************)
(* Finite instances of the clients: the TURN client, the data connections  *)
(* of TURN over TCP, and the Symple client.  Each behaviour is one of one  *)
(* of them: `who` says which, and the variables of the others stay as they *)
(* are.  Who is a constant, so that a run can look at one client alone.    *)
(***************************************************************************)
EXTENDS TurnClient, TurnTcp, SympleClient

CONSTANT Who

VARIABLE who

clientvars == <<who, vars, tcpvars, symplevars>>

InitClients ==
    /\ who \in Who
    /\ Init /\ TcpInit /\ SympleInit
    /\ who # "turn" => client.perms = TurnPeer
    /\ who # "symple" => sio.reconnection /\ ~sio.reconnecting

NextClients ==
    /\ UNCHANGED who
    /\ \/ who = "turn" /\ Next /\ UNCHANGED <<tcpvars, symplevars>>
       \/ who = "tcp" /\ TcpNext /\ UNCHANGED <<vars, symplevars>>
       \/ who = "symple" /\ SympleNext /\ UNCHANGED <<vars, tcpvars>>

\* The fairness of each client's own specification.
FairnessClients ==
    /\ WF_vars(who = "turn" /\ onSocketConnect) /\ WF_vars(who = "turn" /\ Fail)
    /\ \A p \in RelayPeer : /\ WF_tcpvars(who = "tcp" /\ ServerReads(p))
                            /\ WF_tcpvars(who = "tcp" /\ ClientReads(p))
                            /\ WF_tcpvars(who = "tcp" /\ PeerRead(p))
    /\ WF_tcpvars(who = "tcp" /\ onControlClosed) /\ WF_tcpvars(who = "tcp" /\ onServerTimer)
    /\ WF_symplevars(who = "symple" /\ onReconnectTimer)
    /\ WF_symplevars(who = "symple" /\ sioSocketRecv)
    /\ WF_symplevars(who = "symple" /\ \E k \in sio.txns : onAnnounceTimeout(k))

ClientsSpec == InitClients /\ [][NextClients]_clientvars /\ FairnessClients

-----------------------------------------------------------------------------
\* Modules TurnClient, TurnTcp and SympleClient: a TURN client that was initiated
\* succeeds, fails or is shut down, the two ends of a relayed connection close
\* together, and a Symple client in error tries again, however often it failed
\* before (onTransactionProgress, onConnectionClosed, setError).
ClientsSettle == TurnClientSettles /\ EndsCloseTogether /\ ErrorsAreRetried
=============================================================================
