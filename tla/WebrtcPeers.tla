---------------------------- MODULE WebrtcPeers ----------------------------
(***************************************************************************)
(* Peer and PeerManager (webrtc/src/peer.cpp, peermanager.cpp): who deletes *)
(* a peer, and when.  The manager owns its peers through a                 *)
(* PointerCollection.  WebRTC is external: it calls the peer back when the *)
(* connection closes, once, and when a description has been made or has    *)
(* failed, later and without keeping the peer alive (AddRef() does         *)
(* nothing).  deleteLater() leaves the deletion to the garbage collector.  *)
(***************************************************************************)
EXTENDS Integers, FiniteSets

CONSTANTS Peer

VARIABLES
    peer,     \* peer[p]: [at, conn, asked: a description is being made, deletions]
    listed,   \* the peers in the manager's map
    peerend   \* "": going on; "deadlock" or "dangling": undefined or stuck

peervars == <<peer, listed, peerend>>

PeerInit ==
    /\ peer = [p \in Peer |-> [at |-> "none", conn |-> "none", asked |-> FALSE, deletions |-> 0]]
    /\ listed = {} /\ peerend = ""

Usable(p) == peerend = "" /\ peer[p].at = "alive"

-----------------------------------------------------------------------------
(* A faulty variant, used to show that the property can fail.              *)

DeleteUnasked(p, new) ==
    /\ listed' = listed \ {p}
    /\ peer' = [peer EXCEPT ![p] = [new EXCEPT !.at = "doomed", !.deletions = @ + 1]]

-----------------------------------------------------------------------------
(* The application.                                                        *)

newPeer(p) ==
    /\ peerend = "" /\ peer[p].at = "none"
    /\ peer' = [peer EXCEPT ![p].at = "alive"]
    /\ listed' = listed \cup {p}
    /\ UNCHANGED peerend

createConnection(p) ==
    /\ Usable(p) /\ peer[p].conn = "none"
    /\ peer' = [peer EXCEPT ![p].conn = "open"]
    /\ UNCHANGED <<listed, peerend>>

\* createOffer(), or recvSDP() of an offer, asks WebRTC for a description.
createOffer(p) ==
    /\ Usable(p) /\ peer[p].conn = "open" /\ ~peer[p].asked
    /\ peer' = [peer EXCEPT ![p].asked = TRUE]
    /\ UNCHANGED <<listed, peerend>>

\* PeerManager::onClosed(), onFailure(): whoever finds the peer in the map has it deleted.
DeleteIfListed(p, new) ==
    /\ listed' = listed \ {p}
    /\ peer' = [peer EXCEPT ![p] = IF p \in listed
                                  THEN [new EXCEPT !.at = "doomed", !.deletions = @ + 1] ELSE new]

\* closeConnection(): the callback of Close(), or onClosed() itself if there is no
\* connection.  A closed connection does not call again.
closeConnection(p) ==
    /\ Usable(p)
    /\ peer[p].conn # "closed"
    /\ DeleteIfListed(p, [peer[p] EXCEPT !.conn = IF @ = "open" THEN "closed" ELSE @])
    /\ UNCHANGED peerend

-----------------------------------------------------------------------------
(* Callbacks of WebRTC.                                                    *)

\* OnSuccess() sets the description and sends it; the peer may be gone.
OnSuccess(p) ==
    /\ peerend = "" /\ peer[p].asked
    /\ peer' = [peer EXCEPT ![p].asked = FALSE]
    /\ peerend' = IF peer[p].at = "deleted" THEN "dangling" ELSE ""
    /\ UNCHANGED listed

OnFailure(p) ==
    /\ peerend = "" /\ peer[p].asked
    /\ IF peer[p].at = "deleted"
       THEN peerend' = "dangling" /\ UNCHANGED <<peer, listed>>
       ELSE DeleteIfListed(p, [peer[p] EXCEPT !.asked = FALSE]) /\ UNCHANGED peerend

-----------------------------------------------------------------------------
(* Deletion.                                                               *)

\* ~Peer() closes an open connection, and the callback of Close() looks for the
\* peer in the map.
Destroy(p, map, new) ==
    LET called == peer[p].conn = "open" IN
    /\ listed' = IF called THEN map \ {p} ELSE map
    /\ peer' = [peer EXCEPT ![p] = [new EXCEPT !.at = "deleted", !.conn = "closed",
                                               !.deletions = IF called /\ p \in map THEN @ + 1 ELSE @]]

\* The collector runs.
Collect(p) ==
    /\ peerend = "" /\ peer[p].at = "doomed"
    /\ Destroy(p, listed, peer[p])
    /\ UNCHANGED peerend

\* free(key): remove() and delete.
freePeer(p) ==
    /\ Usable(p) /\ p \in listed
    /\ Destroy(p, listed \ {p}, [peer[p] EXCEPT !.deletions = @ + 1])
    /\ UNCHANGED peerend

\* clear(), also in ~PointerCollection(): the peers are deleted under the mutex of the
\* map, which the callback of an open connection needs.
clearPeers ==
    /\ peerend = "" /\ listed # {}
    /\ IF \E p \in listed : peer[p].conn = "open"
       THEN peerend' = "deadlock" /\ UNCHANGED <<peer, listed>>
       ELSE /\ peer' = [p \in Peer |-> IF p \in listed
                           THEN [peer[p] EXCEPT !.at = "deleted", !.deletions = @ + 1] ELSE peer[p]]
            /\ listed' = {}
            /\ UNCHANGED peerend

PeerNext ==
    \/ \E p \in Peer :
          \/ newPeer(p) \/ createConnection(p) \/ createOffer(p) \/ closeConnection(p)
          \/ OnSuccess(p) \/ OnFailure(p) \/ Collect(p) \/ freePeer(p)
    \/ clearPeers

\* The garbage collector runs.
PeerSpec == PeerInit /\ [][PeerNext]_peervars /\ \A p \in Peer : WF_peervars(Collect(p))

-----------------------------------------------------------------------------
(* Properties.                                                             *)

\* Closing, failing, freeing and the destructor's own close meet, and a peer is
\* scheduled for deletion once (peermanager.cpp:112), and only when not in the map.
PeersDeletedOnce ==
    \A p \in Peer : /\ peer[p].deletions <= 1
                    /\ peer[p].at \in {"doomed", "deleted"} => p \notin listed

\* A peer that the manager has given up is deleted.
ClosedPeersGo ==
    \A p \in Peer : peer[p].at = "doomed" ~> peer[p].at = "deleted" \/ peerend # ""
=============================================================================
