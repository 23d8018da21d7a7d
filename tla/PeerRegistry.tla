---------------------------- MODULE PeerRegistry -----------------------------
(***************************************************************************)
(* What the peer registry promises (spec section 4.1), with the peer info  *)
(* itself abstracted away: a peer is cooperative (it has an entry in the   *)
(* peer map, so GetAheadPeers may return it), uncooperative (demoted), or  *)
(* unknown.  UpsertPeer admits or re-admits a peer; MarkUncooperative      *)
(* moves a cooperative peer to the uncooperative set and is a no-op on any *)
(* other peer.  DataClockSync refines this module.                         *)
(***************************************************************************)
CONSTANT Peers

VARIABLES cooperative, uncooperative

Init ==
    /\ cooperative \subseteq Peers
    /\ uncooperative = {}

Upsert(p) ==
    /\ cooperative' = cooperative \cup {p}
    /\ uncooperative' = uncooperative \ {p}

MarkUncooperative(p) ==
    /\ p \in cooperative
    /\ cooperative' = cooperative \ {p}
    /\ uncooperative' = uncooperative \cup {p}

Next == \E p \in Peers : Upsert(p) \/ MarkUncooperative(p)

Spec == Init /\ [][Next]_<<cooperative, uncooperative>>

\* A peer is never both in the peer map and in the uncooperative map.
Separate == cooperative \cap uncooperative = {}

=============================================================================
