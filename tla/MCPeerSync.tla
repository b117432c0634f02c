----------------------------- MODULE MCPeerSync -----------------------------
(* Two instances that find each other by SRV lookups.  Each polls the       *)
(* other, so data that were exported again could travel back.  The second   *)
(* is also in its own list of configured URLs, as when all instances are    *)
(* deployed with one list: it has two peers to poll one after the other.    *)
EXTENDS PeerSync, TLC

CONSTANTS n1, n2, l1

PairOwner == (l1 :> n1)
PairStatic == (n1 :> {}) @@ (n2 :> {n2})
PairSRV == (n1 :> {n2}) @@ (n2 :> {n1})

=============================================================================
