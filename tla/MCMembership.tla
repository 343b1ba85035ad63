---------------------------- MODULE MCMembership ----------------------------
(* A small network for Membership: 1 - 2 with two sites outside.           *)
EXTENDS Membership

Pair == (1 :> {2}) @@ (2 :> {1}) @@ (3 :> {}) @@ (4 :> {})
PairLayout == <<1, 2>>
NoClicks == [s \in Site |-> 0]

PlanOf(asks3, asks4, peer3, peer4, leavers) ==
    [asks |-> (3 :> asks3) @@ (4 :> asks4), peer |-> (3 :> peer3) @@ (4 :> peer4),
     leavers |-> leavers]
(* Two newcomers ask different peers; two ask the same one; one asks and   *)
(* the other neighbour of its peer leaves; one asks and its peer leaves.   *)
DifferentPeers == PlanOf(1, 1, 1, 2, {})
SamePeer == PlanOf(1, 1, 2, 2, {})
JoinAndLeave == PlanOf(1, 0, 1, 1, {2})
PeerLeaves == PlanOf(0, 1, 1, 2, {2})
OneEach == {DifferentPeers, SamePeer, JoinAndLeave, PeerLeaves}
=============================================================================
