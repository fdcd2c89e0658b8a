------------------------------ MODULE RoleFeed ------------------------------
(***************************************************************************)
(* What the raft threads promise to their consumers: the sequence of       *)
(* RaftInfo values ClusterDataReplicator::onRoleChanged is called with at  *)
(* each node.  RaftElections implements it; RoleSwitch relies on it.       *)
(***************************************************************************)
CONSTANTS Nodes, NoNode
VARIABLE info

Ids == Nodes \cup {NoNode}
Candidate(l) == [role |-> "Candidate", leaderId |-> l]
Follower(l) == [role |-> "Follower", leaderId |-> l]
Leader(n) == [role |-> "Leader", leaderId |-> n]
Candidates == {Candidate(l) : l \in Ids}
Followers == {Follower(l) : l \in Ids}
Infos(n) == {Leader(n)} \cup Candidates \cup Followers

\* A leader goes back to the elections; the elections begin again or end; a
\* follower goes back to the elections or is pinged by another leader.
RoleStep(n, from, to) ==
    \/ from = Leader(n) /\ to = Candidate(n)
    \/ from \in Candidates /\ to \in Infos(n)
    \/ from \in Followers /\ to \in Infos(n) \ {from, Leader(n)}

Init == info = [n \in Nodes |-> Candidate(NoNode)]

Next ==
    \E n \in Nodes : \E to \in Infos(n) :
        RoleStep(n, info[n], to) /\ info' = [info EXCEPT ![n] = to]

Spec == Init /\ [][Next]_info
=============================================================================
