--------------------------- MODULE RaftElections ---------------------------
(***************************************************************************)
(* Leader elections of the synchronous cluster: RaftManager (the voting    *)
(* data, the two phases of RunElectionsRound, the leader's ping routines)  *)
(* driven by ClusterDataReplicator::clusterControlRoutine.                 *)
(*                                                                         *)
(* Every node has one raft thread (control routine and its coroutines) and *)
(* RPC threads that run SuggestLeader and LeadersPing under the voting     *)
(* mutex.  A request, its handling at the peer and the delivery of the     *)
(* answer are separate steps; a request whose client gave up may still be  *)
(* handled later (late).  Time advances in ticks of kLeaderPingInterval or *)
(* coarser; all clocks are steady and run at the same rate.                *)
(***************************************************************************)
EXTENDS Naturals, FiniteSets

CONSTANTS
    Nodes,           \* the server ids of the cluster config
    NoNode,          \* the server id -1
    Lease,           \* kMinLeaderAwaitInterval, in ticks
    Deadline,        \* 0.8 * kMinLeaderAwaitInterval, in ticks
    DesiredTimeout,  \* kDesiredLeaderTimeout, in ticks
    Contenders,      \* bound: the nodes whose raft thread is scheduled
    Lossy,           \* bound: the nodes to which requests or answers get lost
    Commanded,       \* bound: the nodes that receive control commands
    Targets,         \* bound: the nodes the set_leader_node command may name
    MaxTerm,         \* bound: the number of the last elections term
    OneTerm,         \* bound: the nodes that begin no other term than the first
    MaxLate          \* bound: requests in flight that nobody waits for

ASSUME NodesAssumption == IsFiniteSet(Nodes) /\ NoNode \notin Nodes
ASSUME TimeAssumption ==
    /\ Lease \in Nat /\ Deadline \in Nat /\ DesiredTimeout \in Nat
    /\ Deadline < Lease /\ Deadline < DesiredTimeout
ASSUME BoundsAssumption ==
    /\ Contenders \subseteq Nodes /\ Lossy \subseteq Nodes
    /\ Commanded \subseteq Nodes /\ Targets \subseteq Nodes
    /\ MaxTerm \in Nat /\ MaxLate \in Nat

VARIABLES
    term, leaderId, role, pingAge,  \* VoteData; pingAge = now - lastLeaderPingTs
    holder,                         \* ghost: who sent the last accepted ping
    desired, desiredAge,            \* NextLeaderId and the age of its startPoint_
    pc, roundTerm, timer,           \* the control routine; timer: since roundBeg or sleep
    isDesiredLeader,                \* of RunElectionsRound: read when the round began
    restart,                        \* restartElections_
    info,                           \* the RaftInfo last given to onRoleChanged
    knownLeader,                    \* raftInfo.leaderId of clusterControlRoutine
    rpc,                            \* the coroutine of RunElectionsRound per peer
    ping, sentTerm, isOk,           \* the ping routine per peer, RaftNode::isOk
    late                            \* requests given up by their sender, not yet handled

voteVars == <<term, leaderId, role, pingAge, holder>>
desiredVars == <<desired, desiredAge>>
routineVars == <<pc, roundTerm, isDesiredLeader, timer, restart, info, knownLeader>>
pingVars == <<ping, sentTerm, isOk>>
vars == <<voteVars, desiredVars, routineVars, rpc, pingVars, late>>

Roles == {"None", "Leader", "Follower", "Candidate"}
RpcStates == {"none", "suggest", "yes", "no", "suspended", "resumed",
              "ping", "pong", "refused", "acked", "voted", "failed"}
PingStates == {"off", "idle", "sent"}
RoutineStates == {"loop", "drain", "round", "elected", "await", "yield",
                  "retry", "lead", "follow"}
Timed == {"drain", "round", "await", "yield"}  \* timer is meaningful in these
Requests == [kind : {"suggest", "ping"}, from : Nodes, to : Nodes, term : 0..MaxTerm]

Peers(n) == Nodes \ {n}

\* isConsensus, with GetConsensusForN
IsConsensus(num) == num >= Cardinality(Nodes) \div 2 + 1

\* leaderIsAvailable
LeaderIsAvailable(n) == pingAge[n] < Lease \/ role[n] = "Leader"

RaftInfo(r, l) == [role |-> r, leaderId |-> l]

----------------------------------------------------------------------------
(* The election round's coroutines.  A vote is counted when its answer     *)
(* arrives; the coroutine then waits until the outcome of phase 1 is known.*)

Unanswered == {"suggest", "yes", "no"}
Ended == {"acked", "voted", "failed"}

Voters(n, r) == {m \in Peers(n) : r[m] \notin Unanswered \cup {"none", "failed"}}
SucceedPhase1(n, r) == 1 + Cardinality(Voters(n, r))
SucceedPhase2(n) == 1 + Cardinality({m \in Peers(n) : rpc[n][m] = "acked"})

Phase1Known(n, r) ==
    \/ \A m \in Peers(n) : r[m] \notin Unanswered
    \/ SucceedPhase1(n, r) > Cardinality(Nodes) \div 2

\* The rest of the coroutine of peer m up to its next suspension, and the
\* coroutines it resumes.
CountAnswer(n, m, succeed) ==
    LET r == [rpc[n] EXCEPT ![m] = IF succeed THEN "suspended" ELSE "failed"]
    IN [p \in Nodes |-> IF Phase1Known(n, r) /\ r[p] = "suspended"
                        THEN "resumed" ELSE r[p]]

----------------------------------------------------------------------------
(* VotingManager::SuggestLeader and LeadersPing at node m, in an RPC thread. *)

SuggestLeader(m, from, t) ==
    LET heard == t > term[m] /\ (~LeaderIsAvailable(m) \/ desired[m] # NoNode)
        choice == IF desired[m] # NoNode THEN desired[m] ELSE from
    IN /\ term' = [term EXCEPT ![m] = IF heard THEN t ELSE @]
       /\ leaderId' = [leaderId EXCEPT ![m] = IF heard THEN choice ELSE @]
       /\ UNCHANGED <<role, pingAge, holder>>

\* The server id in the response of SuggestLeader
Response(m) == IF desired[m] # NoNode THEN desired[m] ELSE leaderId'[m]

\* Mutant: a ping is accepted whoever the leader is.
AcceptsPingFromAnyone(m, from) == desired[m] \in {NoNode, from} /\ role[m] # "Leader"

AcceptsPing(m, from) ==
    /\ desired[m] \in {NoNode, from}
    /\ role[m] # "Leader"
    /\ leaderId[m] = from \/ ~LeaderIsAvailable(m)

LeadersPing(m, from, t) ==
    IF AcceptsPing(m, from)
    THEN /\ leaderId' = [leaderId EXCEPT ![m] = from]
         /\ term' = [term EXCEPT ![m] = t]
         /\ pingAge' = [pingAge EXCEPT ![m] = 0]
         /\ holder' = [holder EXCEPT ![m] = from]
         /\ UNCHANGED role
    ELSE UNCHANGED voteVars

\* A request the client gave up is lost, or is still to be handled.
GiveUp(reqs) ==
    late' \in {l \in {late, late \cup reqs} : Cardinality(l) <= MaxLate \/ l = late}

Request(k, n, m, t) == [kind |-> k, from |-> n, to |-> m, term |-> t]

\* The requests of n's ping routines that have been sent and not handled
PingsInFlight(n) ==
    {Request("ping", n, m, sentTerm[n][m]) : m \in {p \in Nodes : ping[n][p] = "sent"}}

HandleSuggest(n, m) ==
    /\ rpc[n][m] = "suggest"
    /\ SuggestLeader(m, n, roundTerm[n])
    /\ rpc' = [rpc EXCEPT ![n][m] = IF Response(m) = n THEN "yes" ELSE "no"]
    /\ UNCHANGED <<desiredVars, routineVars, pingVars, late>>

HandlePhase2Ping(n, m) ==
    /\ rpc[n][m] = "ping"
    /\ LeadersPing(m, n, roundTerm[n])
    /\ rpc' = [rpc EXCEPT ![n][m] = IF AcceptsPing(m, n) THEN "pong" ELSE "refused"]
    /\ UNCHANGED <<desiredVars, routineVars, pingVars, late>>

\* The answer of a routine ping only sets isOk; it is delivered at once.
HandleRoutinePing(n, m) ==
    /\ ping[n][m] = "sent"
    /\ LeadersPing(m, n, sentTerm[n][m])
    /\ isOk' = [isOk EXCEPT ![n][m] = AcceptsPing(m, n)]
    /\ ping' = [ping EXCEPT ![n][m] = "idle"]
    /\ sentTerm' = [sentTerm EXCEPT ![n][m] = 0]
    /\ UNCHANGED <<desiredVars, routineVars, rpc, late>>

HandleLate ==
    \E r \in late :
        /\ IF r.kind = "ping" THEN LeadersPing(r.to, r.from, r.term)
                              ELSE SuggestLeader(r.to, r.from, r.term)
        /\ late' = late \ {r}
        /\ UNCHANGED <<desiredVars, routineVars, rpc, pingVars>>

----------------------------------------------------------------------------
(* RunElectionsRound, in the raft thread of node n.                        *)

\* All coroutines are spawned and send their suggestions.
SuggestToAll(n) == [m \in Nodes |-> IF m = n THEN "none" ELSE "suggest"]

\* Mutant: the role Candidate is not announced.
BeginUnannounced(n) ==
    /\ pc[n] \in {"loop", "retry"}
    /\ restart' = [restart EXCEPT ![n] = FALSE]
    /\ timer' = [timer EXCEPT ![n] = 0]
    /\ UNCHANGED <<info, knownLeader>>

\* The top of the control loop.  A candidate announces its last leader.
BeginRound(n) ==
    /\ pc[n] \in {"loop", "retry"}
    /\ info' = [info EXCEPT ![n] =
                  RaftInfo("Candidate", IF role[n] = "Leader" THEN n ELSE knownLeader[n])]
    /\ restart' = [restart EXCEPT ![n] = FALSE]
    /\ timer' = [timer EXCEPT ![n] = 0]
    /\ UNCHANGED knownLeader

\* Mutant: a round begins whoever the desired leader is.
StepsBackNever(n) == FALSE

\* Another node is the desired leader.
MustStepBack(n) == desired[n] \notin {NoNode, n}

\* A node told to elect another one only takes the role Follower and sleeps:
\* endElections(Follower) stops the clients its ping routines are using.
StepBack(n) ==
    /\ BeginRound(n)
    /\ MustStepBack(n)
    /\ role' = [role EXCEPT ![n] = "Follower"]
    /\ pc' = [pc EXCEPT ![n] = "yield"]
    /\ ping' = [ping EXCEPT ![n] =
                  [m \in Nodes |-> IF ping[n][m] = "off" THEN "off" ELSE "idle"]]
    /\ sentTerm' = [sentTerm EXCEPT ![n] = [m \in Nodes |-> 0]]
    /\ GiveUp(PingsInFlight(n))
    /\ UNCHANGED <<term, leaderId, pingAge, holder, desiredVars, roundTerm, isDesiredLeader,
                   rpc, isOk>>

\* beginElectionsTerm; a former leader first waits for its ping routines.
StartNewTerm(n) ==
    /\ BeginRound(n)
    /\ ~MustStepBack(n)
    /\ term[n] < MaxTerm /\ (n \in OneTerm => term[n] = 0)
    /\ term' = [term EXCEPT ![n] = @ + 1]
    /\ roundTerm' = [roundTerm EXCEPT ![n] = term[n] + 1]
    /\ isDesiredLeader' = [isDesiredLeader EXCEPT ![n] = desired[n] = n]
    /\ role' = [role EXCEPT ![n] = "Candidate"]
    /\ leaderId' = [leaderId EXCEPT ![n] = n]
    /\ pc' = [pc EXCEPT ![n] = IF role[n] = "Leader" THEN "drain" ELSE "round"]
    /\ rpc' = [rpc EXCEPT ![n] = IF role[n] = "Leader" THEN @ ELSE SuggestToAll(n)]
    /\ UNCHANGED <<pingAge, holder, desiredVars, pingVars, late>>

\* Mutant: the new round does not wait for the ping routines of the old one.
PingsAbandoned(n) == TRUE

\* pingWg_.wait() of beginElectionsTerm returns
PingsDrained(n) == \A m \in Nodes : ping[n][m] = "off"

EndDrain(n) ==
    /\ pc[n] = "drain"
    /\ PingsDrained(n)
    /\ pc' = [pc EXCEPT ![n] = "round"]
    /\ rpc' = [rpc EXCEPT ![n] = SuggestToAll(n)]
    /\ UNCHANGED <<voteVars, desiredVars, roundTerm, isDesiredLeader, timer, restart, info,
                   knownLeader, pingVars, late>>

ReceiveAnswer(n, m) ==
    /\ rpc[n][m] \in {"yes", "no"}
    /\ rpc' = [rpc EXCEPT ![n] = CountAnswer(n, m, rpc[n][m] = "yes")]
    /\ UNCHANGED <<voteVars, desiredVars, routineVars, pingVars, late>>

\* Phase 2 is skipped when the elections are outdated.
StartPhase2(n, m) ==
    LET leaderIsAvailable == ~isDesiredLeader[n] /\ LeaderIsAvailable(n)
    IN /\ rpc[n][m] = "resumed"
       /\ rpc' = [rpc EXCEPT ![n][m] =
                    IF leaderIsAvailable \/ ~IsConsensus(SucceedPhase1(n, rpc[n]))
                    THEN "voted" ELSE "ping"]
       /\ UNCHANGED <<voteVars, desiredVars, routineVars, pingVars, late>>

ReceivePong(n, m) ==
    /\ rpc[n][m] \in {"pong", "refused"}
    /\ rpc' = [rpc EXCEPT ![n][m] = IF @ = "pong" THEN "acked" ELSE "voted"]
    /\ UNCHANGED <<voteVars, desiredVars, routineVars, pingVars, late>>

\* The client's timeout or a network error, before or after the peer acted
RpcError(n, m) ==
    /\ rpc[n][m] \in Unanswered \cup {"ping", "pong", "refused"}
    /\ rpc' = [rpc EXCEPT ![n] = IF rpc[n][m] \in Unanswered
                                 THEN CountAnswer(n, m, FALSE)
                                 ELSE [@ EXCEPT ![m] = "voted"]]
    /\ IF rpc[n][m] \in {"suggest", "ping"}
       THEN GiveUp({Request(rpc[n][m], n, m, roundTerm[n])})
       ELSE UNCHANGED late
    /\ UNCHANGED <<voteVars, desiredVars, routineVars, pingVars>>

\* Mutant: the time the round took is not checked.
MayLeadLate(n) == term[n] = roundTerm[n]

\* The time and term checks of endElections(Leader)
MayLead(n) == timer[n] <= Deadline /\ term[n] = roundTerm[n]

\* The code tries this when a coroutine of the round has ended, the model at any
\* time of the round.
EndElectionsLeader(n) ==
    /\ pc[n] = "round"
    /\ IsConsensus(SucceedPhase2(n))
    /\ MayLead(n)
    /\ role' = [role EXCEPT ![n] = "Leader"]
    /\ pc' = [pc EXCEPT ![n] = "elected"]
    /\ ping' = [ping EXCEPT ![n] = [m \in Nodes |-> IF m = n THEN "off" ELSE "idle"]]
    /\ isOk' = [isOk EXCEPT ![n] = [m \in Nodes |-> m # n]]
    /\ timer' = [timer EXCEPT ![n] = 0]
    /\ UNCHANGED <<term, leaderId, pingAge, holder, desiredVars, roundTerm, isDesiredLeader,
                   restart, info, knownLeader, rpc, sentTerm, late>>

\* Every coroutine has ended and the node is not the leader: the elections
\* failed with consensus (the round has no result) or without it.
EndElectionsOther(n) ==
    /\ pc[n] = "round"
    /\ \A m \in Peers(n) : rpc[n][m] \in Ended
    /\ \/ /\ IsConsensus(SucceedPhase2(n)) /\ ~MayLead(n)
          /\ pc' = [pc EXCEPT ![n] = "retry"]
          /\ UNCHANGED role
       \/ /\ ~IsConsensus(SucceedPhase2(n))
          /\ role' = [role EXCEPT ![n] = "Follower"]
          /\ pc' = [pc EXCEPT ![n] = "await"]
    /\ timer' = [timer EXCEPT ![n] = 0]
    /\ roundTerm' = [roundTerm EXCEPT ![n] = 0]
    /\ isDesiredLeader' = [isDesiredLeader EXCEPT ![n] = FALSE]
    /\ rpc' = [rpc EXCEPT ![n] = [m \in Nodes |-> "none"]]
    /\ UNCHANGED <<term, leaderId, pingAge, holder, desiredVars,
                   restart, info, knownLeader, pingVars, late>>

----------------------------------------------------------------------------
(* clusterControlRoutine after the round.                                  *)

\* The leader leaves the round when its last coroutine has ended.
BecomeLeader(n) ==
    /\ pc[n] = "elected"
    /\ \A m \in Peers(n) : rpc[n][m] \in Ended
    /\ info' = [info EXCEPT ![n] = RaftInfo("Leader", n)]
    /\ knownLeader' = [knownLeader EXCEPT ![n] = leaderId[n]]
    /\ pc' = [pc EXCEPT ![n] = "lead"]
    /\ roundTerm' = [roundTerm EXCEPT ![n] = 0]
    /\ isDesiredLeader' = [isDesiredLeader EXCEPT ![n] = FALSE]
    /\ rpc' = [rpc EXCEPT ![n] = [m \in Nodes |-> "none"]]
    /\ UNCHANGED <<voteVars, desiredVars, timer, restart, pingVars, late>>

\* Whether RunElectionsRound ends with the role Follower and it is kept
Follows(n) == (pc[n] = "yield" \/ LeaderIsAvailable(n)) /\ desired[n] # n

\* RunElectionsRound has no result: commands are handled before the next round.
Unfollowed(n) == pc[n] = "await" /\ ~LeaderIsAvailable(n)

\* The randomized sleep is over; a node that stepped back for the desired
\* leader follows whether or not it was pinged.
EndAwait(n) ==
    /\ pc[n] \in {"await", "yield"}
    /\ timer[n] >= Lease
    /\ pc' = [pc EXCEPT ![n] = CASE Follows(n) -> "follow"
                                 [] Unfollowed(n) -> "retry"
                                 [] OTHER -> "loop"]
    /\ info' = [info EXCEPT ![n] =
                  IF Follows(n) THEN RaftInfo("Follower", leaderId[n]) ELSE @]
    /\ knownLeader' = [knownLeader EXCEPT ![n] = IF Follows(n) THEN leaderId[n] ELSE @]
    /\ timer' = [timer EXCEPT ![n] = 0]
    /\ UNCHANGED <<voteVars, desiredVars, roundTerm, isDesiredLeader, restart, rpc,
                   pingVars, late>>

\* FollowersAreAvailable
FollowersAreAvailable(n) ==
    IsConsensus(1 + Cardinality({m \in Peers(n) : isOk[n][m]}))

\* The state check fails, or a restart of the elections was asked for.
LeaveRole(n) ==
    /\ \/ pc[n] = "lead" /\ ~FollowersAreAvailable(n)
       \/ pc[n] = "follow" /\ ~LeaderIsAvailable(n)
       \/ pc[n] \in {"lead", "follow"} /\ restart[n]
    /\ pc' = [pc EXCEPT ![n] = "loop"]
    /\ UNCHANGED <<voteVars, desiredVars, roundTerm, isDesiredLeader, timer, restart, info,
                   knownLeader, rpc, pingVars, late>>

LeaderChanged(n) ==
    /\ pc[n] = "follow"
    /\ ~restart[n]
    /\ knownLeader[n] # leaderId[n]
    /\ info' = [info EXCEPT ![n] = RaftInfo("Follower", leaderId[n])]
    /\ knownLeader' = [knownLeader EXCEPT ![n] = leaderId[n]]
    /\ UNCHANGED <<voteVars, desiredVars, pc, roundTerm, isDesiredLeader, timer, restart,
                   rpc, pingVars, late>>

\* restartElections_ is set by a replication thread that lost the consensus.
RequestRestart(n) ==
    /\ ~restart[n]
    /\ restart' = [restart EXCEPT ![n] = TRUE]
    /\ UNCHANGED <<voteVars, desiredVars, pc, roundTerm, isDesiredLeader, timer, info,
                   knownLeader, rpc, pingVars, late>>

\* kCmdForceElections: for followers only
ForceElections(n) ==
    /\ pc[n] = "follow"
    /\ restart' = [restart EXCEPT ![n] = TRUE]
    /\ info' = [info EXCEPT ![n] = RaftInfo("Candidate", leaderId[n])]
    /\ UNCHANGED <<voteVars, desiredVars, pc, roundTerm, isDesiredLeader, timer,
                   knownLeader, rpc, pingVars, late>>

\* What the command kCmdSetDesiredLeader does
SetDesired(n, d) ==
    /\ desired' = [desired EXCEPT ![n] = d]
    /\ desiredAge' = [desiredAge EXCEPT ![n] = 0]
    /\ pingAge' = [pingAge EXCEPT ![n] = Lease]
    /\ restart' = [restart EXCEPT ![n] = TRUE]
    /\ info' = [info EXCEPT ![n] =
                  RaftInfo("Candidate", IF role[n] = "Leader" THEN n ELSE leaderId[n])]
    /\ UNCHANGED <<term, leaderId, role, holder, pc, roundTerm, isDesiredLeader, timer,
                   knownLeader, rpc, pingVars, late>>

\* kCmdSetDesiredLeader waits in the queue of commands until the control routine
\* watches its role or a round had no result.
SetDesiredLeaderId(n, d) ==
    /\ pc[n] \in {"lead", "follow", "retry"}
    /\ SetDesired(n, d)

----------------------------------------------------------------------------
(* startPingRoutines: one routine per peer while the node is the leader.   *)

SendPing(n, m) ==
    /\ ping[n][m] = "idle"
    /\ role[n] = "Leader"
    /\ ping' = [ping EXCEPT ![n][m] = "sent"]
    /\ sentTerm' = [sentTerm EXCEPT ![n][m] = term[n]]
    /\ UNCHANGED <<voteVars, desiredVars, routineVars, rpc, isOk, late>>

StopPinging(n, m) ==
    /\ ping[n][m] = "idle"
    /\ role[n] # "Leader"
    /\ ping' = [ping EXCEPT ![n][m] = "off"]
    /\ isOk' = [isOk EXCEPT ![n][m] = FALSE]
    /\ UNCHANGED <<voteVars, desiredVars, routineVars, rpc, sentTerm, late>>

\* The client's timeout or a network error: the request was lost, is still to
\* be handled, or was handled and its answer lost.
PingError(n, m) ==
    /\ ping[n][m] = "sent"
    /\ isOk' = [isOk EXCEPT ![n][m] = FALSE]
    /\ ping' = [ping EXCEPT ![n][m] = "idle"]
    /\ sentTerm' = [sentTerm EXCEPT ![n][m] = 0]
    /\ \/ /\ GiveUp({Request("ping", n, m, sentTerm[n][m])})
          /\ UNCHANGED voteVars
       \/ /\ LeadersPing(m, n, sentTerm[n][m])
          /\ UNCHANGED late
    /\ UNCHANGED <<desiredVars, routineVars, rpc>>

\* Mutant: a desired leader is never forgotten.
NeverExpires(n) == FALSE

\* GetNextLeaderId forgets the desired leader when its time is over.
Expires(n) == desiredAge[n] >= DesiredTimeout

\* Time passes; a ping routine that has to stop wakes up within a tick.
Tick ==
    /\ \A n \in Nodes : role[n] # "Leader" => \A m \in Nodes : ping[n][m] # "idle"
    /\ pingAge' = [n \in Nodes |-> IF pingAge[n] < Lease THEN pingAge[n] + 1 ELSE Lease]
    /\ timer' = [n \in Nodes |-> IF pc[n] \in Timed /\ timer[n] < Lease
                                 THEN timer[n] + 1 ELSE timer[n]]
    /\ desired' = [n \in Nodes |-> IF Expires(n) THEN NoNode ELSE desired[n]]
    /\ desiredAge' = [n \in Nodes |-> IF desired'[n] = NoNode THEN 0 ELSE desiredAge[n] + 1]
    /\ UNCHANGED <<term, leaderId, role, holder, pc, roundTerm, isDesiredLeader, restart,
                   info, knownLeader, rpc, pingVars, late>>

----------------------------------------------------------------------------
Init ==
    /\ term = [n \in Nodes |-> 0]
    /\ leaderId = [n \in Nodes |-> NoNode]
    /\ role = [n \in Nodes |-> "None"]
    /\ pingAge = [n \in Nodes |-> Lease]
    /\ holder = [n \in Nodes |-> NoNode]
    /\ desired = [n \in Nodes |-> NoNode]
    /\ desiredAge = [n \in Nodes |-> 0]
    /\ pc = [n \in Nodes |-> "loop"]
    /\ roundTerm = [n \in Nodes |-> 0]
    /\ isDesiredLeader = [n \in Nodes |-> FALSE]
    /\ timer = [n \in Nodes |-> 0]
    /\ restart = [n \in Nodes |-> FALSE]
    /\ info = [n \in Nodes |-> RaftInfo("Candidate", NoNode)]
    /\ knownLeader = [n \in Nodes |-> NoNode]
    /\ rpc = [n \in Nodes |-> [m \in Nodes |-> "none"]]
    /\ ping = [n \in Nodes |-> [m \in Nodes |-> "off"]]
    /\ sentTerm = [n \in Nodes |-> [m \in Nodes |-> 0]]
    /\ isOk = [n \in Nodes |-> [m \in Nodes |-> FALSE]]
    /\ late = {}

RoutineStep(n) ==
    \/ StepBack(n) \/ StartNewTerm(n) \/ EndDrain(n)
    \/ EndElectionsLeader(n) \/ EndElectionsOther(n)
    \/ BecomeLeader(n) \/ EndAwait(n) \/ LeaveRole(n) \/ LeaderChanged(n)
    \/ \E m \in Peers(n) :
          \/ ReceiveAnswer(n, m) \/ StartPhase2(n, m) \/ ReceivePong(n, m)
          \/ SendPing(n, m) \/ StopPinging(n, m)
    \/ \E m \in Lossy \ {n} : RpcError(n, m) \/ PingError(n, m)

Command(n) ==
    \/ RequestRestart(n)
    \/ ForceElections(n)
    \/ \E d \in Targets : SetDesiredLeaderId(n, d)

Handler(n, m) ==
    \/ HandleSuggest(n, m)
    \/ HandlePhase2Ping(n, m)
    \/ HandleRoutinePing(n, m)

Next ==
    \/ \E n \in Contenders : RoutineStep(n)
    \/ \E n \in Commanded : Command(n)
    \/ \E n \in Nodes : \E m \in Peers(n) : Handler(n, m)
    \/ HandleLate
    \/ Tick

Spec == Init /\ [][Next]_vars

----------------------------------------------------------------------------
\* Every variable keeps its type; the timeout of a desired leader bounds its age.
TypeOK ==
    /\ term \in [Nodes -> 0..MaxTerm]
    /\ leaderId \in [Nodes -> Nodes \cup {NoNode}]
    /\ role \in [Nodes -> Roles]
    /\ pingAge \in [Nodes -> 0..Lease]
    /\ holder \in [Nodes -> Nodes \cup {NoNode}]
    /\ desired \in [Nodes -> Nodes \cup {NoNode}]
    /\ desiredAge \in [Nodes -> 0..DesiredTimeout]
    /\ pc \in [Nodes -> RoutineStates]
    /\ roundTerm \in [Nodes -> 0..MaxTerm]
    /\ isDesiredLeader \in [Nodes -> BOOLEAN]
    /\ timer \in [Nodes -> 0..Lease]
    /\ restart \in [Nodes -> BOOLEAN]
    /\ info \in [Nodes -> [role : Roles, leaderId : Nodes \cup {NoNode}]]
    /\ knownLeader \in [Nodes -> Nodes \cup {NoNode}]
    /\ rpc \in [Nodes -> [Nodes -> RpcStates]]
    /\ ping \in [Nodes -> [Nodes -> PingStates]]
    /\ sentTerm \in [Nodes -> [Nodes -> 0..MaxTerm]]
    /\ isOk \in [Nodes -> [Nodes -> BOOLEAN]]
    /\ late \in SUBSET Requests

\* m accepted a ping of c less than kMinLeaderAwaitInterval ago
LeasedTo(m, c) == holder[m] = c /\ pingAge[m] < Lease

\* A node that accepted a ping less than kMinLeaderAwaitInterval ago accepts
\* pings of the same sender only, whatever suggestions, own elections rounds,
\* late requests and commands come in between (LeadersPing, SuggestLeader and
\* StartNewTerm all write leaderId).  A command drops the lease first.
LeaseIsExclusive ==
    [][\A m \in Nodes : pingAge[m] < Lease /\ pingAge'[m] < Lease
                          => holder'[m] = holder[m]]_vars

\* The moment a node takes the role Leader, a majority of the cluster, with
\* itself, is still bound to it by an unexpired ping (or was told by command
\* to elect someone): the answers counted in RunElectionsRound are not stale,
\* because the round may take at most 0.8 of the lease.
NewLeaderHoldsQuorum ==
    [][\A c \in Nodes :
          role[c] # "Leader" /\ role'[c] = "Leader" =>
            IsConsensus(1 + Cardinality({m \in Peers(c) :
                                LeasedTo(m, c) \/ desired[m] # NoNode}))]_vars

\* The sequence of roles given to onRoleChanged is one the role switcher expects:
\* a leader passes through the role Candidate, still named as the leader, before
\* it follows or leads again, whatever commands and late answers come.
Feed == INSTANCE RoleFeed

FeedsRoles == Feed!Spec

\* A node that was told to elect another node does not take the role Leader while
\* the command is valid (set_leader_node of replication.md), though its answers
\* may be on their way as the command comes: commands are executed between the
\* rounds, and the round after one steps back instead of asking for votes.
ObeysCommand ==
    [][\A n \in Nodes : role[n] # "Leader" /\ role'[n] = "Leader"
                          => desired[n] \in {NoNode, n}]_vars

\* The assertion of startPingRoutines: no ping routine of an earlier leadership
\* is left when a node takes the role Leader again.
NoStalePingRoutine ==
    [][\A n \in Nodes : role[n] # "Leader" /\ role'[n] = "Leader"
                          => \A m \in Nodes : ping[n][m] = "off"]_vars

\* What replication.md says of a term: the node that reaches the consensus
\* becomes the leader and all other nodes become followers.
OneLeaderPerTerm ==
    \A c, d \in Nodes :
        role[c] = "Leader" /\ role[d] = "Leader" /\ term[c] = term[d] => c = d
=============================================================================
