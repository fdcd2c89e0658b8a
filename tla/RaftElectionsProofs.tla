------------------------ MODULE RaftElectionsProofs ------------------------
(***************************************************************************)
(* Proofs about RaftElections for every cluster, every lease and every     *)
(* bound: type correctness, the exclusive lease, the quorum of a new       *)
(* leader, the order of the announced roles (RoleFeed) and the end of the  *)
(* ping routines.                                                          *)
(***************************************************************************)
EXTENDS RaftElections, FiniteSetTheorems, TLAPS

\* SuggestLeader at m preserves the types of the voting data.
LEMMA SuggestType ==
    ASSUME TypeOK, NEW m \in Nodes, NEW from \in Nodes, NEW t \in 0..MaxTerm,
           SuggestLeader(m, from, t)
    PROVE  /\ term' \in [Nodes -> 0..MaxTerm]
           /\ leaderId' \in [Nodes -> Nodes \cup {NoNode}]
           /\ UNCHANGED <<role, pingAge, holder>>
  BY DEF TypeOK, SuggestLeader

\* LeadersPing at m preserves the types of the voting data.
LEMMA PingType ==
    ASSUME TypeOK, NEW m \in Nodes, NEW from \in Nodes, NEW t \in 0..MaxTerm,
           LeadersPing(m, from, t)
    PROVE  /\ term' \in [Nodes -> 0..MaxTerm]
           /\ leaderId' \in [Nodes -> Nodes \cup {NoNode}]
           /\ pingAge' \in [Nodes -> 0..Lease]
           /\ holder' \in [Nodes -> Nodes \cup {NoNode}]
           /\ UNCHANGED role
<1>1. CASE AcceptsPing(m, from)
  <2>1. 0 \in 0..Lease
    BY TimeAssumption DEF TimeAssumption
  <2>2. /\ leaderId' = [leaderId EXCEPT ![m] = from]
        /\ term' = [term EXCEPT ![m] = t]
        /\ pingAge' = [pingAge EXCEPT ![m] = 0]
        /\ holder' = [holder EXCEPT ![m] = from]
        /\ UNCHANGED role
    BY <1>1 DEF LeadersPing
  <2> QED BY <2>1, <2>2 DEF TypeOK
<1>2. CASE ~AcceptsPing(m, from)
  BY <1>2 DEF TypeOK, LeadersPing, voteVars
<1> QED BY <1>1, <1>2

\* A request that its sender gave up is a request.
LEMMA GiveUpType ==
    ASSUME NEW reqs \in SUBSET Requests, late \in SUBSET Requests, GiveUp(reqs)
    PROVE  late' \in SUBSET Requests
  BY DEF GiveUp

\* The states of the coroutines after an answer was counted
LEMMA CountAnswerType ==
    ASSUME TypeOK, NEW n \in Nodes, NEW m \in Nodes, NEW succeed \in BOOLEAN
    PROVE  CountAnswer(n, m, succeed) \in [Nodes -> RpcStates]
<1> DEFINE r == [rpc[n] EXCEPT ![m] = IF succeed THEN "suspended" ELSE "failed"]
<1>1. r \in [Nodes -> RpcStates]
  BY DEF TypeOK, RpcStates
<1>2. "resumed" \in RpcStates
  BY DEF RpcStates
<1> HIDE DEF r
<1>3. [p \in Nodes |-> IF Phase1Known(n, r) /\ r[p] = "suspended" THEN "resumed" ELSE r[p]]
        \in [Nodes -> RpcStates]
  BY <1>1, <1>2
<1> QED BY <1>3 DEF CountAnswer, r

\* The initial state is well typed.
LEMMA InitType == Init => TypeOK
  BY NodesAssumption, TimeAssumption, BoundsAssumption
  DEF NodesAssumption, TimeAssumption, BoundsAssumption, Init, TypeOK, RaftInfo, Roles, RpcStates, PingStates, RoutineStates

\* The handlers that run in the RPC threads
LEMMA HandlerType ==
    ASSUME TypeOK, NEW n \in Nodes, NEW m \in Nodes, Handler(n, m)
    PROVE  TypeOK'
<1>0. roundTerm[n] \in 0..MaxTerm /\ sentTerm[n][m] \in 0..MaxTerm
  BY DEF TypeOK
<1>1. CASE HandleSuggest(n, m)
  <2>1. SuggestLeader(m, n, roundTerm[n])
    BY <1>1 DEF HandleSuggest
  <2>2. rpc' \in [Nodes -> [Nodes -> RpcStates]]
    BY <1>1 DEF HandleSuggest, TypeOK, RpcStates
  <2> QED BY <1>0, <1>1, <2>1, <2>2, SuggestType
          DEF HandleSuggest, TypeOK, desiredVars, routineVars, pingVars
<1>2. CASE HandlePhase2Ping(n, m)
  <2>1. LeadersPing(m, n, roundTerm[n])
    BY <1>2 DEF HandlePhase2Ping
  <2>2. rpc' \in [Nodes -> [Nodes -> RpcStates]]
    BY <1>2 DEF HandlePhase2Ping, TypeOK, RpcStates
  <2> QED BY <1>0, <1>2, <2>1, <2>2, PingType
          DEF HandlePhase2Ping, TypeOK, desiredVars, routineVars, pingVars
<1>3. CASE HandleRoutinePing(n, m)
  <2>1. LeadersPing(m, n, sentTerm[n][m])
    BY <1>3 DEF HandleRoutinePing
  <2>2. isOk' \in [Nodes -> [Nodes -> BOOLEAN]]
    <3>1. AcceptsPing(m, n) \in BOOLEAN
      BY DEF AcceptsPing, LeaderIsAvailable
    <3> QED BY <1>3, <3>1 DEF HandleRoutinePing, TypeOK
  <2>3. /\ ping' \in [Nodes -> [Nodes -> PingStates]]
        /\ sentTerm' \in [Nodes -> [Nodes -> 0..MaxTerm]]
    BY <1>3, BoundsAssumption DEF BoundsAssumption, HandleRoutinePing, TypeOK, PingStates
  <2> QED BY <1>0, <1>3, <2>1, <2>2, <2>3, PingType
          DEF HandleRoutinePing, TypeOK, desiredVars, routineVars
<1> QED BY <1>1, <1>2, <1>3 DEF Handler

\* The steps of the control routine outside the coroutines
LEMMA ControlType ==
    ASSUME TypeOK, NEW n \in Nodes,
           \/ StepBack(n) \/ StartNewTerm(n) \/ EndDrain(n)
           \/ EndElectionsLeader(n) \/ EndElectionsOther(n)
           \/ BecomeLeader(n) \/ EndAwait(n) \/ LeaveRole(n) \/ LeaderChanged(n)
    PROVE  TypeOK'
<1> USE DEF voteVars, desiredVars, routineVars, pingVars
<1>0. /\ 0 \in 0..Lease /\ 0 \in 0..MaxTerm
      /\ SuggestToAll(n) \in [Nodes -> RpcStates]
      /\ [m \in Nodes |-> "none"] \in [Nodes -> RpcStates]
      /\ [m \in Nodes |-> 0] \in [Nodes -> 0..MaxTerm]
  BY TimeAssumption, BoundsAssumption
  DEF TimeAssumption, BoundsAssumption, SuggestToAll, RpcStates
<1>a. ASSUME BeginRound(n)
      PROVE  /\ info' \in [Nodes -> [role : Roles, leaderId : Nodes \cup {NoNode}]]
             /\ restart' \in [Nodes -> BOOLEAN]
             /\ timer' \in [Nodes -> 0..Lease]
             /\ knownLeader' \in [Nodes -> Nodes \cup {NoNode}]
  BY <1>0, <1>a DEF BeginRound, TypeOK, RaftInfo, Roles
<1>b. CASE StepBack(n)
  <2>1. PingsInFlight(n) \in SUBSET Requests
    BY DEF PingsInFlight, Request, Requests, TypeOK
  <2>2. late' \in SUBSET Requests
    BY <1>b, <2>1, GiveUpType DEF StepBack, TypeOK
  <2>3. ping' \in [Nodes -> [Nodes -> PingStates]]
    BY <1>b DEF StepBack, TypeOK, PingStates
  <2>4. /\ sentTerm' \in [Nodes -> [Nodes -> 0..MaxTerm]]
        /\ role' \in [Nodes -> Roles]
        /\ pc' \in [Nodes -> RoutineStates]
    BY <1>0, <1>b DEF StepBack, TypeOK, Roles, RoutineStates
  <2> QED BY <1>a, <1>b, <2>2, <2>3, <2>4 DEF StepBack, TypeOK
<1>1. CASE StartNewTerm(n)
  <2>1. /\ term' \in [Nodes -> 0..MaxTerm]
        /\ roundTerm' \in [Nodes -> 0..MaxTerm]
    BY <1>1, BoundsAssumption DEF BoundsAssumption, StartNewTerm, TypeOK
  <2>2. /\ role' \in [Nodes -> Roles]
        /\ leaderId' \in [Nodes -> Nodes \cup {NoNode}]
        /\ pc' \in [Nodes -> RoutineStates]
    BY <1>1 DEF StartNewTerm, TypeOK, Roles, RoutineStates
  <2>3. rpc' \in [Nodes -> [Nodes -> RpcStates]]
    BY <1>0, <1>1 DEF StartNewTerm, TypeOK
  <2> QED BY <1>a, <1>1, <2>1, <2>2, <2>3 DEF StartNewTerm, TypeOK
<1>2. CASE EndDrain(n)
  BY <1>0, <1>2 DEF EndDrain, TypeOK, RoutineStates
<1>3. CASE EndElectionsLeader(n)
  <2>1. /\ ping' \in [Nodes -> [Nodes -> PingStates]]
        /\ isOk' \in [Nodes -> [Nodes -> BOOLEAN]]
    BY <1>3 DEF EndElectionsLeader, TypeOK, PingStates
  <2> QED BY <1>0, <1>3, <2>1 DEF EndElectionsLeader, TypeOK, Roles, RoutineStates
<1>4. CASE EndElectionsOther(n)
  BY <1>0, <1>4 DEF EndElectionsOther, TypeOK, Roles, RoutineStates
<1>5. CASE BecomeLeader(n)
  BY <1>0, <1>5 DEF BecomeLeader, TypeOK, RaftInfo, Roles, RoutineStates
<1>6. CASE EndAwait(n)
  BY <1>0, <1>6 DEF EndAwait, TypeOK, RaftInfo, Roles, RoutineStates
<1>7. CASE LeaveRole(n)
  BY <1>7 DEF LeaveRole, TypeOK, RoutineStates
<1>8. CASE LeaderChanged(n)
  BY <1>8 DEF LeaderChanged, TypeOK, RaftInfo, Roles
<1> QED BY <1>b, <1>1, <1>2, <1>3, <1>4, <1>5, <1>6, <1>7, <1>8

\* The coroutines of the round and the ping routines
LEMMA CoroutineType ==
    ASSUME TypeOK, NEW n \in Nodes, NEW m \in Nodes,
           \/ ReceiveAnswer(n, m) \/ StartPhase2(n, m) \/ ReceivePong(n, m)
           \/ RpcError(n, m) \/ SendPing(n, m) \/ StopPinging(n, m) \/ PingError(n, m)
    PROVE  TypeOK'
<1> USE DEF voteVars, desiredVars, routineVars, pingVars
<1>1. CASE ReceiveAnswer(n, m)
  <2>1. CountAnswer(n, m, rpc[n][m] = "yes") \in [Nodes -> RpcStates]
    BY CountAnswerType
  <2> QED BY <1>1, <2>1 DEF ReceiveAnswer, TypeOK
<1>2. CASE StartPhase2(n, m)
  <2>1. rpc' \in [Nodes -> [Nodes -> RpcStates]]
    BY <1>2 DEF StartPhase2, TypeOK, RpcStates
  <2> QED BY <1>2, <2>1 DEF StartPhase2, TypeOK
<1>3. CASE ReceivePong(n, m)
  <2>1. rpc' \in [Nodes -> [Nodes -> RpcStates]]
    BY <1>3 DEF ReceivePong, TypeOK, RpcStates
  <2> QED BY <1>3, <2>1 DEF ReceivePong, TypeOK
<1>4. CASE RpcError(n, m)
  <2>1. CountAnswer(n, m, FALSE) \in [Nodes -> RpcStates]
    BY CountAnswerType
  <2>2. [rpc[n] EXCEPT ![m] = "voted"] \in [Nodes -> RpcStates]
    BY DEF TypeOK, RpcStates
  <2>3. rpc' \in [Nodes -> [Nodes -> RpcStates]]
    BY <1>4, <2>1, <2>2 DEF RpcError, TypeOK
  <2>4. late' \in SUBSET Requests
    <3>1. CASE rpc[n][m] \in {"suggest", "ping"}
      <4>1. {Request(rpc[n][m], n, m, roundTerm[n])} \in SUBSET Requests
        BY <3>1 DEF Request, Requests, TypeOK
      <4>2. GiveUp({Request(rpc[n][m], n, m, roundTerm[n])})
        BY <1>4, <3>1 DEF RpcError
      <4> QED BY <4>1, <4>2, GiveUpType DEF TypeOK
    <3>2. CASE rpc[n][m] \notin {"suggest", "ping"}
      BY <1>4, <3>2 DEF RpcError, TypeOK
    <3> QED BY <3>1, <3>2
  <2> QED BY <1>4, <2>3, <2>4 DEF RpcError, TypeOK
<1>5. CASE SendPing(n, m)
  BY <1>5 DEF SendPing, TypeOK, PingStates
<1>6. CASE StopPinging(n, m)
  BY <1>6 DEF StopPinging, TypeOK, PingStates
<1>7. CASE PingError(n, m)
  <2>1. /\ ping' \in [Nodes -> [Nodes -> PingStates]]
        /\ isOk' \in [Nodes -> [Nodes -> BOOLEAN]]
        /\ sentTerm' \in [Nodes -> [Nodes -> 0..MaxTerm]]
    BY <1>7, BoundsAssumption DEF BoundsAssumption, PingError, TypeOK, PingStates
  <2>2. sentTerm[n][m] \in 0..MaxTerm
    BY DEF TypeOK
  <2>3. CASE GiveUp({Request("ping", n, m, sentTerm[n][m])}) /\ UNCHANGED voteVars
    <3>1. {Request("ping", n, m, sentTerm[n][m])} \in SUBSET Requests
      BY <2>2 DEF Request, Requests
    <3>2. late' \in SUBSET Requests
      BY <2>3, <3>1, GiveUpType DEF TypeOK
    <3> QED BY <1>7, <2>1, <2>3, <3>2 DEF PingError, TypeOK
  <2>4. CASE LeadersPing(m, n, sentTerm[n][m]) /\ UNCHANGED late
    BY <1>7, <2>1, <2>2, <2>4, PingType DEF PingError, TypeOK
  <2> QED BY <1>7, <2>3, <2>4 DEF PingError
<1> QED BY <1>1, <1>2, <1>3, <1>4, <1>5, <1>6, <1>7

\* Control commands, late requests and time
LEMMA EnvironmentType ==
    ASSUME TypeOK, (\E n \in Nodes : Command(n)) \/ HandleLate \/ Tick
    PROVE  TypeOK'
<1> USE DEF voteVars, desiredVars, routineVars, pingVars
<1>1. ASSUME NEW n \in Nodes, Command(n) PROVE TypeOK'
  <2>1. CASE RequestRestart(n)
    BY <2>1 DEF RequestRestart, TypeOK
  <2>2. CASE ForceElections(n)
    BY <2>2 DEF ForceElections, TypeOK, RaftInfo, Roles
  <2>3. ASSUME NEW d \in Targets, SetDesiredLeaderId(n, d) PROVE TypeOK'
    <3>1. /\ d \in Nodes /\ Lease \in 0..Lease /\ 0 \in 0..DesiredTimeout
      BY BoundsAssumption, TimeAssumption DEF BoundsAssumption, TimeAssumption
    <3> QED BY <2>3, <3>1 DEF SetDesiredLeaderId, SetDesired, TypeOK, RaftInfo, Roles
  <2> QED BY <1>1, <2>1, <2>2, <2>3 DEF Command
<1>2. CASE HandleLate
  <2>1. PICK r \in late :
          /\ IF r.kind = "ping" THEN LeadersPing(r.to, r.from, r.term)
                                ELSE SuggestLeader(r.to, r.from, r.term)
          /\ late' = late \ {r}
          /\ UNCHANGED <<desiredVars, routineVars, rpc, pingVars>>
    BY <1>2 DEF HandleLate
  <2>2. r.to \in Nodes /\ r.from \in Nodes /\ r.term \in 0..MaxTerm
    BY DEF TypeOK, Requests
  <2>3. CASE LeadersPing(r.to, r.from, r.term)
    BY <2>1, <2>2, <2>3, PingType DEF TypeOK
  <2>4. CASE SuggestLeader(r.to, r.from, r.term)
    BY <2>1, <2>2, <2>4, SuggestType DEF TypeOK
  <2> QED BY <2>1, <2>3, <2>4
<1>3. CASE Tick
  <2>1. /\ pingAge' \in [Nodes -> 0..Lease]
        /\ timer' \in [Nodes -> 0..Lease]
    BY <1>3, TimeAssumption DEF TimeAssumption, Tick, TypeOK
  <2>2. desired' \in [Nodes -> Nodes \cup {NoNode}]
    BY <1>3 DEF Tick, TypeOK
  <2>3. desiredAge' \in [Nodes -> 0..DesiredTimeout]
    BY <1>3, TimeAssumption DEF TimeAssumption, Tick, Expires, TypeOK
  <2> QED BY <1>3, <2>1, <2>2, <2>3 DEF Tick, TypeOK
<1> QED BY <1>1, <1>2, <1>3

\* The type invariant is inductive.
LEMMA NextType == TypeOK /\ [Next]_vars => TypeOK'
<1> SUFFICES ASSUME TypeOK, [Next]_vars PROVE TypeOK'
  OBVIOUS
<1>1. ASSUME NEW n \in Contenders, RoutineStep(n) PROVE TypeOK'
  <2>1. n \in Nodes /\ Peers(n) \subseteq Nodes /\ Lossy \subseteq Nodes
    BY BoundsAssumption DEF BoundsAssumption, Peers
  <2>2. CASE \E m \in Nodes : \/ ReceiveAnswer(n, m) \/ StartPhase2(n, m) \/ ReceivePong(n, m)
                              \/ RpcError(n, m) \/ SendPing(n, m) \/ StopPinging(n, m)
                              \/ PingError(n, m)
    BY <2>1, <2>2, CoroutineType
  <2>3. CASE \/ StepBack(n) \/ StartNewTerm(n) \/ EndDrain(n)
             \/ EndElectionsLeader(n) \/ EndElectionsOther(n)
             \/ BecomeLeader(n) \/ EndAwait(n) \/ LeaveRole(n) \/ LeaderChanged(n)
    BY <2>1, <2>3, ControlType
  <2> QED BY <1>1, <2>1, <2>2, <2>3 DEF RoutineStep
<1>2. ASSUME NEW n \in Commanded, Command(n) PROVE TypeOK'
  BY <1>2, EnvironmentType, BoundsAssumption DEF BoundsAssumption
<1>3. ASSUME NEW n \in Nodes, NEW m \in Peers(n), Handler(n, m) PROVE TypeOK'
  BY <1>3, HandlerType DEF Peers
<1>4. CASE HandleLate \/ Tick
  BY <1>4, EnvironmentType
<1>5. CASE UNCHANGED vars
  BY <1>5 DEF vars, voteVars, desiredVars, routineVars, pingVars, TypeOK
<1> QED BY <1>1, <1>2, <1>3, <1>4, <1>5 DEF Next

\* Every reachable state of the elections is well typed.
THEOREM TypeCorrect == Spec => []TypeOK
  BY InitType, NextType, PTL DEF Spec

----------------------------------------------------------------------------
(* The inductive invariant of the lease.                                   *)

\* While a lease lasts, leaderId names its holder or the node itself.
LeaseLeader == \A m \in Nodes : pingAge[m] < Lease => leaderId[m] \in {holder[m], m}

\* A lease given while a desired leader is set belongs to the desired leader.
DesiredLease ==
    \A m \in Nodes : desired[m] # NoNode /\ pingAge[m] < Lease => holder[m] = desired[m]

\* A ping counted, or about to be counted, in a round that may still succeed
\* is younger than the round, unless its node was told to elect someone since.
AckedLease ==
    \A c, m \in Nodes :
        pc[c] = "round" /\ rpc[c][m] \in {"pong", "acked"} /\ timer[c] <= Deadline
        => \/ holder[m] = c /\ pingAge[m] <= timer[c]
           \/ desired[m] # NoNode /\ desiredAge[m] <= timer[c]

\* No node sends pings to itself.
NoSelfPing ==
    /\ \A r \in late : r.from # r.to
    /\ \A n \in Nodes : ping[n][n] # "sent"

LeaseInv == TypeOK /\ LeaseLeader /\ DesiredLease /\ AckedLease /\ NoSelfPing

\* An accepted ping renews the lease for its holder or replaces an expired one.
LEMMA PingLease ==
    ASSUME TypeOK, LeaseLeader, DesiredLease, NEW m \in Nodes, NEW from \in Nodes,
           NEW t \in 0..MaxTerm, from # m, LeadersPing(m, from, t), UNCHANGED desiredVars
    PROVE  /\ LeaseLeader' /\ DesiredLease'
           /\ \A x \in Nodes : pingAge'[x] <= pingAge[x]
           /\ \A x \in Nodes : pingAge[x] < Lease => holder'[x] = holder[x]
           /\ AcceptsPing(m, from) => holder'[m] = from /\ pingAge'[m] = 0
<1>1. CASE AcceptsPing(m, from)
  <2>1. /\ leaderId' = [leaderId EXCEPT ![m] = from]
        /\ pingAge' = [pingAge EXCEPT ![m] = 0]
        /\ holder' = [holder EXCEPT ![m] = from]
        /\ UNCHANGED role
    BY <1>1 DEF LeadersPing
  <2>2. pingAge[m] < Lease => from = holder[m]
    BY <1>1 DEF AcceptsPing, LeaderIsAvailable, LeaseLeader
  <2>3. desired[m] \in {NoNode, from}
    BY <1>1 DEF AcceptsPing
  <2> QED BY <2>1, <2>2, <2>3, TimeAssumption
          DEF TimeAssumption, TypeOK, LeaseLeader, DesiredLease, desiredVars
<1>2. CASE ~AcceptsPing(m, from)
  <2>1. UNCHANGED voteVars
    BY <1>2 DEF LeadersPing
  <2> QED BY <1>2, <2>1, TimeAssumption
          DEF TimeAssumption, TypeOK, LeaseLeader, DesiredLease, desiredVars, voteVars
<1> QED BY <1>1, <1>2

\* A suggestion changes leaderId only when there is no lease, or to its holder.
LEMMA SuggestLease ==
    ASSUME TypeOK, LeaseLeader, DesiredLease, NEW m \in Nodes, NEW from \in Nodes,
           NEW t \in 0..MaxTerm, SuggestLeader(m, from, t), UNCHANGED desiredVars
    PROVE  LeaseLeader' /\ DesiredLease'
<1>1. /\ leaderId' = [leaderId EXCEPT ![m] =
            IF t > term[m] /\ (~LeaderIsAvailable(m) \/ desired[m] # NoNode)
            THEN IF desired[m] # NoNode THEN desired[m] ELSE from
            ELSE leaderId[m]]
      /\ UNCHANGED <<role, pingAge, holder>>
  BY DEF SuggestLeader
<1> QED BY <1>1 DEF TypeOK, LeaderIsAvailable, LeaseLeader, DesiredLease, desiredVars

\* What keeps AckedLease: leases are only renewed, and a newly counted or
\* answered ping is fresh.
LEMMA AckedStep ==
    ASSUME TypeOK, TypeOK', AckedLease, UNCHANGED desiredVars,
           \A x \in Nodes : pingAge'[x] <= pingAge[x],
           \A x \in Nodes : pingAge[x] < Lease => holder'[x] = holder[x],
           \A c, x \in Nodes :
              pc'[c] = "round" /\ rpc'[c][x] \in {"pong", "acked"}
              => \/ pc[c] = "round" /\ rpc[c][x] \in {"pong", "acked"} /\ timer'[c] = timer[c]
                 \/ holder'[x] = c /\ pingAge'[x] = 0
    PROVE  AckedLease'
<1> SUFFICES ASSUME NEW c \in Nodes, NEW m \in Nodes,
                    pc'[c] = "round", rpc'[c][m] \in {"pong", "acked"}, timer'[c] <= Deadline
             PROVE  \/ holder'[m] = c /\ pingAge'[m] <= timer'[c]
                    \/ desired'[m] # NoNode /\ desiredAge'[m] <= timer'[c]
  BY DEF AckedLease
<1>1. /\ timer'[c] \in 0..Lease /\ pingAge[m] \in 0..Lease /\ pingAge'[m] \in 0..Lease
      /\ Lease \in Nat /\ Deadline \in Nat /\ Deadline < Lease
  BY TimeAssumption DEF TimeAssumption, TypeOK
<1>2. CASE pc[c] = "round" /\ rpc[c][m] \in {"pong", "acked"} /\ timer'[c] = timer[c]
  <2>1. \/ holder[m] = c /\ pingAge[m] <= timer[c]
        \/ desired[m] # NoNode /\ desiredAge[m] <= timer[c]
    BY <1>2 DEF AckedLease
  <2> QED BY <1>1, <1>2, <2>1 DEF desiredVars
<1>3. CASE holder'[m] = c /\ pingAge'[m] = 0
  BY <1>1, <1>3
<1> QED BY <1>2, <1>3

\* Initially there is no lease.
LEMMA InitLease == Init => LeaseInv
<1> SUFFICES ASSUME Init PROVE LeaseInv
  OBVIOUS
<1>1. TypeOK
  BY InitType
<1> QED BY <1>1, TimeAssumption
        DEF TimeAssumption, Init, LeaseInv, LeaseLeader, DesiredLease, AckedLease, NoSelfPing

\* The handlers keep the invariant of the lease, and the lease is exclusive.
LEMMA HandlerLease ==
    ASSUME LeaseInv, TypeOK', NEW n \in Nodes, NEW m \in Peers(n), Handler(n, m)
    PROVE  /\ LeaseInv'
           /\ \A x \in Nodes : pingAge[x] < Lease => holder'[x] = holder[x]
<1> USE DEF voteVars, desiredVars, routineVars, pingVars
<1>0. /\ m \in Nodes /\ n # m /\ TypeOK
      /\ roundTerm[n] \in 0..MaxTerm /\ sentTerm[n][m] \in 0..MaxTerm
      /\ \A x \in Nodes : pingAge[x] \in 0..Lease
  BY DEF Peers, LeaseInv, TypeOK
<1>1. CASE HandleSuggest(n, m)
  <2>1. /\ SuggestLeader(m, n, roundTerm[n])
        /\ UNCHANGED <<pingAge, holder, desired, desiredAge, pc, timer, ping, late>>
        /\ rpc' = [rpc EXCEPT ![n][m] = IF Response(m) = n THEN "yes" ELSE "no"]
    BY <1>1 DEF HandleSuggest, SuggestLeader
  <2>2. LeaseLeader' /\ DesiredLease'
    BY <1>0, <2>1, SuggestLease DEF LeaseInv
  <2>3. AckedLease'
    <3>1. \A c, x \in Nodes :
            rpc'[c][x] \in {"pong", "acked"} => rpc[c][x] \in {"pong", "acked"}
      BY <1>0, <2>1 DEF TypeOK
    <3>2. \A x \in Nodes : pingAge'[x] <= pingAge[x]
      BY <1>0, <2>1, TimeAssumption DEF TimeAssumption
    <3> QED BY <2>1, <3>1, <3>2, AckedStep DEF LeaseInv
  <2>4. NoSelfPing'
    BY <2>1 DEF LeaseInv, NoSelfPing
  <2> QED BY <2>1, <2>2, <2>3, <2>4 DEF LeaseInv
<1>2. CASE HandlePhase2Ping(n, m)
  <2>1. /\ LeadersPing(m, n, roundTerm[n])
        /\ UNCHANGED <<desired, desiredAge, pc, timer, ping, late>>
        /\ rpc' = [rpc EXCEPT ![n][m] = IF AcceptsPing(m, n) THEN "pong" ELSE "refused"]
    BY <1>2 DEF HandlePhase2Ping
  <2>2. /\ LeaseLeader' /\ DesiredLease'
        /\ \A x \in Nodes : pingAge'[x] <= pingAge[x]
        /\ \A x \in Nodes : pingAge[x] < Lease => holder'[x] = holder[x]
        /\ AcceptsPing(m, n) => holder'[m] = n /\ pingAge'[m] = 0
    BY <1>0, <2>1, PingLease DEF LeaseInv
  <2>3. \A c, x \in Nodes :
            rpc'[c][x] \in {"pong", "acked"}
            => rpc[c][x] \in {"pong", "acked"} \/ (holder'[x] = c /\ pingAge'[x] = 0)
    BY <1>0, <2>1, <2>2 DEF TypeOK
  <2>4. AckedLease'
    BY <2>1, <2>2, <2>3, AckedStep DEF LeaseInv
  <2>5. NoSelfPing'
    BY <2>1 DEF LeaseInv, NoSelfPing
  <2> QED BY <2>2, <2>4, <2>5 DEF LeaseInv
<1>3. CASE HandleRoutinePing(n, m)
  <2>1. /\ LeadersPing(m, n, sentTerm[n][m])
        /\ UNCHANGED <<desired, desiredAge, pc, timer, rpc, late>>
        /\ ping' = [ping EXCEPT ![n][m] = "idle"]
    BY <1>3 DEF HandleRoutinePing
  <2>2. /\ LeaseLeader' /\ DesiredLease'
        /\ \A x \in Nodes : pingAge'[x] <= pingAge[x]
        /\ \A x \in Nodes : pingAge[x] < Lease => holder'[x] = holder[x]
    BY <1>0, <2>1, PingLease DEF LeaseInv
  <2>3. AckedLease'
    BY <2>1, <2>2, AckedStep DEF LeaseInv
  <2>4. NoSelfPing'
    BY <1>0, <2>1 DEF LeaseInv, NoSelfPing, TypeOK
  <2> QED BY <2>2, <2>3, <2>4 DEF LeaseInv
<1> QED BY <1>1, <1>2, <1>3 DEF Handler

\* A late request is a suggestion or a ping of another node.
LEMMA LateLease ==
    ASSUME LeaseInv, TypeOK', HandleLate
    PROVE  /\ LeaseInv'
           /\ \A x \in Nodes : pingAge[x] < Lease => holder'[x] = holder[x]
<1> USE DEF voteVars, desiredVars, routineVars, pingVars
<1>1. PICK r \in late :
        /\ IF r.kind = "ping" THEN LeadersPing(r.to, r.from, r.term)
                              ELSE SuggestLeader(r.to, r.from, r.term)
        /\ late' = late \ {r}
        /\ UNCHANGED <<desiredVars, routineVars, rpc, pingVars>>
  BY DEF HandleLate
<1>2. /\ r.to \in Nodes /\ r.from \in Nodes /\ r.term \in 0..MaxTerm /\ r.from # r.to
      /\ \A x \in Nodes : pingAge[x] \in 0..Lease
  BY DEF LeaseInv, NoSelfPing, TypeOK, Requests
<1>3. /\ LeaseLeader' /\ DesiredLease'
      /\ \A x \in Nodes : pingAge'[x] <= pingAge[x]
      /\ \A x \in Nodes : pingAge[x] < Lease => holder'[x] = holder[x]
  <2>1. CASE LeadersPing(r.to, r.from, r.term)
    BY <1>1, <1>2, <2>1, PingLease DEF LeaseInv
  <2>2. CASE SuggestLeader(r.to, r.from, r.term)
    <3>1. LeaseLeader' /\ DesiredLease'
      BY <1>1, <1>2, <2>2, SuggestLease DEF LeaseInv
    <3>2. UNCHANGED <<pingAge, holder>>
      BY <2>2 DEF SuggestLeader
    <3> QED BY <1>2, <3>1, <3>2, TimeAssumption DEF TimeAssumption
  <2> QED BY <1>1, <2>1, <2>2
<1>4. AckedLease'
  BY <1>1, <1>3, AckedStep DEF LeaseInv
<1>5. NoSelfPing'
  BY <1>1 DEF LeaseInv, NoSelfPing
<1> QED BY <1>3, <1>4, <1>5 DEF LeaseInv

\* A step that leaves the leases alone and counts no ping keeps the invariant.
LEMMA QuietLease ==
    ASSUME LeaseInv, TypeOK', NoSelfPing', UNCHANGED <<pingAge, holder, desired, desiredAge>>,
           \A x \in Nodes : leaderId'[x] \in {leaderId[x], x},
           \A c, x \in Nodes :
              pc'[c] = "round" /\ rpc'[c][x] \in {"pong", "acked"}
              => pc[c] = "round" /\ rpc[c][x] \in {"pong", "acked"} /\ timer'[c] = timer[c]
    PROVE  /\ LeaseInv'
           /\ \A x \in Nodes : pingAge[x] < Lease => holder'[x] = holder[x]
<1>1. \A x \in Nodes : pingAge'[x] <= pingAge[x]
  BY TimeAssumption DEF TimeAssumption, LeaseInv, TypeOK
<1>2. AckedLease'
  BY <1>1, AckedStep DEF LeaseInv, desiredVars
<1>3. LeaseLeader' /\ DesiredLease'
  BY DEF LeaseInv, LeaseLeader, DesiredLease
<1> QED BY <1>2, <1>3 DEF LeaseInv

\* The control routine keeps the invariant of the lease.
LEMMA ControlLease ==
    ASSUME LeaseInv, TypeOK', NEW n \in Nodes,
           \/ StepBack(n) \/ StartNewTerm(n) \/ EndDrain(n)
           \/ EndElectionsLeader(n) \/ EndElectionsOther(n)
           \/ BecomeLeader(n) \/ EndAwait(n) \/ LeaveRole(n) \/ LeaderChanged(n)
    PROVE  /\ LeaseInv'
           /\ \A x \in Nodes : pingAge[x] < Lease => holder'[x] = holder[x]
<1> USE DEF voteVars, desiredVars, routineVars, pingVars
<1>0. TypeOK /\ NoSelfPing
  BY DEF LeaseInv
<1>a. ASSUME UNCHANGED <<ping, late>> PROVE NoSelfPing'
  BY <1>0, <1>a DEF NoSelfPing
<1>1. CASE StepBack(n)
  <2>1. NoSelfPing'
    <3>1. \A r \in PingsInFlight(n) : r.from # r.to
      BY <1>0 DEF PingsInFlight, Request, NoSelfPing
    <3>2. late' \subseteq late \cup PingsInFlight(n)
      BY <1>1 DEF StepBack, GiveUp
    <3>3. \A x \in Nodes : ping'[x][x] # "sent"
      BY <1>0, <1>1 DEF StepBack, NoSelfPing, TypeOK
    <3> QED BY <1>0, <3>1, <3>2, <3>3 DEF NoSelfPing
  <2>2. \A c \in Nodes : pc'[c] = "round" => pc[c] = "round" /\ timer'[c] = timer[c]
    BY <1>0, <1>1 DEF StepBack, BeginRound, TypeOK
  <2> QED BY <1>1, <2>1, <2>2, QuietLease DEF StepBack
<1>2. CASE StartNewTerm(n)
  <2>1. \A x \in Nodes : leaderId'[x] \in {leaderId[x], x}
    BY <1>0, <1>2 DEF StartNewTerm, TypeOK
  <2>2. ASSUME NEW c \in Nodes, NEW x \in Nodes,
               pc'[c] = "round", rpc'[c][x] \in {"pong", "acked"}
        PROVE  pc[c] = "round" /\ rpc[c][x] \in {"pong", "acked"} /\ timer'[c] = timer[c]
    <3>1. CASE c # n
      BY <1>0, <1>2, <2>2, <3>1 DEF StartNewTerm, BeginRound, TypeOK
    <3>2. CASE c = n
      <4>1. rpc'[n] = SuggestToAll(n)
        BY <1>0, <1>2, <2>2, <3>2 DEF StartNewTerm, TypeOK
      <4> QED BY <2>2, <3>2, <4>1 DEF SuggestToAll
    <3> QED BY <3>1, <3>2
  <2> QED BY <1>2, <1>a, <2>1, <2>2, QuietLease DEF StartNewTerm
<1>3. CASE EndDrain(n)
  <2>1. ASSUME NEW c \in Nodes, NEW x \in Nodes,
               pc'[c] = "round", rpc'[c][x] \in {"pong", "acked"}
        PROVE  pc[c] = "round" /\ rpc[c][x] \in {"pong", "acked"} /\ timer'[c] = timer[c]
    BY <1>0, <1>3, <2>1 DEF EndDrain, SuggestToAll, TypeOK
  <2> QED BY <1>3, <1>a, <2>1, QuietLease DEF EndDrain
<1>4. CASE EndElectionsLeader(n)
  <2>1. NoSelfPing'
    BY <1>0, <1>4 DEF EndElectionsLeader, NoSelfPing, TypeOK
  <2>2. \A c \in Nodes : pc'[c] = "round" => pc[c] = "round" /\ timer'[c] = timer[c]
    BY <1>0, <1>4 DEF EndElectionsLeader, TypeOK
  <2> QED BY <1>4, <2>1, <2>2, QuietLease DEF EndElectionsLeader
<1>5. CASE EndElectionsOther(n)
  <2>1. \A c \in Nodes : pc'[c] = "round" =>
            pc[c] = "round" /\ timer'[c] = timer[c] /\ rpc'[c] = rpc[c]
    BY <1>0, <1>5 DEF EndElectionsOther, TypeOK
  <2> QED BY <1>5, <1>a, <2>1, QuietLease DEF EndElectionsOther
<1>6. CASE BecomeLeader(n)
  <2>1. \A c \in Nodes : pc'[c] = "round" => pc[c] = "round" /\ rpc'[c] = rpc[c]
    BY <1>0, <1>6 DEF BecomeLeader, TypeOK
  <2> QED BY <1>6, <1>a, <2>1, QuietLease DEF BecomeLeader
<1>7. CASE EndAwait(n)
  <2>1. \A c \in Nodes : pc'[c] = "round" => pc[c] = "round" /\ timer'[c] = timer[c]
    BY <1>0, <1>7 DEF EndAwait, TypeOK
  <2> QED BY <1>7, <1>a, <2>1, QuietLease DEF EndAwait
<1>8. CASE LeaveRole(n) \/ LeaderChanged(n)
  <2>1. \A c \in Nodes : pc'[c] = "round" => pc[c] = "round"
    BY <1>0, <1>8 DEF LeaveRole, LeaderChanged, TypeOK
  <2> QED BY <1>8, <1>a, <2>1, QuietLease DEF LeaveRole, LeaderChanged
<1> QED BY <1>1, <1>2, <1>3, <1>4, <1>5, <1>6, <1>7, <1>8

\* The coroutines keep the invariant of the lease.
LEMMA CoroutineLease ==
    ASSUME LeaseInv, TypeOK', NEW n \in Nodes, NEW m \in Nodes, n # m,
           \/ ReceiveAnswer(n, m) \/ StartPhase2(n, m) \/ ReceivePong(n, m)
           \/ RpcError(n, m) \/ SendPing(n, m) \/ StopPinging(n, m) \/ PingError(n, m)
    PROVE  /\ LeaseInv'
           /\ \A x \in Nodes : pingAge[x] < Lease => holder'[x] = holder[x]
<1> USE DEF voteVars, desiredVars, routineVars, pingVars
<1>0. TypeOK /\ NoSelfPing
  BY DEF LeaseInv
<1>a. ASSUME UNCHANGED <<ping, late>> PROVE NoSelfPing'
  BY <1>0, <1>a DEF NoSelfPing
<1>b. ASSUME NEW succeed \in BOOLEAN, NEW x \in Nodes,
             CountAnswer(n, m, succeed)[x] \in {"pong", "acked"}
      PROVE  rpc[n][x] \in {"pong", "acked"}
  BY <1>0, <1>b DEF CountAnswer, TypeOK
<1>1. CASE ReceiveAnswer(n, m)
  <2>1. \A c, x \in Nodes :
          rpc'[c][x] \in {"pong", "acked"} => rpc[c][x] \in {"pong", "acked"}
    BY <1>0, <1>1, <1>b DEF ReceiveAnswer, TypeOK
  <2> QED BY <1>1, <1>a, <2>1, QuietLease DEF ReceiveAnswer
<1>2. CASE StartPhase2(n, m)
  <2>1. \A c, x \in Nodes :
          rpc'[c][x] \in {"pong", "acked"} => rpc[c][x] \in {"pong", "acked"}
    BY <1>0, <1>2 DEF StartPhase2, TypeOK
  <2> QED BY <1>2, <1>a, <2>1, QuietLease DEF StartPhase2
<1>3. CASE ReceivePong(n, m)
  <2>1. \A c, x \in Nodes :
          rpc'[c][x] \in {"pong", "acked"} => rpc[c][x] \in {"pong", "acked"}
    BY <1>0, <1>3 DEF ReceivePong, TypeOK
  <2> QED BY <1>3, <1>a, <2>1, QuietLease DEF ReceivePong
<1>4. CASE RpcError(n, m)
  <2>1. \A c, x \in Nodes :
          rpc'[c][x] \in {"pong", "acked"} => rpc[c][x] \in {"pong", "acked"}
    <3>1. rpc' = [rpc EXCEPT ![n] = IF rpc[n][m] \in Unanswered
                                    THEN CountAnswer(n, m, FALSE)
                                    ELSE [rpc[n] EXCEPT ![m] = "voted"]]
      BY <1>4 DEF RpcError
    <3>2. \A x \in Nodes :
            rpc'[n][x] \in {"pong", "acked"} => rpc[n][x] \in {"pong", "acked"}
      <4>1. CASE rpc[n][m] \in Unanswered
        BY <1>0, <1>b, <3>1, <4>1 DEF TypeOK
      <4>2. CASE rpc[n][m] \notin Unanswered
        BY <1>0, <3>1, <4>2 DEF TypeOK
      <4> QED BY <4>1, <4>2
    <3>3. \A c \in Nodes : c # n => rpc'[c] = rpc[c]
      BY <1>0, <3>1 DEF TypeOK
    <3> QED BY <3>2, <3>3
  <2>2. NoSelfPing'
    <3>1. late' \subseteq late \cup {Request(rpc[n][m], n, m, roundTerm[n])}
      BY <1>4 DEF RpcError, GiveUp
    <3> QED BY <1>0, <1>4, <3>1 DEF RpcError, NoSelfPing, Request
  <2> QED BY <1>4, <2>1, <2>2, QuietLease DEF RpcError
<1>5. CASE SendPing(n, m) \/ StopPinging(n, m)
  <2>1. NoSelfPing'
    <3>1. UNCHANGED late /\ \E s : ping' = [ping EXCEPT ![n][m] = s]
      BY <1>5 DEF SendPing, StopPinging
    <3>2. \A x \in Nodes : ping'[x][x] = ping[x][x]
      BY <1>0, <3>1 DEF TypeOK
    <3> QED BY <1>0, <3>1, <3>2 DEF NoSelfPing
  <2> QED BY <1>5, <2>1, QuietLease DEF SendPing, StopPinging
<1>6. CASE PingError(n, m)
  <2>1. sentTerm[n][m] \in 0..MaxTerm
    BY <1>0 DEF TypeOK
  <2>2. /\ UNCHANGED <<desired, desiredAge, pc, timer, rpc>>
        /\ \A x \in Nodes : ping'[x][x] # "sent"
    BY <1>0, <1>6 DEF PingError, NoSelfPing, TypeOK
  <2>3. CASE GiveUp({Request("ping", n, m, sentTerm[n][m])}) /\ UNCHANGED voteVars
    <3>1. late' \subseteq late \cup {Request("ping", n, m, sentTerm[n][m])}
      BY <2>3 DEF GiveUp
    <3>2. NoSelfPing'
      BY <1>0, <2>2, <3>1 DEF NoSelfPing, Request
    <3> QED BY <2>2, <2>3, <3>2, QuietLease
  <2>4. CASE LeadersPing(m, n, sentTerm[n][m]) /\ UNCHANGED late
    <3>1. /\ LeaseLeader' /\ DesiredLease'
          /\ \A x \in Nodes : pingAge'[x] <= pingAge[x]
          /\ \A x \in Nodes : pingAge[x] < Lease => holder'[x] = holder[x]
      BY <2>1, <2>2, <2>4, PingLease DEF LeaseInv
    <3>2. AckedLease'
      BY <2>2, <3>1, AckedStep DEF LeaseInv
    <3> QED BY <1>0, <2>2, <2>4, <3>1, <3>2 DEF LeaseInv, NoSelfPing
  <2> QED BY <1>6, <2>3, <2>4 DEF PingError
<1> QED BY <1>1, <1>2, <1>3, <1>4, <1>5, <1>6

\* A command to elect another leader drops the lease and is remembered.
LEMMA CommandLease ==
    ASSUME LeaseInv, TypeOK', NEW n \in Nodes, Command(n)
    PROVE  /\ LeaseInv'
           /\ \A x \in Nodes : holder'[x] = holder[x]
<1> USE DEF voteVars, desiredVars, routineVars, pingVars
<1>0. TypeOK /\ NoSelfPing
  BY DEF LeaseInv
<1>1. CASE RequestRestart(n) \/ ForceElections(n)
  <2>1. UNCHANGED <<leaderId, pingAge, holder, desired, desiredAge, pc, timer, rpc, ping, late>>
    BY <1>1 DEF RequestRestart, ForceElections
  <2>2. NoSelfPing'
    BY <1>0, <2>1 DEF NoSelfPing
  <2> QED BY <2>1, <2>2, QuietLease
<1>2. ASSUME NEW d \in Targets, SetDesiredLeaderId(n, d)
      PROVE  /\ LeaseInv'
             /\ \A x \in Nodes : holder'[x] = holder[x]
  <2>1. /\ desired' = [desired EXCEPT ![n] = d]
        /\ desiredAge' = [desiredAge EXCEPT ![n] = 0]
        /\ pingAge' = [pingAge EXCEPT ![n] = Lease]
        /\ UNCHANGED <<leaderId, holder, pc, timer, rpc, ping, late>>
        /\ d # NoNode /\ Lease \in Nat
    BY <1>2, NodesAssumption, BoundsAssumption, TimeAssumption
    DEF SetDesiredLeaderId, SetDesired, NodesAssumption, BoundsAssumption, TimeAssumption
  <2>2. LeaseLeader' /\ DesiredLease'
    BY <1>0, <2>1 DEF LeaseInv, LeaseLeader, DesiredLease, TypeOK
  <2>3. AckedLease'
    <3> SUFFICES ASSUME NEW c \in Nodes, NEW m \in Nodes,
                        pc[c] = "round", rpc[c][m] \in {"pong", "acked"}, timer[c] <= Deadline
                 PROVE  \/ holder[m] = c /\ pingAge'[m] <= timer[c]
                        \/ desired'[m] # NoNode /\ desiredAge'[m] <= timer[c]
      BY <2>1 DEF AckedLease
    <3>1. CASE m = n
      BY <1>0, <2>1, <3>1 DEF TypeOK
    <3>2. CASE m # n
      BY <1>0, <2>1, <3>2 DEF LeaseInv, AckedLease, TypeOK
    <3> QED BY <3>1, <3>2
  <2>4. NoSelfPing'
    BY <1>0, <2>1 DEF NoSelfPing
  <2> QED BY <2>1, <2>2, <2>3, <2>4 DEF LeaseInv
<1> QED BY <1>1, <1>2 DEF Command

\* Time makes leases and rounds older by the same amount.
LEMMA TickLease ==
    ASSUME LeaseInv, TypeOK', Tick
    PROVE  /\ LeaseInv'
           /\ \A x \in Nodes : holder'[x] = holder[x]
<1> USE DEF voteVars, desiredVars, routineVars, pingVars
<1>0. /\ TypeOK /\ NoSelfPing
      /\ Lease \in Nat /\ Deadline \in Nat /\ DesiredTimeout \in Nat
      /\ Deadline < Lease /\ Deadline < DesiredTimeout
  BY TimeAssumption DEF LeaseInv, TimeAssumption
<1>1. UNCHANGED <<leaderId, holder, pc, rpc, ping, late>>
  BY DEF Tick
<1>2. ASSUME NEW x \in Nodes
      PROVE  /\ pingAge'[x] = IF pingAge[x] < Lease THEN pingAge[x] + 1 ELSE Lease
             /\ timer'[x] = IF pc[x] \in Timed /\ timer[x] < Lease THEN timer[x] + 1 ELSE timer[x]
             /\ desired'[x] = IF desiredAge[x] >= DesiredTimeout THEN NoNode ELSE desired[x]
             /\ desiredAge'[x] = IF desired'[x] = NoNode THEN 0 ELSE desiredAge[x] + 1
             /\ pingAge[x] \in 0..Lease /\ timer[x] \in 0..Lease
             /\ desiredAge[x] \in 0..DesiredTimeout
  BY <1>0 DEF Tick, Expires, TypeOK
<1>3. LeaseLeader'
  BY <1>0, <1>1, <1>2 DEF LeaseInv, LeaseLeader
<1>4. DesiredLease'
  BY <1>0, <1>1, <1>2 DEF LeaseInv, DesiredLease
<1>5. AckedLease'
  <2> SUFFICES ASSUME NEW c \in Nodes, NEW m \in Nodes,
                      pc[c] = "round", rpc[c][m] \in {"pong", "acked"}, timer'[c] <= Deadline
               PROVE  \/ holder[m] = c /\ pingAge'[m] <= timer'[c]
                      \/ desired'[m] # NoNode /\ desiredAge'[m] <= timer'[c]
    BY <1>1 DEF AckedLease
  <2>1. timer'[c] = timer[c] + 1 /\ timer[c] < Deadline
    BY <1>0, <1>2 DEF Timed
  <2>2. \/ holder[m] = c /\ pingAge[m] <= timer[c]
        \/ desired[m] # NoNode /\ desiredAge[m] <= timer[c]
    BY <1>0, <1>2, <2>1 DEF LeaseInv, AckedLease
  <2>3. CASE holder[m] = c /\ pingAge[m] <= timer[c]
    BY <1>0, <1>2, <2>1, <2>3
  <2>4. CASE desired[m] # NoNode /\ desiredAge[m] <= timer[c]
    BY <1>0, <1>2, <2>1, <2>4
  <2> QED BY <2>2, <2>3, <2>4
<1>6. NoSelfPing'
  BY <1>0, <1>1 DEF NoSelfPing
<1> QED BY <1>1, <1>3, <1>4, <1>5, <1>6 DEF LeaseInv

\* The invariant of the lease is inductive, and no step moves a lease.
LEMMA NextLease ==
    ASSUME LeaseInv, [Next]_vars
    PROVE  /\ LeaseInv'
           /\ \A x \in Nodes : pingAge[x] < Lease => holder'[x] = holder[x]
<1>0. TypeOK /\ TypeOK'
  BY NextType DEF LeaseInv
<1> DEFINE Goal == /\ LeaseInv'
                   /\ \A x \in Nodes : pingAge[x] < Lease => holder'[x] = holder[x]
<1>1. ASSUME NEW n \in Contenders, RoutineStep(n) PROVE Goal
  <2>1. n \in Nodes /\ Lossy \subseteq Nodes
    BY BoundsAssumption DEF BoundsAssumption
  <2>2. CASE \E m \in Nodes \ {n} :
                \/ ReceiveAnswer(n, m) \/ StartPhase2(n, m) \/ ReceivePong(n, m)
                \/ RpcError(n, m) \/ SendPing(n, m) \/ StopPinging(n, m) \/ PingError(n, m)
    BY <1>0, <2>1, <2>2, CoroutineLease
  <2>3. CASE \/ StepBack(n) \/ StartNewTerm(n) \/ EndDrain(n)
             \/ EndElectionsLeader(n) \/ EndElectionsOther(n)
             \/ BecomeLeader(n) \/ EndAwait(n) \/ LeaveRole(n) \/ LeaderChanged(n)
    BY <1>0, <2>1, <2>3, ControlLease
  <2> QED BY <1>1, <2>1, <2>2, <2>3 DEF RoutineStep, Peers
<1>2. ASSUME NEW n \in Commanded, Command(n) PROVE Goal
  BY <1>0, <1>2, CommandLease, BoundsAssumption DEF BoundsAssumption
<1>3. ASSUME NEW n \in Nodes, NEW m \in Peers(n), Handler(n, m) PROVE Goal
  BY <1>0, <1>3, HandlerLease
<1>4. CASE HandleLate
  BY <1>0, <1>4, LateLease
<1>5. CASE Tick
  BY <1>0, <1>5, TickLease
<1>6. CASE UNCHANGED vars
  <2>1. UNCHANGED <<leaderId, pingAge, holder, desired, desiredAge, pc, timer, rpc, ping, late>>
    BY <1>6 DEF vars, voteVars, desiredVars, routineVars, pingVars
  <2>2. NoSelfPing'
    BY <2>1 DEF LeaseInv, NoSelfPing
  <2> QED BY <1>0, <2>1, <2>2, QuietLease
<1> QED BY <1>1, <1>2, <1>3, <1>4, <1>5, <1>6 DEF Next

\* The invariant of the lease holds in every reachable state.
THEOREM LeaseInvariant == Spec => []LeaseInv
<1>1. LeaseInv /\ [Next]_vars => LeaseInv'
  BY NextLease
<1> QED BY <1>1, InitLease, PTL DEF Spec

\* LeadersPing: a lease does not change hands while it lasts, for every
\* cluster, every lease and every interleaving with late requests.
THEOREM LeaseExclusive == Spec => LeaseIsExclusive
<1>1. LeaseInv /\ [Next]_vars
      => [\A m \in Nodes : pingAge[m] < Lease /\ pingAge'[m] < Lease
                             => holder'[m] = holder[m]]_vars
  BY NextLease
<1> QED BY <1>1, LeaseInvariant, PTL DEF Spec, LeaseIsExclusive

\* A node takes the role Leader only at the end of its round.
LEMMA RoundMakesLeader ==
    ASSUME TypeOK, [Next]_vars, NEW c \in Nodes, role[c] # "Leader", role'[c] = "Leader"
    PROVE  EndElectionsLeader(c)
<1> USE DEF voteVars, desiredVars, routineVars, pingVars
<1>0. role \in [Nodes -> Roles] /\ role # role'
  BY DEF TypeOK
<1>1. \A n, m \in Nodes : \A t : LeadersPing(m, n, t) \/ SuggestLeader(m, n, t) => UNCHANGED role
  BY DEF LeadersPing, SuggestLeader
<1>2. CASE \E n \in Contenders : RoutineStep(n)
  <2>1. PICK n \in Nodes : RoutineStep(n)
    BY <1>2, BoundsAssumption DEF BoundsAssumption
  <2>2. \A m \in Nodes : PingError(n, m) => UNCHANGED role
    BY <1>1, <2>1 DEF PingError
  <2>3. ~(\E m \in Nodes : \/ ReceiveAnswer(n, m) \/ StartPhase2(n, m) \/ ReceivePong(n, m)
                           \/ RpcError(n, m) \/ SendPing(n, m) \/ StopPinging(n, m)
                           \/ PingError(n, m))
    BY <1>0, <2>2
    DEF ReceiveAnswer, StartPhase2, ReceivePong, RpcError, SendPing, StopPinging
  <2>4. ~(EndDrain(n) \/ BecomeLeader(n) \/ EndAwait(n) \/ LeaveRole(n) \/ LeaderChanged(n))
    BY <1>0 DEF EndDrain, BecomeLeader, EndAwait, LeaveRole, LeaderChanged
  <2>5. ~(StepBack(n) \/ StartNewTerm(n) \/ EndElectionsOther(n))
    BY <1>0 DEF StepBack, StartNewTerm, EndElectionsOther, Roles
  <2>6. Peers(n) \subseteq Nodes /\ Lossy \subseteq Nodes
    BY BoundsAssumption DEF BoundsAssumption, Peers
  <2>7. EndElectionsLeader(n)
    BY <2>1, <2>3, <2>4, <2>5, <2>6 DEF RoutineStep
  <2>8. n = c
    BY <1>0, <2>7 DEF EndElectionsLeader
  <2> QED BY <2>7, <2>8
<1>3. CASE \E n \in Commanded : Command(n)
  BY <1>0, <1>3 DEF Command, RequestRestart, ForceElections, SetDesiredLeaderId, SetDesired
<1>4. CASE \E n \in Nodes : \E m \in Peers(n) : Handler(n, m)
  BY <1>0, <1>1, <1>4 DEF Handler, HandleSuggest, HandlePhase2Ping, HandleRoutinePing, Peers
<1>5. CASE HandleLate
  <2>1. PICK r \in late : \/ LeadersPing(r.to, r.from, r.term)
                          \/ SuggestLeader(r.to, r.from, r.term)
    BY <1>5 DEF HandleLate
  <2>2. r.to \in Nodes /\ r.from \in Nodes
    BY DEF TypeOK, Requests
  <2> QED BY <1>0, <1>1, <2>1, <2>2
<1>6. CASE Tick
  BY <1>0, <1>6 DEF Tick
<1>7. CASE UNCHANGED vars
  BY <1>0, <1>7 DEF vars
<1> QED BY <1>2, <1>3, <1>4, <1>5, <1>6, <1>7 DEF Next

\* RunElectionsRound: a node takes the role Leader only while a majority is
\* bound to it (or was told to elect someone), for every cluster and lease.
THEOREM NewLeaderQuorum == Spec => NewLeaderHoldsQuorum
<1> DEFINE Bound(c) == {m \in Peers(c) : LeasedTo(m, c) \/ desired[m] # NoNode}
           Acked(c) == {m \in Peers(c) : rpc[c][m] = "acked"}
<1>1. ASSUME LeaseInv, [Next]_vars, NEW c \in Nodes, role[c] # "Leader", role'[c] = "Leader"
      PROVE  IsConsensus(1 + Cardinality(Bound(c)))
  <2>1. EndElectionsLeader(c)
    BY <1>1, RoundMakesLeader DEF LeaseInv
  <2>2. Acked(c) \subseteq Bound(c)
    <3> SUFFICES ASSUME NEW m \in Peers(c), rpc[c][m] = "acked"
                 PROVE  LeasedTo(m, c) \/ desired[m] # NoNode
      OBVIOUS
    <3>1. pc[c] = "round" /\ timer[c] <= Deadline /\ m \in Nodes
      BY <2>1 DEF EndElectionsLeader, MayLead, Peers
    <3>2. \/ holder[m] = c /\ pingAge[m] <= timer[c]
          \/ desired[m] # NoNode
      BY <1>1, <3>1 DEF LeaseInv, AckedLease
    <3> QED BY <1>1, <3>1, <3>2, TimeAssumption
            DEF TimeAssumption, LeaseInv, TypeOK, LeasedTo
  <2>3. IsFiniteSet(Bound(c)) /\ IsFiniteSet(Acked(c))
    BY NodesAssumption, FS_Subset DEF NodesAssumption, Peers
  <2>4. /\ Cardinality(Acked(c)) <= Cardinality(Bound(c))
        /\ Cardinality(Acked(c)) \in Nat /\ Cardinality(Bound(c)) \in Nat
    BY <2>2, <2>3, FS_Subset, FS_CardinalityType
  <2>5. Cardinality(Nodes) \in Nat
    BY NodesAssumption, FS_CardinalityType DEF NodesAssumption
  <2>6. IsConsensus(1 + Cardinality(Acked(c)))
    BY <2>1 DEF EndElectionsLeader, SucceedPhase2
  <2> HIDE DEF Bound, Acked
  <2> QED BY <2>4, <2>5, <2>6 DEF IsConsensus
<1>2. LeaseInv /\ [Next]_vars
      => [\A c \in Nodes : role[c] # "Leader" /\ role'[c] = "Leader" =>
            IsConsensus(1 + Cardinality({m \in Peers(c) :
                                LeasedTo(m, c) \/ desired[m] # NoNode}))]_vars
  BY <1>1
<1> QED BY <1>2, LeaseInvariant, PTL DEF Spec, NewLeaderHoldsQuorum

----------------------------------------------------------------------------
\* A round that is running was not told to elect another node.
DesiredRound ==
    \A n \in Nodes : pc[n] \in {"drain", "round"} => desired[n] \in {NoNode, n}

\* Only a command sets a desired leader, and it finds no round running.
LEMMA NextDesired == TypeOK /\ DesiredRound /\ [Next]_vars => DesiredRound'
<1> SUFFICES ASSUME TypeOK, DesiredRound, [Next]_vars PROVE DesiredRound'
  OBVIOUS
<1> USE DEF voteVars, desiredVars, routineVars, pingVars
<1>1. CASE \E n \in Contenders : RoutineStep(n)
  <2>1. PICK n \in Nodes : RoutineStep(n)
    BY <1>1, BoundsAssumption DEF BoundsAssumption
  <2>2. CASE \E m \in Nodes : \/ ReceiveAnswer(n, m) \/ StartPhase2(n, m) \/ ReceivePong(n, m)
                              \/ RpcError(n, m) \/ SendPing(n, m) \/ StopPinging(n, m)
                              \/ PingError(n, m)
    BY <2>2 DEF DesiredRound, ReceiveAnswer, StartPhase2, ReceivePong, RpcError, SendPing,
                StopPinging, PingError
  <2>3. CASE StartNewTerm(n)
    BY <2>3 DEF MustStepBack, StartNewTerm, BeginRound, TypeOK, DesiredRound
  <2>4. CASE EndDrain(n)
    BY <2>4 DEF EndDrain, TypeOK, DesiredRound
  <2>5. CASE StepBack(n) \/ EndElectionsLeader(n) \/ EndElectionsOther(n)
    BY <2>5 DEF StepBack, BeginRound, EndElectionsLeader, EndElectionsOther, TypeOK, DesiredRound
  <2>6. CASE BecomeLeader(n) \/ EndAwait(n) \/ LeaveRole(n) \/ LeaderChanged(n)
    BY <2>6 DEF BecomeLeader, EndAwait, LeaveRole, LeaderChanged, TypeOK, DesiredRound
  <2>7. Peers(n) \subseteq Nodes /\ Lossy \subseteq Nodes
    BY BoundsAssumption DEF BoundsAssumption, Peers
  <2> QED BY <2>1, <2>2, <2>3, <2>4, <2>5, <2>6, <2>7 DEF RoutineStep
<1>2. CASE \E n \in Commanded : Command(n)
  <2>1. PICK n \in Nodes : Command(n)
    BY <1>2, BoundsAssumption DEF BoundsAssumption
  <2> QED BY <2>1 DEF Command, RequestRestart, ForceElections, SetDesiredLeaderId, SetDesired,
                      TypeOK, DesiredRound
<1>3. CASE \E n \in Nodes : \E m \in Peers(n) : Handler(n, m)
  BY <1>3 DEF Handler, HandleSuggest, HandlePhase2Ping, HandleRoutinePing, DesiredRound
<1>4. CASE HandleLate
  BY <1>4 DEF HandleLate, DesiredRound
<1>5. CASE Tick
  BY <1>5 DEF Tick, TypeOK, DesiredRound
<1>6. CASE UNCHANGED vars
  BY <1>6 DEF vars, DesiredRound
<1> QED BY <1>1, <1>2, <1>3, <1>4, <1>5, <1>6 DEF Next

\* handleClusterCommands and RunElectionsRound: for every cluster, a node that
\* was told to elect another one does not take the role Leader meanwhile.
THEOREM CommandObeyed == Spec => ObeysCommand
<1>1. Init => DesiredRound
  BY DEF Init, DesiredRound
<1>2. TypeOK /\ DesiredRound /\ [Next]_vars
      => [\A n \in Nodes : role[n] # "Leader" /\ role'[n] = "Leader"
                             => desired[n] \in {NoNode, n}]_vars
  <2> SUFFICES ASSUME TypeOK, DesiredRound, [Next]_vars, NEW n \in Nodes,
                      role[n] # "Leader", role'[n] = "Leader"
               PROVE  desired[n] \in {NoNode, n}
    OBVIOUS
  <2>1. pc[n] = "round"
    BY RoundMakesLeader DEF EndElectionsLeader
  <2> QED BY <2>1 DEF DesiredRound
<1> QED BY <1>1, <1>2, NextDesired, TypeCorrect, PTL DEF Spec, ObeysCommand

----------------------------------------------------------------------------
\* The role and the place of the control routine agree.
PhaseOK(n) ==
    /\ pc[n] \in {"elected", "lead"} => role[n] = "Leader"
    /\ role[n] = "Leader" => pc[n] \in {"elected", "lead", "loop"}

\* What was announced fits the place of the control routine: only a node that
\* watches its role, or has just left it, has announced more than Candidate.
InfoOK(n) ==
    /\ info[n] \in Feed!Infos(n)
    /\ info[n].role = "Leader" => pc[n] \in {"lead", "loop"} /\ role[n] = "Leader"
    /\ info[n].role = "Follower" => pc[n] \in {"follow", "loop"}
    /\ info[n].role = "Follower" /\ pc[n] = "follow" => info[n].leaderId = knownLeader[n]

\* A node that is not the leader has no ping routine, unless it waits for them to
\* end, or has stepped back less than a tick ago.
PingOK(n) ==
    role[n] # "Leader" /\ pc[n] # "drain" =>
        \A m \in Nodes : \/ ping[n][m] = "off"
                         \/ ping[n][m] = "idle" /\ pc[n] = "yield" /\ timer[n] = 0

RoleInv == \A n \in Nodes : PhaseOK(n) /\ InfoOK(n) /\ PingOK(n)

LEMMA FeedInfos ==
    ASSUME NEW n \in Nodes, NEW l \in Nodes \cup {NoNode}
    PROVE  /\ RaftInfo("Candidate", l) \in Feed!Candidates
           /\ RaftInfo("Follower", l) \in Feed!Followers
           /\ RaftInfo("Leader", n) = Feed!Leader(n)
           /\ RaftInfo("Candidate", n) = Feed!Candidate(n)
           /\ Feed!Infos(n) = {Feed!Leader(n)} \cup Feed!Candidates \cup Feed!Followers
BY DEF RaftInfo, Feed!Candidates, Feed!Followers, Feed!Leader, Feed!Candidate, Feed!Follower,
       Feed!Ids, Feed!Infos

\* The infos are told apart by their role.
LEMMA FeedRoles ==
    ASSUME NEW n \in Nodes, NEW i \in Feed!Infos(n)
    PROVE  /\ i.role = "Leader" <=> i = Feed!Leader(n)
           /\ i.role = "Candidate" <=> i \in Feed!Candidates
           /\ i.role = "Follower" <=> i \in Feed!Followers
           /\ i.role \in {"Leader", "Candidate", "Follower"}
BY DEF Feed!Candidates, Feed!Followers, Feed!Leader, Feed!Candidate, Feed!Follower, Feed!Infos

\* The handlers of requests change neither the role nor the routines of a node.
LEMMA HandlersKeepRole ==
    ASSUME NEW m, NEW from, NEW t, SuggestLeader(m, from, t) \/ LeadersPing(m, from, t)
    PROVE  UNCHANGED role
BY DEF SuggestLeader, LeadersPing, voteVars

\* A step of the raft thread changes the announced role as RoleFeed allows.
LEMMA BeginRoundInv ==
    ASSUME TypeOK, RoleInv, NEW n \in Nodes, StepBack(n) \/ StartNewTerm(n)
    PROVE  RoleInv' /\ Feed!Next
<1> DEFINE l == IF role[n] = "Leader" THEN n ELSE knownLeader[n]
<1>1. l \in Nodes \cup {NoNode} /\ info' = [info EXCEPT ![n] = RaftInfo("Candidate", l)]
  BY DEF StepBack, StartNewTerm, BeginRound, TypeOK
<1>2. /\ info[n] \in Feed!Infos(n)
      /\ info[n].role = "Leader" => l = n
  BY DEF RoleInv, InfoOK
<1> HIDE DEF l
<1>3. RaftInfo("Candidate", l) \in Feed!Infos(n) /\ RaftInfo("Candidate", l).role = "Candidate"
  BY <1>1, FeedInfos DEF RaftInfo
<1>4. Feed!RoleStep(n, info[n], RaftInfo("Candidate", l))
  BY <1>1, <1>2, <1>3, FeedInfos, FeedRoles DEF Feed!RoleStep
<1>5. Feed!Next
  BY <1>1, <1>3, <1>4 DEF Feed!Next
<1>6. \A p \in Nodes : InfoOK(p)'
  BY <1>1, <1>3 DEF RoleInv, InfoOK, TypeOK, StepBack, StartNewTerm, BeginRound
<1>7. \A p \in Nodes : PhaseOK(p)'
  BY DEF RoleInv, PhaseOK, TypeOK, StepBack, StartNewTerm, BeginRound
<1>8. \A p \in Nodes : PingOK(p)'
  <2>1. CASE StepBack(n)
    BY <2>1 DEF RoleInv, PhaseOK, PingOK, TypeOK, StepBack, BeginRound, PingStates
  <2>2. CASE StartNewTerm(n)
    BY <2>2 DEF RoleInv, PhaseOK, PingOK, TypeOK, StartNewTerm, BeginRound, pingVars
  <2> QED
    BY <2>1, <2>2
<1> QED
  BY <1>5, <1>6, <1>7, <1>8 DEF RoleInv

\* The rest of the round announces nothing.
LEMMA RoundInv ==
    ASSUME TypeOK, RoleInv, NEW n \in Nodes,
           EndDrain(n) \/ EndElectionsLeader(n) \/ EndElectionsOther(n) \/ LeaveRole(n)
    PROVE  RoleInv' /\ UNCHANGED info
<1> USE DEF RoleInv, PhaseOK, InfoOK, PingOK, TypeOK, voteVars, pingVars
<1>1. CASE EndDrain(n)
  <2>1. \A p \in Nodes : PhaseOK(p)' /\ InfoOK(p)'
    BY <1>1 DEF EndDrain
  <2>2. \A p \in Nodes : PingOK(p)'
    BY <1>1 DEF EndDrain, PingsDrained
  <2> QED
    BY <1>1, <2>1, <2>2 DEF EndDrain
<1>2. CASE EndElectionsLeader(n)
  BY <1>2 DEF EndElectionsLeader
<1>3. CASE EndElectionsOther(n)
  BY <1>3 DEF EndElectionsOther
<1>4. CASE LeaveRole(n)
  BY <1>4 DEF LeaveRole
<1> QED
  BY <1>1, <1>2, <1>3, <1>4

\* A new role is announced after the round, and only by a candidate; a follower
\* announces another leader.
LEMMA AnnounceInv ==
    ASSUME TypeOK, RoleInv, NEW n \in Nodes, BecomeLeader(n) \/ EndAwait(n) \/ LeaderChanged(n)
    PROVE  RoleInv' /\ [Feed!Next]_info
<1>1. /\ info[n] \in Feed!Infos(n)
      /\ leaderId[n] \in Nodes \cup {NoNode}
      /\ info \in [Nodes -> [role : Roles, leaderId : Nodes \cup {NoNode}]]
  BY DEF RoleInv, InfoOK, TypeOK
<1>2. CASE BecomeLeader(n)
  <2>1. info' = [info EXCEPT ![n] = RaftInfo("Leader", n)]
    BY <1>2 DEF BecomeLeader
  <2>2. info[n].role = "Candidate"
    BY <1>1, <1>2, FeedRoles DEF BecomeLeader, RoleInv, InfoOK
  <2>3. Feed!RoleStep(n, info[n], RaftInfo("Leader", n)) /\ RaftInfo("Leader", n) \in Feed!Infos(n)
    BY <1>1, <2>2, FeedRoles, FeedInfos DEF Feed!RoleStep
  <2>4. Feed!Next
    BY <2>1, <2>3 DEF Feed!Next
  <2>5. \A p \in Nodes : InfoOK(p)'
    BY <1>1, <1>2, <2>1, <2>3 DEF BecomeLeader, RaftInfo, RoleInv, PhaseOK, InfoOK, TypeOK, voteVars
  <2>6. \A p \in Nodes : PhaseOK(p)' /\ PingOK(p)'
    BY <1>2 DEF BecomeLeader, RoleInv, PhaseOK, PingOK, TypeOK, voteVars, pingVars
  <2> QED
    BY <2>4, <2>5, <2>6 DEF RoleInv
<1>3. CASE EndAwait(n)
  <2>1. \/ UNCHANGED info
        \/ pc'[n] = "follow" /\ knownLeader'[n] = leaderId[n]
           /\ info' = [info EXCEPT ![n] = RaftInfo("Follower", leaderId[n])]
    <3>1. CASE Follows(n)
      BY <1>3, <3>1 DEF EndAwait, Follows, Unfollowed, TypeOK
    <3>2. CASE ~Follows(n)
      BY <1>1, <1>3, <3>2 DEF EndAwait
    <3> QED
      BY <3>1, <3>2
  <2>2. info[n].role = "Candidate"
    BY <1>1, <1>3, FeedRoles DEF EndAwait, RoleInv, InfoOK
  <2>3. /\ Feed!RoleStep(n, info[n], RaftInfo("Follower", leaderId[n]))
        /\ RaftInfo("Follower", leaderId[n]) \in Feed!Infos(n)
    BY <1>1, <2>2, FeedRoles, FeedInfos DEF Feed!RoleStep
  <2>4. [Feed!Next]_info
    BY <2>1, <2>3 DEF Feed!Next
  <2>5. \A p \in Nodes : InfoOK(p)'
    <3>1. CASE UNCHANGED info
      BY <1>3, <2>2, <3>1 DEF EndAwait, RoleInv, InfoOK, TypeOK, voteVars
    <3>2. CASE /\ pc'[n] = "follow" /\ knownLeader'[n] = leaderId[n]
               /\ info' = [info EXCEPT ![n] = RaftInfo("Follower", leaderId[n])]
      BY <1>1, <1>3, <2>3, <3>2 DEF EndAwait, RaftInfo, RoleInv, InfoOK, TypeOK, voteVars
    <3> QED
      BY <2>1, <3>1, <3>2
  <2>6. \A p \in Nodes : PhaseOK(p)' /\ PingOK(p)'
    BY <1>3, TimeAssumption
    DEF TimeAssumption, EndAwait, RoleInv, PhaseOK, PingOK, TypeOK, voteVars, pingVars
  <2> QED
    BY <2>4, <2>5, <2>6 DEF RoleInv
<1>4. CASE LeaderChanged(n)
  <2>1. info' = [info EXCEPT ![n] = RaftInfo("Follower", leaderId[n])]
    BY <1>4 DEF LeaderChanged
  <2>2. info[n].role # "Leader" /\ info[n] # RaftInfo("Follower", leaderId[n])
    BY <1>4 DEF LeaderChanged, RoleInv, InfoOK, RaftInfo
  <2>3. RaftInfo("Follower", leaderId[n]) \in Feed!Infos(n)
    BY <1>1, FeedInfos
  <2>4. RaftInfo("Follower", leaderId[n]) # Feed!Leader(n)
    BY DEF RaftInfo, Feed!Leader
  <2>5. Feed!RoleStep(n, info[n], RaftInfo("Follower", leaderId[n]))
    BY <1>1, <2>2, <2>3, <2>4, FeedRoles DEF Feed!RoleStep
  <2>6. Feed!Next
    BY <2>1, <2>3, <2>5 DEF Feed!Next
  <2>7. \A p \in Nodes : InfoOK(p)'
    BY <1>1, <1>4, <2>1, <2>3 DEF LeaderChanged, RaftInfo, RoleInv, InfoOK, TypeOK, voteVars
  <2>8. \A p \in Nodes : PhaseOK(p)' /\ PingOK(p)'
    BY <1>4 DEF LeaderChanged, RoleInv, PhaseOK, PingOK, TypeOK, voteVars, pingVars
  <2> QED
    BY <2>6, <2>7, <2>8 DEF RoleInv
<1> QED
  BY <1>2, <1>3, <1>4

\* The coroutines of a round and the ping routines announce nothing; a ping
\* routine is started by EndElectionsLeader only.
LEMMA CoroutineInv ==
    ASSUME TypeOK, RoleInv, NEW n \in Nodes, NEW m \in Nodes,
           \/ ReceiveAnswer(n, m) \/ StartPhase2(n, m) \/ ReceivePong(n, m)
           \/ RpcError(n, m) \/ SendPing(n, m) \/ StopPinging(n, m)
           \/ PingError(n, m) \/ Handler(n, m)
    PROVE  RoleInv' /\ UNCHANGED info
<1>1. UNCHANGED <<role, routineVars>>
  BY HandlersKeepRole
  DEF ReceiveAnswer, StartPhase2, ReceivePong, RpcError, SendPing, StopPinging, PingError,
      Handler, HandleSuggest, HandlePhase2Ping, HandleRoutinePing, voteVars
<1>2. \/ UNCHANGED ping
      \/ ping' = [ping EXCEPT ![n][m] = "sent"] /\ role[n] = "Leader"
      \/ ping' = [ping EXCEPT ![n][m] = "off"]
      \/ ping' = [ping EXCEPT ![n][m] = "idle"] /\ ping[n][m] = "sent"
  BY DEF ReceiveAnswer, StartPhase2, ReceivePong, RpcError, SendPing, StopPinging, PingError,
         Handler, HandleSuggest, HandlePhase2Ping, HandleRoutinePing, pingVars
<1>3. \A p \in Nodes : PhaseOK(p)' /\ InfoOK(p)'
  BY <1>1 DEF RoleInv, PhaseOK, InfoOK, routineVars
<1>4. \A p \in Nodes : PingOK(p)'
  <2> SUFFICES ASSUME NEW p \in Nodes, role[p] # "Leader", pc[p] # "drain", NEW q \in Nodes
               PROVE  \/ ping'[p][q] = "off"
                      \/ ping'[p][q] = "idle" /\ pc[p] = "yield" /\ timer[p] = 0
    BY <1>1 DEF PingOK, routineVars
  <2>1. \/ ping[p][q] = "off"
        \/ ping[p][q] = "idle" /\ pc[p] = "yield" /\ timer[p] = 0
    BY DEF RoleInv, PingOK
  <2>2. ping \in [Nodes -> [Nodes -> PingStates]]
    BY DEF TypeOK
  <2> QED
    BY <1>2, <2>1, <2>2
<1> QED
  BY <1>1, <1>3, <1>4 DEF RoleInv, routineVars

\* A command announces the role Candidate.
LEMMA CommandInv ==
    ASSUME TypeOK, RoleInv, NEW n \in Nodes, Command(n)
    PROVE  RoleInv' /\ [Feed!Next]_info
<1> DEFINE l == IF role[n] = "Leader" THEN n ELSE leaderId[n]
<1>1. l \in Nodes \cup {NoNode} /\ info[n] \in Feed!Infos(n)
      /\ info \in [Nodes -> [role : Roles, leaderId : Nodes \cup {NoNode}]]
  BY DEF RoleInv, InfoOK, TypeOK
<1>2. UNCHANGED <<pc, role, timer, ping, knownLeader>>
  BY DEF Command, RequestRestart, ForceElections, SetDesiredLeaderId, SetDesired, voteVars, pingVars
<1>3. UNCHANGED info \/ info' = [info EXCEPT ![n] = RaftInfo("Candidate", l)]
  BY DEF Command, RequestRestart, ForceElections, SetDesiredLeaderId, SetDesired, RoleInv, PhaseOK
<1>4. info[n].role = "Leader" => l = n
  BY DEF RoleInv, InfoOK
<1> HIDE DEF l
<1>5. /\ RaftInfo("Candidate", l) \in Feed!Infos(n)
      /\ RaftInfo("Candidate", l).role = "Candidate"
  BY <1>1, FeedInfos DEF RaftInfo
<1>6. Feed!RoleStep(n, info[n], RaftInfo("Candidate", l))
  BY <1>1, <1>4, <1>5, FeedInfos, FeedRoles DEF Feed!RoleStep
<1>7. [Feed!Next]_info
  BY <1>3, <1>5, <1>6 DEF Feed!Next
<1>8. \A p \in Nodes : InfoOK(p)'
  BY <1>1, <1>2, <1>3, <1>5 DEF RoleInv, InfoOK
<1>9. \A p \in Nodes : PhaseOK(p)' /\ PingOK(p)'
  BY <1>2 DEF RoleInv, PhaseOK, PingOK
<1> QED
  BY <1>7, <1>8, <1>9 DEF RoleInv

\* Time stops the ping routines of a node that has stepped back.
LEMMA TickInv ==
    ASSUME TypeOK, RoleInv, Tick
    PROVE  RoleInv' /\ UNCHANGED info
<1>1. UNCHANGED <<pc, role, ping, info, knownLeader>>
  BY DEF Tick, pingVars
<1>2. \A n \in Nodes : PhaseOK(n)' /\ InfoOK(n)'
  BY <1>1 DEF RoleInv, PhaseOK, InfoOK
<1>3. \A n \in Nodes : PingOK(n)'
  <2> SUFFICES ASSUME NEW n \in Nodes, role[n] # "Leader", pc[n] # "drain", NEW m \in Nodes
               PROVE  ping[n][m] = "off"
    BY <1>1 DEF PingOK
  <2>1. ping[n][m] # "idle"
    BY DEF Tick
  <2> QED
    BY <2>1 DEF RoleInv, PingOK
<1> QED
  BY <1>1, <1>2, <1>3 DEF RoleInv

LEMMA NextRoles == TypeOK /\ RoleInv /\ [Next]_vars => RoleInv' /\ [Feed!Next]_info
<1> SUFFICES ASSUME TypeOK, RoleInv, [Next]_vars PROVE RoleInv' /\ [Feed!Next]_info
  OBVIOUS
<1>1. CASE \E n \in Contenders : RoutineStep(n)
  <2>1. PICK n \in Nodes : RoutineStep(n)
    BY <1>1, BoundsAssumption DEF BoundsAssumption
  <2>2. Peers(n) \subseteq Nodes /\ Lossy \subseteq Nodes
    BY BoundsAssumption DEF BoundsAssumption, Peers
  <2> QED
    BY <2>1, <2>2, BeginRoundInv, RoundInv, AnnounceInv, CoroutineInv DEF RoutineStep
<1>2. CASE \E n \in Commanded : Command(n)
  BY <1>2, CommandInv, BoundsAssumption DEF BoundsAssumption
<1>3. CASE \E n \in Nodes : \E m \in Peers(n) : Handler(n, m)
  BY <1>3, CoroutineInv DEF Peers
<1>4. CASE HandleLate
  <2>1. UNCHANGED <<role, routineVars, ping>>
    BY <1>4, HandlersKeepRole DEF HandleLate, pingVars
  <2> QED
    BY <2>1 DEF RoleInv, PhaseOK, InfoOK, PingOK, routineVars
<1>5. CASE Tick
  BY <1>5, TickInv
<1>6. CASE UNCHANGED vars
  BY <1>6 DEF vars, voteVars, routineVars, pingVars, RoleInv, PhaseOK, InfoOK, PingOK
<1> QED
  BY <1>1, <1>2, <1>3, <1>4, <1>5, <1>6 DEF Next

LEMMA InitRoles == Init => RoleInv /\ Feed!Init
<1> SUFFICES ASSUME Init PROVE RoleInv /\ Feed!Init
  OBVIOUS
<1>1. \A n \in Nodes : InfoOK(n)
  BY FeedInfos DEF Init, InfoOK, RaftInfo
<1>2. \A n \in Nodes : PhaseOK(n) /\ PingOK(n)
  <2> SUFFICES ASSUME NEW n \in Nodes PROVE PhaseOK(n) /\ PingOK(n)
    OBVIOUS
  <2>1. pc[n] = "loop" /\ role[n] = "None" /\ \A m \in Nodes : ping[n][m] = "off"
    BY DEF Init
  <2> QED
    BY <2>1 DEF PhaseOK, PingOK
<1> QED
  BY <1>1, <1>2 DEF RoleInv, Init, Feed!Init, RaftInfo, Feed!Candidate

\* clusterControlRoutine calls onRoleChanged with a sequence of roles that RoleFeed
\* allows, at every node of every cluster: the elections implement what the role
\* switcher relies on.
THEOREM ElectionsFeedRoles == Spec => FeedsRoles
BY InitRoles, NextRoles, TypeCorrect, PTL DEF Spec, FeedsRoles, Feed!Spec

\* The assertion of startPingRoutines: a node that takes the role Leader has no
\* ping routine left, though its last leadership may have ended in the middle of a ping.
THEOREM PingsAreOff == Spec => NoStalePingRoutine
<1>1. TypeOK /\ RoleInv /\ [Next]_vars
      => [\A n \in Nodes : role[n] # "Leader" /\ role'[n] = "Leader"
                             => \A m \in Nodes : ping[n][m] = "off"]_vars
  <2> SUFFICES ASSUME TypeOK, RoleInv, [Next]_vars, NEW n \in Nodes,
                      role[n] # "Leader", role'[n] = "Leader"
               PROVE  \A m \in Nodes : ping[n][m] = "off"
    OBVIOUS
  <2>1. pc[n] = "round"
    BY RoundMakesLeader DEF EndElectionsLeader
  <2> QED
    BY <2>1 DEF RoleInv, PingOK
<1>2. Spec => []RoleInv
  BY InitRoles, NextRoles, TypeCorrect, PTL DEF Spec
<1> QED
  BY <1>1, <1>2, TypeCorrect, PTL DEF Spec, NoStalePingRoutine
============================================================================
