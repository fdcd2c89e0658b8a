-------------------------- MODULE RoleSwitchProofs --------------------------
(***************************************************************************)
(* Theorems about RoleSwitch, for any other nodes, any namespaces and any  *)
(* number of role changes.                                                 *)
(***************************************************************************)
EXTENDS RoleSwitch, TLAPS

\* A role change that is not taken yet is still on its way: the raft thread has
\* to call OnRoleChanged, the async watcher or the channel is pending, or
\* handleRoleSwitch has read it.
ChangeIsPending == announced \/ async \/ awaitCh \/ newState = next

\* The marks of the initial sync belong to the role Leader.
MarksNeedLeader == synchronized # {} \/ initialSyncDoneCnt # 0 => current.role = "Leader"

\* What handleRoleSwitch has prepared for is current_, except between
\* SwitchStatus and a successful TryTransitRole; before that, current_ has the
\* role the sync coroutine was last started or stopped for.
Prepared ==
    /\ pc \in {"await", "join"} => newState = curState
    /\ pc # "transit" /\ newState = curState => current = curState
    /\ pc = "transit" => newState = curState
    /\ pc = "await" => curRole = curState.role
    /\ pc # "join" /\ (pc = "switch" => newState # curState) => curRole = current.role
    /\ pc = "join" => newState.role # "Leader" /\ curRole = "Leader"

\* The statuses are those of the role that was prepared for.
StatusOf(status) ==
    /\ status.leaderId = curState.leaderId
    /\ curState.role = "Leader" => status.role = "None"
    /\ curState.role = "Follower" => status.role = "ClusterReplica"

\* A sync coroutine and its timer belong to a leader, never both at once, and
\* a former leader that waits for the coroutine has canceled the timer.
SyncOfLeader ==
    /\ sync # "off" \/ timer \/ initialSyncDoneCnt # 0 => curRole = "Leader"
    /\ timer => sync = "off"
    /\ pc = "join" => timerIsCanceled /\ ~timer
    /\ initialSyncDoneCnt # 0 => sync \in {"off", "done"} /\ ~timer

\* Who was told of the end of the role switch
Told ==
    /\ curRole # "Leader" => told = curRole
    /\ initialSyncDoneCnt # 0 /\ sync = "off" => told = "Leader"

\* The inductive invariant
Inv ==
    /\ TypeOK /\ MarksNeedLeader
    /\ ChangeIsPending /\ Prepared
    /\ StatusOf(dbStatus) /\ StatusOf(nsStatus)
    /\ SyncOfLeader /\ Told

-----------------------------------------------------------------------------
LEMMA InfoFields ==
    ASSUME NEW i \in Infos \cup {NoRole}
    PROVE  i.role \in Roles /\ i.leaderId \in Others \cup {Self, NoNode}
BY DEF Infos, NoRole, Roles, Feed!Infos, Feed!Leader, Feed!Candidates, Feed!Followers,
       Feed!Candidate, Feed!Follower, Feed!Ids

\* Every info the elections give is one of Infos.
LEMMA CandidateInfo == Feed!Candidate(NoNode) \in Infos
BY DEF Infos, Feed!Infos, Feed!Candidates, Feed!Ids

\* What OperationStatus gives: a status of the new role.
LEMMA StatusOfNew ==
    ASSUME NEW i \in Infos \cup {NoRole}, NEW wasLeader \in BOOLEAN
    PROVE  /\ OperationStatus(i, wasLeader) \in Statuses
           /\ OperationStatus(i, wasLeader).leaderId = i.leaderId
           /\ i.role = "Leader" => OperationStatus(i, wasLeader).role = "None"
           /\ i.role = "Follower" => OperationStatus(i, wasLeader).role = "ClusterReplica"
BY InfoFields DEF OperationStatus, Statuses

LEMMA InitInv == Init => Inv
<1> SUFFICES ASSUME Init PROVE Inv
  OBVIOUS
<1> USE DEF Init
<1>1. TypeOK
  <2>1. next \in Infos /\ current \in Infos \cup {NoRole} /\ newState \in Infos \cup {NoRole}
        /\ curState \in Infos \cup {NoRole}
    BY CandidateInfo
  <2>2. dbStatus \in Statuses /\ nsStatus \in Statuses
    BY DEF NoRole, Statuses
  <2>3. changes \in 0..MaxChanges /\ initialSyncDoneCnt \in 0..1
    BY RoleSwitchAssumption
  <2> QED
    BY <2>1, <2>2, <2>3 DEF TypeOK, Roles
<1>2. MarksNeedLeader /\ ChangeIsPending /\ SyncOfLeader /\ Told
  BY DEF MarksNeedLeader, ChangeIsPending, SyncOfLeader, Told
<1>3. Prepared /\ StatusOf(dbStatus) /\ StatusOf(nsStatus)
  BY DEF Prepared, StatusOf, NoRole
<1> QED
  BY <1>1, <1>2, <1>3 DEF Inv

\* The raft thread
LEMMA FeedStep ==
    Inv /\ (SetRole \/ OnRoleChanged) => Inv'
<1> SUFFICES ASSUME Inv, SetRole \/ OnRoleChanged PROVE Inv'
  OBVIOUS
<1> USE DEF Inv, stateVars, feedVars, noticeVars, switchVars, syncVars, timerVars
<1>1. CASE SetRole
  <2> USE <1>1 DEF SetRole
  <2>1. TypeOK'
    BY RoleSwitchAssumption DEF TypeOK
  <2>2. (MarksNeedLeader /\ ChangeIsPending)'
    BY DEF TypeOK, MarksNeedLeader, ChangeIsPending
  <2>3. Prepared'
    BY DEF TypeOK, Prepared
  <2>4. (StatusOf(dbStatus) /\ StatusOf(nsStatus))'
    BY DEF StatusOf
  <2>5. SyncOfLeader'
    BY DEF TypeOK, MarksNeedLeader, Prepared, SyncOfLeader
  <2>6. Told'
    BY DEF TypeOK, MarksNeedLeader, Prepared, SyncOfLeader, Told
  <2> QED
    BY <2>1, <2>2, <2>3, <2>4, <2>5, <2>6
<1>2. CASE OnRoleChanged
  <2> USE <1>2 DEF OnRoleChanged
  <2>1. TypeOK'
    <3>1. announced' \in BOOLEAN /\ async' \in BOOLEAN
      OBVIOUS
    <3> QED
      BY <3>1 DEF TypeOK
  <2>2. (MarksNeedLeader /\ ChangeIsPending)'
    BY DEF TypeOK, MarksNeedLeader, ChangeIsPending
  <2>3. Prepared'
    BY DEF TypeOK, Prepared
  <2>4. (StatusOf(dbStatus) /\ StatusOf(nsStatus))'
    BY DEF StatusOf
  <2>5. SyncOfLeader'
    BY DEF TypeOK, MarksNeedLeader, Prepared, SyncOfLeader
  <2>6. Told'
    BY DEF TypeOK, MarksNeedLeader, Prepared, SyncOfLeader, Told
  <2> QED
    BY <2>1, <2>2, <2>3, <2>4, <2>5, <2>6
<1> QED
  BY <1>1, <1>2

\* handleRoleSwitch, from the notification to the transition
LEMMA SwitchingStep ==
    Inv /\ (Notify \/ Await \/ SwitchStatus \/ TryTransitRole) => Inv'
<1> SUFFICES ASSUME Inv, Notify \/ Await \/ SwitchStatus \/ TryTransitRole PROVE Inv'
  OBVIOUS
<1> USE DEF Inv, stateVars, feedVars, noticeVars, switchVars, syncVars, timerVars
<1>1. CASE Notify
  <2> USE <1>1 DEF Notify, Push
  <2>1. TypeOK'
    <3>1. async' \in BOOLEAN /\ awaitCh' \in BOOLEAN
      OBVIOUS
    <3> QED
      BY <3>1 DEF TypeOK
  <2>2. (MarksNeedLeader /\ ChangeIsPending)'
    BY DEF TypeOK, MarksNeedLeader, ChangeIsPending
  <2>3. Prepared'
    BY DEF TypeOK, Prepared
  <2>4. (StatusOf(dbStatus) /\ StatusOf(nsStatus))'
    BY DEF StatusOf
  <2>5. SyncOfLeader'
    BY DEF TypeOK, MarksNeedLeader, Prepared, SyncOfLeader
  <2>6. Told'
    BY DEF TypeOK, MarksNeedLeader, Prepared, SyncOfLeader, Told
  <2> QED
    BY <2>1, <2>2, <2>3, <2>4, <2>5, <2>6
<1>2. CASE Await
  <2> USE <1>2 DEF Await
  <2>1. TypeOK'
    BY DEF TypeOK
  <2>2. (MarksNeedLeader /\ ChangeIsPending)'
    BY DEF TypeOK, MarksNeedLeader, ChangeIsPending
  <2>3. Prepared'
    BY DEF TypeOK, Prepared
  <2>4. (StatusOf(dbStatus) /\ StatusOf(nsStatus))'
    BY DEF TypeOK, Prepared, StatusOf
  <2>5. SyncOfLeader'
    BY DEF TypeOK, MarksNeedLeader, Prepared, SyncOfLeader
  <2>6. Told'
    BY DEF TypeOK, MarksNeedLeader, Prepared, SyncOfLeader, Told
  <2> QED
    BY <2>1, <2>2, <2>3, <2>4, <2>5, <2>6
<1>3. CASE SwitchStatus
  <2> USE <1>3 DEF SwitchStatus
  <2>1. TypeOK'
    BY StatusOfNew DEF TypeOK
  <2>2. (MarksNeedLeader /\ ChangeIsPending)'
    BY DEF TypeOK, MarksNeedLeader, ChangeIsPending
  <2>3. Prepared'
    BY DEF TypeOK, Prepared
  <2>4. (StatusOf(dbStatus) /\ StatusOf(nsStatus))'
    BY StatusOfNew DEF TypeOK, StatusOf
  <2>5. SyncOfLeader'
    BY DEF TypeOK, MarksNeedLeader, Prepared, SyncOfLeader
  <2>6. Told'
    BY DEF TypeOK, MarksNeedLeader, Prepared, SyncOfLeader, Told
  <2> QED
    BY <2>1, <2>2, <2>3, <2>4, <2>5, <2>6
<1>4. CASE TryTransitRole
  <2> USE <1>4 DEF TryTransitRole, SameAsNext, TransitRole
  <2>1. TypeOK'
    BY InfoFields DEF TypeOK
  <2>2. (MarksNeedLeader /\ ChangeIsPending)'
    BY DEF TypeOK, MarksNeedLeader, ChangeIsPending
  <2>3. Prepared'
    BY InfoFields DEF TypeOK, Prepared
  <2>4. (StatusOf(dbStatus) /\ StatusOf(nsStatus))'
    BY DEF StatusOf
  <2>5. SyncOfLeader'
    BY InfoFields DEF TypeOK, MarksNeedLeader, Prepared, SyncOfLeader
  <2>6. Told'
    BY InfoFields DEF TypeOK, MarksNeedLeader, Prepared, SyncOfLeader, Told
  <2> QED
    BY <2>1, <2>2, <2>3, <2>4, <2>5, <2>6
<1> QED
  BY <1>1, <1>2, <1>3, <1>4

\* The end of handleRoleSwitch
LEMMA SwitchedStep ==
    Inv /\ (KeepRole \/ BeginLeaderSync \/ CancelLeaderSync \/ EndSwitch) => Inv'
<1> SUFFICES ASSUME Inv, KeepRole \/ BeginLeaderSync \/ CancelLeaderSync \/ EndSwitch PROVE Inv'
  OBVIOUS
<1> USE DEF Inv, stateVars, feedVars, noticeVars, switchVars, syncVars, timerVars
<1>1. CASE KeepRole
  <2> USE <1>1 DEF KeepRole
  <2>1. TypeOK'
    BY DEF TypeOK
  <2>2. (MarksNeedLeader /\ ChangeIsPending)'
    BY DEF TypeOK, MarksNeedLeader, ChangeIsPending
  <2>3. Prepared'
    BY DEF TypeOK, Prepared
  <2>4. (StatusOf(dbStatus) /\ StatusOf(nsStatus))'
    BY DEF StatusOf
  <2>5. SyncOfLeader'
    BY DEF TypeOK, MarksNeedLeader, Prepared, SyncOfLeader
  <2>6. Told'
    BY DEF TypeOK, MarksNeedLeader, Prepared, SyncOfLeader, Told
  <2> QED
    BY <2>1, <2>2, <2>3, <2>4, <2>5, <2>6
<1>2. CASE BeginLeaderSync
  <2> USE <1>2 DEF BeginLeaderSync, StartSync
  <2>1. TypeOK'
    BY DEF TypeOK, Roles
  <2>2. (MarksNeedLeader /\ ChangeIsPending)'
    BY DEF TypeOK, MarksNeedLeader, ChangeIsPending
  <2>3. Prepared'
    BY DEF TypeOK, Prepared
  <2>4. (StatusOf(dbStatus) /\ StatusOf(nsStatus))'
    BY DEF StatusOf
  <2>5. SyncOfLeader'
    BY DEF TypeOK, MarksNeedLeader, Prepared, SyncOfLeader
  <2>6. Told'
    BY DEF TypeOK, MarksNeedLeader, Prepared, SyncOfLeader, Told
  <2> QED
    BY <2>1, <2>2, <2>3, <2>4, <2>5, <2>6
<1>3. CASE CancelLeaderSync
  <2> USE <1>3 DEF CancelLeaderSync
  <2>1. TypeOK'
    BY DEF TypeOK
  <2>2. (MarksNeedLeader /\ ChangeIsPending)'
    BY DEF TypeOK, MarksNeedLeader, ChangeIsPending
  <2>3. Prepared'
    BY DEF TypeOK, Prepared
  <2>4. (StatusOf(dbStatus) /\ StatusOf(nsStatus))'
    BY DEF StatusOf
  <2>5. SyncOfLeader'
    BY DEF TypeOK, MarksNeedLeader, Prepared, SyncOfLeader
  <2>6. Told'
    BY DEF TypeOK, MarksNeedLeader, Prepared, SyncOfLeader, Told
  <2> QED
    BY <2>1, <2>2, <2>3, <2>4, <2>5, <2>6
<1>4. CASE EndSwitch
  <2> USE <1>4 DEF EndSwitch, SyncJoined
  <2>1. TypeOK'
    BY InfoFields DEF TypeOK
  <2>2. (MarksNeedLeader /\ ChangeIsPending)'
    BY DEF TypeOK, MarksNeedLeader, ChangeIsPending
  <2>3. Prepared'
    BY InfoFields DEF TypeOK, Prepared
  <2>4. (StatusOf(dbStatus) /\ StatusOf(nsStatus))'
    BY DEF StatusOf
  <2>5. SyncOfLeader'
    BY InfoFields DEF TypeOK, MarksNeedLeader, Prepared, SyncOfLeader
  <2>6. Told'
    BY InfoFields DEF TypeOK, MarksNeedLeader, Prepared, SyncOfLeader, Told
  <2> QED
    BY <2>1, <2>2, <2>3, <2>4, <2>5, <2>6
<1> QED
  BY <1>1, <1>2, <1>3, <1>4

\* The sync coroutine, its threads and its timer
LEMMA SyncingStep ==
    Inv /\ (SyncStep \/ ResyncTimer) => Inv'
<1> SUFFICES ASSUME Inv, SyncStep \/ ResyncTimer PROVE Inv'
  OBVIOUS
<1> USE DEF Inv, stateVars, feedVars, noticeVars, switchVars, syncVars, timerVars
<1>1. ASSUME NEW ns \in Namespaces, Collect(ns) PROVE Inv'
  <2> USE <1>1 DEF Collect, MarkSynchronized
  <2>1. TypeOK'
    <3>1. synchronized' \subseteq Namespaces /\ initialSyncDoneCnt' \in 0..1
      BY DEF TypeOK
    <3>2. syncErr' \in BOOLEAN /\ queue' \subseteq Namespaces
      BY DEF TypeOK
    <3> QED
      BY <3>1, <3>2 DEF TypeOK
  <2>2. (MarksNeedLeader /\ ChangeIsPending)'
    BY DEF TypeOK, MarksNeedLeader, ChangeIsPending
  <2>3. Prepared'
    BY DEF TypeOK, Prepared
  <2>4. (StatusOf(dbStatus) /\ StatusOf(nsStatus))'
    BY DEF StatusOf
  <2>5. SyncOfLeader'
    BY DEF TypeOK, MarksNeedLeader, Prepared, SyncOfLeader
  <2>6. Told'
    BY DEF TypeOK, MarksNeedLeader, Prepared, SyncOfLeader, Told
  <2> QED
    BY <2>1, <2>2, <2>3, <2>4, <2>5, <2>6
<1>2. ASSUME NEW ns \in Namespaces, SyncNamespace(ns) PROVE Inv'
  <2> USE <1>2 DEF SyncNamespace, MarkSynchronized
  <2>1. TypeOK'
    <3>1. synchronized' \subseteq Namespaces /\ initialSyncDoneCnt' \in 0..1
      BY DEF TypeOK
    <3>2. syncErr' \in BOOLEAN
      BY DEF TypeOK
    <3> QED
      BY <3>1, <3>2 DEF TypeOK
  <2>2. (MarksNeedLeader /\ ChangeIsPending)'
    BY DEF TypeOK, MarksNeedLeader, ChangeIsPending
  <2>3. Prepared'
    BY DEF TypeOK, Prepared
  <2>4. (StatusOf(dbStatus) /\ StatusOf(nsStatus))'
    BY DEF StatusOf
  <2>5. SyncOfLeader'
    BY DEF TypeOK, MarksNeedLeader, Prepared, SyncOfLeader
  <2>6. Told'
    BY DEF TypeOK, MarksNeedLeader, Prepared, SyncOfLeader, Told
  <2> QED
    BY <2>1, <2>2, <2>3, <2>4, <2>5, <2>6
<1>3. CASE CollectFailed
  <2> USE <1>3 DEF CollectFailed
  <2>1. TypeOK'
    BY DEF TypeOK
  <2>2. (MarksNeedLeader /\ ChangeIsPending)'
    BY DEF TypeOK, MarksNeedLeader, ChangeIsPending
  <2>3. Prepared'
    BY DEF TypeOK, Prepared
  <2>4. (StatusOf(dbStatus) /\ StatusOf(nsStatus))'
    BY DEF StatusOf
  <2>5. SyncOfLeader'
    BY DEF TypeOK, MarksNeedLeader, Prepared, SyncOfLeader
  <2>6. Told'
    BY DEF TypeOK, MarksNeedLeader, Prepared, SyncOfLeader, Told
  <2> QED
    BY <2>1, <2>2, <2>3, <2>4, <2>5, <2>6
<1>4. CASE CreateSyncer
  <2> USE <1>4 DEF CreateSyncer
  <2>1. TypeOK'
    BY DEF TypeOK
  <2>2. (MarksNeedLeader /\ ChangeIsPending)'
    BY DEF TypeOK, MarksNeedLeader, ChangeIsPending
  <2>3. Prepared'
    BY DEF TypeOK, Prepared
  <2>4. (StatusOf(dbStatus) /\ StatusOf(nsStatus))'
    BY DEF StatusOf
  <2>5. SyncOfLeader'
    BY DEF TypeOK, MarksNeedLeader, Prepared, SyncOfLeader
  <2>6. Told'
    BY DEF TypeOK, MarksNeedLeader, Prepared, SyncOfLeader, Told
  <2> QED
    BY <2>1, <2>2, <2>3, <2>4, <2>5, <2>6
<1>5. CASE CreateThreads
  <2> USE <1>5 DEF CreateThreads
  <2>1. TypeOK'
    BY DEF TypeOK
  <2>2. (MarksNeedLeader /\ ChangeIsPending)'
    BY DEF TypeOK, MarksNeedLeader, ChangeIsPending
  <2>3. Prepared'
    BY DEF TypeOK, Prepared
  <2>4. (StatusOf(dbStatus) /\ StatusOf(nsStatus))'
    BY DEF StatusOf
  <2>5. SyncOfLeader'
    BY DEF TypeOK, MarksNeedLeader, Prepared, SyncOfLeader
  <2>6. Told'
    BY DEF TypeOK, MarksNeedLeader, Prepared, SyncOfLeader, Told
  <2> QED
    BY <2>1, <2>2, <2>3, <2>4, <2>5, <2>6
<1>6. CASE JoinThreads
  <2> USE <1>6 DEF JoinThreads, MarkSynchronized
  <2>1. TypeOK'
    <3>1. synchronized' \subseteq Namespaces /\ initialSyncDoneCnt' \in 0..1
      BY DEF TypeOK, SyncOfLeader
    <3> QED
      BY <3>1 DEF TypeOK
  <2>2. (MarksNeedLeader /\ ChangeIsPending)'
    BY DEF TypeOK, MarksNeedLeader, ChangeIsPending
  <2>3. Prepared'
    BY DEF TypeOK, Prepared
  <2>4. (StatusOf(dbStatus) /\ StatusOf(nsStatus))'
    BY DEF StatusOf
  <2>5. SyncOfLeader'
    BY DEF TypeOK, MarksNeedLeader, Prepared, SyncOfLeader
  <2>6. Told'
    BY DEF TypeOK, MarksNeedLeader, Prepared, SyncOfLeader, Told
  <2> QED
    BY <2>1, <2>2, <2>3, <2>4, <2>5, <2>6
<1>7. CASE EndSync
  <2> USE <1>7 DEF EndSync, LoopRuns
  <2>1. TypeOK'
    BY InfoFields DEF TypeOK
  <2>2. (MarksNeedLeader /\ ChangeIsPending)'
    BY DEF TypeOK, MarksNeedLeader, ChangeIsPending
  <2>3. Prepared'
    BY DEF TypeOK, Prepared
  <2>4. (StatusOf(dbStatus) /\ StatusOf(nsStatus))'
    BY DEF StatusOf
  <2>5. SyncOfLeader'
    BY DEF TypeOK, MarksNeedLeader, Prepared, SyncOfLeader
  <2>6. Told'
    BY InfoFields DEF TypeOK, MarksNeedLeader, Prepared, SyncOfLeader, Told
  <2> QED
    BY <2>1, <2>2, <2>3, <2>4, <2>5, <2>6
<1>8. CASE ResyncTimer
  <2> USE <1>8 DEF ResyncTimer, StartSync
  <2>1. TypeOK'
    BY DEF TypeOK
  <2>2. (MarksNeedLeader /\ ChangeIsPending)'
    BY DEF TypeOK, MarksNeedLeader, ChangeIsPending
  <2>3. Prepared'
    BY DEF TypeOK, Prepared
  <2>4. (StatusOf(dbStatus) /\ StatusOf(nsStatus))'
    BY DEF StatusOf
  <2>5. SyncOfLeader'
    BY DEF TypeOK, MarksNeedLeader, Prepared, SyncOfLeader
  <2>6. Told'
    BY DEF TypeOK, MarksNeedLeader, Prepared, SyncOfLeader, Told
  <2> QED
    BY <2>1, <2>2, <2>3, <2>4, <2>5, <2>6
<1> QED
  BY <1>1, <1>2, <1>3, <1>4, <1>5, <1>6, <1>7, <1>8 DEF SyncStep

LEMMA NextInv == Inv /\ [Next]_vars => Inv'
<1> SUFFICES ASSUME Inv, [Next]_vars PROVE Inv'
  OBVIOUS
<1>1. CASE UNCHANGED vars
  <2> USE <1>1 DEF Inv, vars, stateVars, feedVars, noticeVars, switchVars, syncVars, timerVars
  <2>1. TypeOK'
    BY DEF TypeOK
  <2>2. (MarksNeedLeader /\ ChangeIsPending /\ Prepared)'
    BY DEF MarksNeedLeader, ChangeIsPending, Prepared
  <2>3. (StatusOf(dbStatus) /\ StatusOf(nsStatus))'
    BY DEF StatusOf
  <2>4. (SyncOfLeader /\ Told)'
    BY DEF SyncOfLeader, Told
  <2> QED
    BY <2>1, <2>2, <2>3, <2>4
<1> QED
  BY <1>1, FeedStep, SwitchingStep, SwitchedStep, SyncingStep DEF Next, SwitchStep

\* The inductive invariant of the role switch (SharedSyncState, RoleSwitcher).
THEOREM SwitchInvariant == Spec => []Inv
BY InitInv, NextInv, PTL DEF Spec

\* Types; with them the assertion of initialLeadersSync that a leadership counts
\* one initial sync.
THEOREM TypeCorrect == Spec => []TypeOK
<1>1. Inv => TypeOK
  BY DEF Inv
<1> QED
  BY <1>1, SwitchInvariant, PTL

\* Once no notification is pending in the raft thread, the async watcher, the
\* channel or handleRoleSwitch, the node has the role the elections gave it.
THEOREM RoleIsSettled == Spec => []SettledRole
<1>1. Inv => SettledRole
  BY DEF Inv, TypeOK, MarksNeedLeader, ChangeIsPending, Prepared, StatusOf, Told, SettledRole,
         Settled
<1> QED
  BY <1>1, SwitchInvariant, PTL

\* A leadership that TryTransitRole gives to a node after another role begins
\* without a sync, a resync timer or a mark of the earlier leadership: its sync
\* coroutine was waited for, its timer was canceled, and what either marked is
\* gone or was not taken (handleInitialSync, MarkSynchronized).
THEOREM LeadershipIsFresh == Spec => FreshLeadership
<1>1. ASSUME Inv, Next, current.role # "Leader", current'.role = "Leader"
      PROVE  /\ sync = "off" /\ ~timer
             /\ synchronized' = {} /\ initialSyncDoneCnt' = 0
  <2>1. TryTransitRole
    BY <1>1 DEF Next, SetRole, OnRoleChanged, Notify, Await, SwitchStep, SwitchStatus, KeepRole,
                BeginLeaderSync, CancelLeaderSync, EndSwitch, SyncStep, Collect, SyncNamespace,
                CollectFailed, CreateSyncer, CreateThreads, JoinThreads, EndSync, ResyncTimer,
                stateVars
  <2>2. curRole # "Leader"
    BY <1>1, <2>1 DEF Inv, Prepared, TryTransitRole
  <2>3. sync = "off" /\ ~timer
    BY <1>1, <2>2 DEF Inv, TypeOK, SyncOfLeader
  <2>4. synchronized = {} /\ initialSyncDoneCnt = 0
    BY <1>1 DEF Inv, MarksNeedLeader
  <2> QED
    BY <1>1, <2>1, <2>3, <2>4 DEF TryTransitRole, TransitRole
<1>2. Inv /\ [Next]_vars
      => [current.role # "Leader" /\ current'.role = "Leader" =>
            /\ sync = "off" /\ ~timer
            /\ synchronized' = {} /\ initialSyncDoneCnt' = 0]_vars
  BY <1>1
<1> QED
  BY <1>2, SwitchInvariant, PTL DEF Spec, FreshLeadership

\* The assertion of leaderSyncFn: neither a new leadership nor the timer starts a
\* sync while another one runs.
THEOREM OneSyncAtATime == Spec => OneSync
<1>1. Inv /\ [Next]_vars => [(BeginLeaderSync \/ ResyncTimer) => sync = "off"]_vars
  BY DEF Inv, SyncOfLeader, BeginLeaderSync, ResyncTimer
<1> QED
  BY <1>1, SwitchInvariant, PTL DEF Spec, OneSync
=============================================================================
