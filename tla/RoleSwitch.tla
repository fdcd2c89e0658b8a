----------------------------- MODULE RoleSwitch -----------------------------
(***************************************************************************)
(* How a node takes the role its raft thread decided on: SharedSyncState   *)
(* (the roles and the marks of the initial sync), RoleSwitcher (the        *)
(* coroutines of the role switch thread) and LeaderSyncer.                 *)
(*                                                                         *)
(* Three kinds of threads interleave: the raft thread calls SetRole and    *)
(* OnRoleChanged; the role switch thread runs the await coroutine, the     *)
(* sync coroutine, the timer and the async callback, one at a time and     *)
(* switching only where they suspend; the sync threads mark namespaces     *)
(* while LeaderSyncer::Sync blocks the role switch thread in Join.         *)
(***************************************************************************)
EXTENDS Naturals

CONSTANTS
    Self, Others, NoNode,  \* this node, the other nodes, the server id -1
    Namespaces,            \* the namespaces of the cluster config
    MaxChanges             \* bound: the number of calls of onRoleChanged

ASSUME RoleSwitchAssumption == MaxChanges \in Nat

VARIABLES
    next, current,         \* SharedSyncState: next_ and current_
    synchronized,          \* SharedSyncState: synchronized_
    initialSyncDoneCnt,
    announced,             \* the raft thread has set next_ and not yet called OnRoleChanged
    changes,               \* calls of onRoleChanged so far
    async, awaitCh,        \* roleSwitchAsync_ is pending; awaitCh_ is full
    pc, curState, newState,  \* handleRoleSwitch: its place and its pair of roles
    curRole,               \* curRole_
    dbStatus, nsStatus,    \* ClusterOperationStatus of the database, of its namespaces
    syncList,              \* SynchronizationList, cleared or initialized
    told,                  \* the role of the last onRoleSwitchDone
    sync, toCollect, queue, syncErr,  \* the sync coroutine
    timer, timerIsCanceled   \* leaderResyncTimer_ is started; timerIsCanceled_

stateVars == <<next, current, synchronized, initialSyncDoneCnt>>
feedVars == <<announced, changes>>
noticeVars == <<async, awaitCh>>
switchVars == <<pc, curState, newState, curRole, dbStatus, nsStatus>>
syncVars == <<sync, toCollect, queue, syncErr>>
timerVars == <<timer, timerIsCanceled>>
vars == <<stateVars, feedVars, noticeVars, switchVars, syncList, told, syncVars,
          timerVars>>

Feed == INSTANCE RoleFeed WITH Nodes <- Others \cup {Self}, info <- [n \in {Self} |-> next]

Infos == Feed!Infos(Self)
NoRole == [role |-> "None", leaderId |-> NoNode]
Roles == {"None", "Leader", "Follower", "Candidate"}
Statuses == [role : {"None", "ClusterReplica"}, leaderId : Others \cup {Self, NoNode}]

----------------------------------------------------------------------------
(* SharedSyncState                                                         *)

\* Mutant: a mark is taken whatever the role is.
MarkAlways(names, done) ==
    /\ synchronized' = synchronized \cup names
    /\ initialSyncDoneCnt' = initialSyncDoneCnt + done

\* MarkSynchronized, for namespaces and for the whole sync
MarkSynchronized(names, done) ==
    /\ synchronized' = IF current.role = "Leader" THEN synchronized \cup names ELSE synchronized
    /\ initialSyncDoneCnt' = IF current.role = "Leader" THEN initialSyncDoneCnt + done
                                                        ELSE initialSyncDoneCnt

\* isInitialSyncDone, with replThreadsCnt_ = 1
IsInitialSyncDone == next.role = "Leader" /\ initialSyncDoneCnt = 1

\* Mutant: the marks of the leader survive the transition.
KeepMarks == current' = next /\ UNCHANGED <<synchronized, initialSyncDoneCnt>>

\* The transition of TryTransitRole
TransitRole ==
    LET leaves == current.role = "Leader" /\ next.role # "Leader"
    IN /\ current' = next
       /\ synchronized' = IF leaves THEN {} ELSE synchronized
       /\ initialSyncDoneCnt' = IF leaves THEN 0 ELSE initialSyncDoneCnt

----------------------------------------------------------------------------
(* The raft thread: ClusterDataReplicator::onRoleChanged                   *)

SetRole ==
    /\ ~announced
    /\ changes < MaxChanges
    /\ next' \in {to \in Infos : Feed!RoleStep(Self, next, to)}
    /\ announced' = TRUE
    /\ changes' = changes + 1
    /\ UNCHANGED <<current, synchronized, initialSyncDoneCnt, noticeVars, switchVars,
                   syncList, told, syncVars, timerVars>>

\* The syncer, if there is one, is told to terminate: its threads fail sooner,
\* which they may do at any time.
OnRoleChanged ==
    /\ announced
    /\ announced' = FALSE
    /\ async' = TRUE
    /\ UNCHANGED <<stateVars, changes, awaitCh, switchVars, syncList, told, syncVars,
                   timerVars>>

----------------------------------------------------------------------------
(* The role switch thread: notification and handleRoleSwitch               *)

\* The thread runs its event loop: it is not in LeaderSyncer::Sync and the
\* await coroutine is suspended.
LoopRuns == sync \notin {"created", "threads"} /\ pc \in {"await", "join"}

\* Mutant: the channel takes a notification only while someone waits for it.
PushIfAwaited == pc = "await" \/ awaitCh

\* notify: pushes unless the channel is full
Push == TRUE

Notify ==
    /\ LoopRuns
    /\ async
    /\ async' = FALSE
    /\ awaitCh' = Push
    /\ UNCHANGED <<stateVars, feedVars, switchVars, syncList, told, syncVars, timerVars>>

\* awaitCh_.pop() and GetRolesPair
Await ==
    /\ LoopRuns
    /\ pc = "await"
    /\ awaitCh
    /\ awaitCh' = FALSE
    /\ pc' = "switch"
    /\ curState' = current
    /\ newState' = next
    /\ UNCHANGED <<stateVars, feedVars, async, curRole, dbStatus, nsStatus, syncList, told,
                   syncVars, timerVars>>

\* The status for a new state; a candidate that was the leader stays writable.
OperationStatus(new, wasLeader) ==
    [role |-> IF new.role = "Follower" \/ (new.role = "Candidate" /\ ~wasLeader)
              THEN "ClusterReplica" ELSE "None",
     leaderId |-> new.leaderId]

\* setClusterOperationStatus and switchNamespaces, syncList_.Clear()
SwitchStatus ==
    /\ pc = "switch"
    /\ newState # curState
    /\ dbStatus' = OperationStatus(newState, curState.role = "Leader")
    /\ nsStatus' = OperationStatus(newState, curRole = "Leader")
    /\ curState' = newState
    /\ syncList' = "cleared"
    /\ pc' = "transit"
    /\ UNCHANGED <<stateVars, feedVars, noticeVars, newState, curRole, told, syncVars,
                   timerVars>>

\* Mutant: the role is not compared with the one that was prepared for.
SameAlways(expected) == TRUE

SameAsNext(expected) == expected = next

\* TryTransitRole
TryTransitRole ==
    /\ pc = "transit"
    /\ IF SameAsNext(newState)
       THEN TransitRole /\ UNCHANGED newState
       ELSE newState' = next /\ UNCHANGED <<current, synchronized, initialSyncDoneCnt>>
    /\ pc' = "switch"
    /\ UNCHANGED <<next, feedVars, noticeVars, curState, curRole, dbStatus, nsStatus,
                   syncList, told, syncVars, timerVars>>

\* The spawned sync coroutine runs up to the first answer it waits for.
StartSync ==
    /\ sync' = "collect"
    /\ toCollect' = Namespaces
    /\ queue' = {}
    /\ syncErr' = FALSE

\* The role stayed as it was.
KeepRole ==
    /\ pc = "switch" /\ newState = curState /\ curRole = newState.role
    /\ pc' = "await"
    /\ UNCHANGED <<stateVars, feedVars, noticeVars, curState, newState, curRole, dbStatus,
                   nsStatus, syncList, told, syncVars, timerVars>>

\* handleInitialSync of a new leader
BeginLeaderSync ==
    /\ pc = "switch" /\ newState = curState /\ curRole # newState.role
    /\ newState.role = "Leader"
    /\ timerIsCanceled' = FALSE
    /\ StartSync
    /\ curRole' = "Leader"
    /\ pc' = "await"
    /\ UNCHANGED <<stateVars, feedVars, noticeVars, curState, newState, dbStatus, nsStatus,
                   syncList, told, timer>>

\* handleInitialSync of a former leader, up to leaderResyncWg_.wait()
CancelLeaderSync ==
    /\ pc = "switch" /\ newState = curState /\ curRole # newState.role
    /\ newState.role # "Leader" /\ curRole = "Leader"
    /\ timerIsCanceled' = TRUE
    /\ timer' = FALSE
    /\ pc' = "join"
    /\ UNCHANGED <<stateVars, feedVars, noticeVars, curState, newState, curRole, dbStatus,
                   nsStatus, syncList, told, syncVars>>

\* Mutant: the former leader does not wait for its sync coroutine.
NoJoin == pc = "join"

SyncJoined == pc = "join" /\ sync = "off"

\* onRoleSwitchDone of a node that is not the leader
EndSwitch ==
    /\ \/ SyncJoined
       \/ /\ pc = "switch" /\ newState = curState /\ curRole # newState.role
          /\ newState.role # "Leader" /\ curRole # "Leader"
    /\ curRole' = newState.role
    /\ told' = current.role
    /\ pc' = "await"
    /\ UNCHANGED <<stateVars, feedVars, noticeVars, curState, newState, dbStatus, nsStatus,
                   syncList, syncVars, timerVars>>

----------------------------------------------------------------------------
(* The sync coroutine: initialLeadersSync and LeaderSyncer                 *)

\* getNodesListForNs: the local data is the latest, or another node's is, or
\* there are not enough answers.
Collect(ns) ==
    /\ LoopRuns
    /\ sync = "collect" /\ ns \in toCollect
    /\ toCollect' = toCollect \ {ns}
    /\ \/ MarkSynchronized({ns}, 0) /\ UNCHANGED <<queue, syncErr>>
       \/ queue' = queue \cup {ns}
          /\ UNCHANGED <<synchronized, initialSyncDoneCnt, syncErr>>
       \/ syncErr' = TRUE /\ UNCHANGED <<synchronized, initialSyncDoneCnt, queue>>
    /\ UNCHANGED <<next, current, feedVars, noticeVars, switchVars, syncList, told, sync,
                   timerVars>>

\* collectNsNames fails, or a namespace did: the coroutine disconnects.
CollectFailed ==
    /\ LoopRuns
    /\ sync = "collect"
    /\ toCollect = Namespaces \/ (toCollect = {} /\ syncErr)
    /\ sync' = "failed"
    /\ UNCHANGED <<stateVars, feedVars, noticeVars, switchVars, syncList, told, toCollect,
                   queue, syncErr, timerVars>>

\* The syncer exists, its threads do not yet.
CreateSyncer ==
    /\ LoopRuns
    /\ sync = "collect" /\ toCollect = {} /\ ~syncErr
    /\ sync' = "created"
    /\ UNCHANGED <<stateVars, feedVars, noticeVars, switchVars, syncList, told, toCollect,
                   queue, syncErr, timerVars>>

CreateThreads ==
    /\ sync = "created"
    /\ sync' = "threads"
    /\ UNCHANGED <<stateVars, feedVars, noticeVars, switchVars, syncList, told, toCollect,
                   queue, syncErr, timerVars>>

\* A sync thread takes a namespace from the queue and brings it up to date, or fails.
SyncNamespace(ns) ==
    /\ sync = "threads" /\ ns \in queue
    /\ queue' = queue \ {ns}
    /\ \/ MarkSynchronized({ns}, 0) /\ UNCHANGED syncErr
       \/ syncErr' = TRUE /\ UNCHANGED <<synchronized, initialSyncDoneCnt>>
    /\ UNCHANGED <<next, current, feedVars, noticeVars, switchVars, syncList, told, sync,
                   toCollect, timerVars>>

\* All threads have been joined; initialLeadersSync throws or marks the sync done.
JoinThreads ==
    /\ sync = "threads" /\ queue = {}
    /\ IF syncErr
       THEN sync' = "failed" /\ UNCHANGED <<synchronized, initialSyncDoneCnt, syncList>>
       ELSE sync' = "done" /\ syncList' = "init" /\ MarkSynchronized({}, 1)
    /\ UNCHANGED <<next, current, feedVars, noticeVars, switchVars, told, toCollect, queue,
                   syncErr, timerVars>>

\* disconnectNodes has returned
EndSync ==
    /\ LoopRuns
    /\ sync \in {"done", "failed"}
    /\ sync' = "off"
    /\ told' = IF sync = "done" THEN current.role ELSE told
    /\ timer' = (timer \/ (sync = "failed" /\ ~timerIsCanceled))
    /\ UNCHANGED <<stateVars, feedVars, noticeVars, switchVars, syncList, toCollect, queue,
                   syncErr, timerIsCanceled>>

\* leaderResyncTimer_ after kLeaderNsResyncInterval
ResyncTimer ==
    /\ LoopRuns
    /\ timer
    /\ timer' = FALSE
    /\ StartSync
    /\ UNCHANGED <<stateVars, feedVars, noticeVars, switchVars, syncList, told,
                   timerIsCanceled>>

----------------------------------------------------------------------------
\* ClusterDataReplicator::Run calls onRoleChanged(Candidate, -1) before it
\* starts the threads, RoleSwitcher::Run sends the first notification.
Init ==
    /\ next = Feed!Candidate(NoNode)
    /\ current = NoRole
    /\ synchronized = {} /\ initialSyncDoneCnt = 0
    /\ announced = FALSE /\ changes = 0
    /\ async = TRUE /\ awaitCh = FALSE
    /\ pc = "await" /\ curState = NoRole /\ newState = NoRole /\ curRole = "None"
    /\ dbStatus = NoRole /\ nsStatus = NoRole
    /\ syncList = "cleared"
    /\ told = "None"
    /\ sync = "off" /\ toCollect = {} /\ queue = {} /\ syncErr = FALSE
    /\ timer = FALSE /\ timerIsCanceled = FALSE

SwitchStep ==
    \/ SwitchStatus \/ TryTransitRole \/ KeepRole
    \/ BeginLeaderSync \/ CancelLeaderSync \/ EndSwitch

SyncStep ==
    \/ \E ns \in Namespaces : Collect(ns) \/ SyncNamespace(ns)
    \/ CollectFailed \/ CreateSyncer \/ CreateThreads \/ JoinThreads \/ EndSync

Next ==
    \/ SetRole \/ OnRoleChanged
    \/ Notify \/ Await \/ SwitchStep
    \/ SyncStep \/ ResyncTimer

Spec == Init /\ [][Next]_vars

\* The threads run; the event loop serves every source that stays ready, also
\* when a sync that fails again and again blocks the thread in between.
Fairness ==
    /\ WF_vars(OnRoleChanged)
    /\ WF_vars(SwitchStep)
    /\ WF_vars(SyncStep)
    /\ SF_vars(Notify)
    /\ SF_vars(Await)

FairSpec == Spec /\ Fairness

----------------------------------------------------------------------------
\* Types; that an initial sync is counted once for a leadership is what
\* initialLeadersSync asserts before it marks the sync done.
TypeOK ==
    /\ next \in Infos /\ current \in Infos \cup {NoRole}
    /\ synchronized \subseteq Namespaces
    /\ initialSyncDoneCnt \in 0..1
    /\ announced \in BOOLEAN /\ changes \in 0..MaxChanges
    /\ async \in BOOLEAN /\ awaitCh \in BOOLEAN
    /\ pc \in {"await", "switch", "transit", "join"}
    /\ curState \in Infos \cup {NoRole} /\ newState \in Infos \cup {NoRole}
    /\ curRole \in Roles /\ told \in Roles
    /\ dbStatus \in Statuses /\ nsStatus \in Statuses
    /\ syncList \in {"cleared", "init"}
    /\ sync \in {"off", "collect", "created", "threads", "done", "failed"}
    /\ toCollect \subseteq Namespaces /\ queue \subseteq Namespaces
    /\ syncErr \in BOOLEAN
    /\ timer \in BOOLEAN /\ timerIsCanceled \in BOOLEAN

Settled == ~announced /\ ~async /\ ~awaitCh /\ pc = "await"

\* No role change is lost between the raft thread, the async watcher, the
\* channel of one element and the loop of handleRoleSwitch: once nothing is
\* pending, the node has the role the elections gave it and the database and
\* the replication threads know it.
SettledRole ==
    Settled =>
        /\ current = next
        /\ curRole = next.role
        /\ dbStatus.leaderId = next.leaderId /\ nsStatus.leaderId = next.leaderId
        /\ next.role = "Leader" => dbStatus.role = "None" /\ nsStatus.role = "None"
        /\ next.role = "Follower" =>
             dbStatus.role = "ClusterReplica" /\ nsStatus.role = "ClusterReplica"
        /\ next.role # "Leader" \/ (initialSyncDoneCnt = 1 /\ sync = "off") => told = next.role

\* What a node begins a leadership with, once TryTransitRole has taken the role
\* from it in between: no sync coroutine, thread or resync timer of the earlier
\* leadership is left to mark anything, and nothing that one of them marked
\* while it was waited for, failed or disconnected is taken for the new initial
\* sync.  (Changes that TryTransitRole never sees are FollowingEndsSync's.)
FreshLeadership ==
    [][current.role # "Leader" /\ current'.role = "Leader" =>
          /\ sync = "off" /\ ~timer
          /\ synchronized' = {} /\ initialSyncDoneCnt' = 0]_vars

\* The assertion of leaderSyncFn: neither a new leadership nor the timer starts
\* a sync while another one runs.
OneSync == [][(BeginLeaderSync \/ ResyncTimer) => sync = "off"]_vars

\* A role the elections decided on is eventually taken, whatever the initial
\* sync of an earlier leadership is doing.
RoleIsTaken == []<>(current = next)

\* What replication.md says of a new leader, that it collects the latest data of
\* the other nodes right after the role switch: a node that follows another one
\* forgets that its initial sync was done, so that it syncs when it leads again.
FollowingEndsSync == next.role = "Follower" ~> initialSyncDoneCnt = 0
=============================================================================
