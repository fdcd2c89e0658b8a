----------------------------- MODULE LeaderSync -----------------------------
(***************************************************************************)
(* The initial sync of a new leader: LeaderSyncQueue (the namespaces that  *)
(* are newer on other nodes, with a limit of concurrent snapshots for each *)
(* node) and the threads of LeaderSyncer::Sync that empty it.  The order   *)
(* of the entries in the queue is abstracted: any entry that satisfies the *)
(* conditions of TryToGetEntry may be the first one found.                 *)
(***************************************************************************)
EXTENDS Integers, FiniteSets

CONSTANTS
    Threads,          \* LeaderSyncer::threads_
    Sources,          \* the nodes snapshots are taken from
    Entries,          \* the namespaces to synchronize
    NodesOf,          \* Entry::nodes: the nodes that have the latest data
    MaxSyncsPerNode,  \* the limit of concurrent snapshots of a node
    None

ASSUME ThreadsAssumption == IsFiniteSet(Threads) /\ Threads # {}
ASSUME EntriesAssumption == NodesOf \in [Entries -> (SUBSET Sources) \ {{}}]
ASSUME LimitAssumption == MaxSyncsPerNode \in Nat \ {0}
ASSUME NoneAssumption == None \notin Sources \cup Entries

VARIABLES
    entries,              \* entries_
    currentSyncsPerNode,
    state, entry, node,   \* a thread: its place, the entry and the node it syncs from
    preferredNodeId,      \* a thread: the node its client is connected to
    failed,               \* a thread: lastError_ is set
    synchronized          \* the namespaces given to MarkSynchronized

vars == <<entries, currentSyncsPerNode, state, entry, node, preferredNodeId, failed,
          synchronized>>

\* Mutant: one sync too many.
HasRoomForOneMore(n) == currentSyncsPerNode[n] <= MaxSyncsPerNode

HasRoom(n) == currentSyncsPerNode[n] < MaxSyncsPerNode

\* What a pass over the entries finds, for a preferred node or for any
Found(nodes) == {p \in entries \X nodes : p[2] \in NodesOf[p[1]] /\ HasRoom(p[2])}

Preferred(t) == IF preferredNodeId[t] # None THEN {preferredNodeId[t]} ELSE Sources

\* Mutant: there is no second pass for the other nodes.
FoundPreferred(t) == Found(Preferred(t))

\* The candidates of TryToGetEntry: of the preferred node, else of any node
Candidates(t) == IF Found(Preferred(t)) # {} THEN Found(Preferred(t)) ELSE Found(Sources)

\* Mutant: the limit is not counted.
NotCounted(n) == UNCHANGED currentSyncsPerNode

SyncBegins(n) == currentSyncsPerNode' = [currentSyncsPerNode EXCEPT ![n] = @ + 1]

TryToGetEntry(t) ==
    /\ state[t] = "get"
    /\ \E p \in Candidates(t) :
          /\ entries' = entries \ {p[1]}
          /\ SyncBegins(p[2])
          /\ entry' = [entry EXCEPT ![t] = p[1]]
          /\ node' = [node EXCEPT ![t] = p[2]]
          /\ preferredNodeId' = [preferredNodeId EXCEPT ![t] = p[2]]
    /\ state' = [state EXCEPT ![t] = "sync"]
    /\ UNCHANGED <<failed, synchronized>>

\* TryToGetEntry returns false: the thread ends.
Exit(t) ==
    /\ state[t] = "get"
    /\ Candidates(t) = {}
    /\ state' = [state EXCEPT ![t] = "exit"]
    /\ UNCHANGED <<entries, currentSyncsPerNode, entry, node, preferredNodeId, failed,
                   synchronized>>

\* Mutant: the error of a thread is forgotten.
ErrorForgotten(t) == UNCHANGED failed

SetLastError(t) == failed' = [failed EXCEPT ![t] = TRUE]

\* The snapshot was applied and its data hash is the expected one, or an error
\* occurred; then SyncDone(nodeId).
SyncDone(t) ==
    /\ state[t] = "sync"
    /\ \/ synchronized' = synchronized \cup {entry[t]} /\ UNCHANGED failed
       \/ SetLastError(t) /\ UNCHANGED synchronized
    /\ currentSyncsPerNode' = [currentSyncsPerNode EXCEPT ![node[t]] = @ - 1]
    /\ state' = [state EXCEPT ![t] = "get"]
    /\ entry' = [entry EXCEPT ![t] = None]
    /\ node' = [node EXCEPT ![t] = None]
    /\ UNCHANGED <<entries, preferredNodeId>>

\* Refill and the creation of the threads
Init ==
    /\ entries = Entries
    /\ currentSyncsPerNode = [n \in Sources |-> 0]
    /\ state = [t \in Threads |-> "get"]
    /\ entry = [t \in Threads |-> None]
    /\ node = [t \in Threads |-> None]
    /\ preferredNodeId = [t \in Threads |-> None]
    /\ failed = [t \in Threads |-> FALSE]
    /\ synchronized = {}

Next == \E t \in Threads : TryToGetEntry(t) \/ Exit(t) \/ SyncDone(t)

Spec == Init /\ [][Next]_vars

----------------------------------------------------------------------------
TypeOK ==
    /\ entries \subseteq Entries
    /\ currentSyncsPerNode \in [Sources -> 0..MaxSyncsPerNode]
    /\ state \in [Threads -> {"get", "sync", "exit"}]
    /\ entry \in [Threads -> Entries \cup {None}]
    /\ node \in [Threads -> Sources \cup {None}]
    /\ preferredNodeId \in [Threads -> Sources \cup {None}]
    /\ failed \in [Threads -> BOOLEAN]
    /\ synchronized \subseteq Entries

Syncing == {t \in Threads : state[t] = "sync"}
SyncsFrom(n) == {t \in Threads : state[t] = "sync" /\ node[t] = n}

\* The limit of concurrent snapshots is kept at every node, and the counter
\* SyncDone asserts to be positive is the number of threads that sync from it.
LimitIsKept ==
    \A n \in Sources : /\ currentSyncsPerNode[n] = Cardinality(SyncsFrom(n))
                       /\ currentSyncsPerNode[n] <= MaxSyncsPerNode

\* The assertion of LeaderSyncer::Sync: a thread that finds every node at its
\* limit ends, and still nothing is left in the queue when all have ended.
QueueIsEmptied == (\A t \in Threads : state[t] = "exit") => entries = {}

\* An initial sync without an error has synchronized every namespace.
AllSynchronized ==
    (\A t \in Threads : state[t] = "exit" /\ ~failed[t]) => synchronized = Entries

\* The inductive invariant: while there are entries a thread is running, and a
\* namespace is in the queue, being synchronized or done unless a thread failed.
Inv ==
    /\ TypeOK
    /\ \A t \in Threads : state[t] = "sync" => node[t] \in Sources /\ entry[t] \in Entries
    /\ LimitIsKept
    /\ entries # {} => \E t \in Threads : state[t] # "exit"
    /\ (\A t \in Threads : ~failed[t]) =>
         Entries \subseteq entries \cup synchronized \cup {entry[t] : t \in Syncing}
=============================================================================
