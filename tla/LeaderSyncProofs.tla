-------------------------- MODULE LeaderSyncProofs --------------------------
(***************************************************************************)
(* The initial sync empties its queue and keeps the limit of every node,   *)
(* for any number of threads, nodes and namespaces.                        *)
(***************************************************************************)
EXTENDS LeaderSync, FiniteSetTheorems, TLAPS

\* What TryToGetEntry finds is an entry of the queue and a node with room.
LEMMA CandidatesFound ==
    ASSUME NEW t \in Threads, NEW p \in Candidates(t), TypeOK
    PROVE  /\ p[1] \in entries /\ p[2] \in Sources /\ p[2] \in NodesOf[p[1]]
           /\ HasRoom(p[2])
<1>1. Preferred(t) \subseteq Sources
  BY DEF Preferred, TypeOK
<1> QED
  BY <1>1 DEF Candidates, Found

\* When nothing is found, every node of every entry is at its limit.
LEMMA NothingFound ==
    ASSUME NEW t \in Threads, Candidates(t) = {}, NEW e \in entries, NEW n \in NodesOf[e],
           TypeOK
    PROVE  n \in Sources /\ ~HasRoom(n)
<1>1. n \in Sources
  BY EntriesAssumption DEF EntriesAssumption, TypeOK
<1>2. Found(Sources) = {}
  BY DEF Candidates
<1>3. SUFFICES ASSUME HasRoom(n) PROVE FALSE
  BY <1>1
<1>4. <<e, n>> \in Found(Sources)
  BY <1>1, <1>3 DEF Found
<1> QED
  BY <1>2, <1>4

\* The threads that sync from a node are finitely many.
LEMMA SyncsFinite == ASSUME NEW n PROVE IsFiniteSet(SyncsFrom(n))
<1>1. SyncsFrom(n) \subseteq Threads
  BY DEF SyncsFrom
<1> QED
  BY <1>1, ThreadsAssumption, FS_Subset DEF ThreadsAssumption

\* The initial state satisfies the invariant.
LEMMA InitInv == Init => Inv
<1> SUFFICES ASSUME Init PROVE Inv
  OBVIOUS
<1>1. TypeOK
  BY LimitAssumption DEF Init, TypeOK, LimitAssumption
<1>2. ASSUME NEW n \in Sources PROVE Cardinality(SyncsFrom(n)) = 0
  <2>1. SyncsFrom(n) = {}
    BY DEF Init, SyncsFrom
  <2> QED
    BY <2>1, FS_EmptySet
<1>3. LimitIsKept
  BY <1>2, LimitAssumption DEF Init, LimitIsKept, LimitAssumption
<1>4. \E t \in Threads : state[t] # "exit"
  BY ThreadsAssumption DEF Init, ThreadsAssumption
<1>5. Entries \subseteq entries \cup synchronized \cup {entry[t] : t \in Syncing}
  BY DEF Init
<1>6. \A t \in Threads : state[t] # "sync"
  BY DEF Init
<1> QED
  BY <1>1, <1>3, <1>4, <1>5, <1>6 DEF Inv

\* A thread that takes an entry keeps the invariant.
LEMMA GetInv ==
    ASSUME Inv, NEW t \in Threads, TryToGetEntry(t)
    PROVE  Inv'
<1> USE DEF Inv
<1>1. PICK p \in Candidates(t) :
        /\ entries' = entries \ {p[1]}
        /\ currentSyncsPerNode' = [currentSyncsPerNode EXCEPT ![p[2]] = @ + 1]
        /\ entry' = [entry EXCEPT ![t] = p[1]]
        /\ node' = [node EXCEPT ![t] = p[2]]
        /\ preferredNodeId' = [preferredNodeId EXCEPT ![t] = p[2]]
  BY DEF TryToGetEntry, SyncBegins
<1> DEFINE e == p[1]
<1> DEFINE m == p[2]
<1>2. e \in entries /\ e \in Entries /\ m \in Sources /\ HasRoom(m)
  BY <1>1, CandidatesFound DEF TypeOK
<1>3. state[t] = "get" /\ state' = [state EXCEPT ![t] = "sync"]
      /\ failed' = failed /\ synchronized' = synchronized
  BY DEF TryToGetEntry
<1>4. currentSyncsPerNode[m] + 1 \in 0..MaxSyncsPerNode
  BY <1>2, LimitAssumption DEF HasRoom, TypeOK, LimitAssumption
<1> HIDE DEF e, m
<1>5. TypeOK'
  BY <1>1, <1>2, <1>3, <1>4 DEF TypeOK, e, m
<1>6. ASSUME NEW n \in Sources
      PROVE  /\ currentSyncsPerNode'[n] = Cardinality(SyncsFrom(n)')
             /\ currentSyncsPerNode'[n] <= MaxSyncsPerNode
  <2>1. CASE n = m
    <3>1. SyncsFrom(n)' = SyncsFrom(n) \cup {t} /\ t \notin SyncsFrom(n)
      BY <1>1, <1>3, <2>1 DEF SyncsFrom, TypeOK, m
    <3>2. Cardinality(SyncsFrom(n) \cup {t}) = Cardinality(SyncsFrom(n)) + 1
      BY <3>1, SyncsFinite, FS_AddElement
    <3>3. currentSyncsPerNode'[n] = currentSyncsPerNode[n] + 1
      BY <1>1, <2>1 DEF TypeOK, m
    <3> QED
      BY <3>1, <3>2, <3>3, <1>4, <2>1 DEF LimitIsKept
  <2>2. CASE n # m
    <3>1. SyncsFrom(n)' = SyncsFrom(n)
      BY <1>1, <1>3, <2>2 DEF SyncsFrom, TypeOK, m
    <3>2. currentSyncsPerNode'[n] = currentSyncsPerNode[n]
      BY <1>1, <2>2 DEF TypeOK, m
    <3> QED
      BY <3>1, <3>2 DEF LimitIsKept
  <2> QED
    BY <2>1, <2>2
<1>7. LimitIsKept'
  BY <1>6 DEF LimitIsKept
<1>8. \E s \in Threads : state'[s] # "exit"
  BY <1>3 DEF TypeOK
<1>9. \A s \in Threads : state'[s] = "sync" => node'[s] \in Sources /\ entry'[s] \in Entries
  BY <1>1, <1>2, <1>3 DEF TypeOK, e, m
<1>10. ASSUME \A s \in Threads : ~failed'[s]
       PROVE  Entries \subseteq entries' \cup synchronized' \cup {entry'[s] : s \in Syncing'}
  <2>1. ASSUME NEW x \in Entries
        PROVE  x \in entries' \/ x \in synchronized' \/ \E s \in Syncing' : entry'[s] = x
    <3>1. x \in entries \/ x \in synchronized \/ \E s \in Syncing : entry[s] = x
      BY <1>10, <1>3
    <3>2. CASE x = e
      <4>1. t \in Syncing' /\ entry'[t] = e
        BY <1>1, <1>3 DEF Syncing, TypeOK, e
      <4> QED
        BY <3>2, <4>1
    <3>3. CASE x \in entries /\ x # e
      BY <3>3, <1>1 DEF e
    <3>4. CASE x \in synchronized
      BY <3>4, <1>3
    <3>5. CASE \E s \in Syncing : entry[s] = x
      <4>1. PICK s \in Syncing : entry[s] = x
        BY <3>5
      <4>2. s # t /\ s \in Syncing' /\ entry'[s] = x
        BY <4>1, <1>1, <1>3 DEF Syncing, TypeOK
      <4> QED
        BY <4>2
    <3> QED
      BY <3>1, <3>2, <3>3, <3>4, <3>5
  <2> QED
    BY <2>1
<1> QED
  BY <1>5, <1>7, <1>8, <1>9, <1>10

\* A thread that ends leaves another one running if there are entries: a node
\* of an entry is at its limit, so a thread syncs from it.
LEMMA ExitInv ==
    ASSUME Inv, NEW t \in Threads, Exit(t)
    PROVE  Inv'
<1> USE DEF Inv
<1>1. /\ state[t] = "get" /\ state' = [state EXCEPT ![t] = "exit"]
      /\ UNCHANGED <<entries, currentSyncsPerNode, entry, node, preferredNodeId, failed,
                     synchronized>>
  BY DEF Exit
<1>2. TypeOK'
  BY <1>1 DEF TypeOK
<1>3. Syncing' = Syncing /\ \A n \in Sources : SyncsFrom(n)' = SyncsFrom(n)
  BY <1>1 DEF Syncing, SyncsFrom, TypeOK
<1>4. LimitIsKept'
  BY <1>1, <1>3 DEF LimitIsKept
<1>5. ASSUME entries' # {} PROVE \E s \in Threads : state'[s] # "exit"
  <2>1. PICK e \in entries : TRUE
    BY <1>5, <1>1
  <2>2. PICK n \in NodesOf[e] : TRUE
    BY <2>1, EntriesAssumption DEF EntriesAssumption, TypeOK
  <2>3. n \in Sources /\ ~HasRoom(n)
    BY <2>1, <2>2, NothingFound DEF Exit
  <2>4. currentSyncsPerNode[n] # 0
    BY <2>3, LimitAssumption DEF HasRoom, LimitAssumption, TypeOK
  <2>5. SyncsFrom(n) # {}
    BY <2>3, <2>4, FS_EmptySet DEF LimitIsKept
  <2>6. PICK s \in SyncsFrom(n) : TRUE
    BY <2>5
  <2>7. s \in Threads /\ state[s] = "sync"
    BY <2>6 DEF SyncsFrom
  <2>8. s # t
    BY <2>7, <1>1
  <2>9. state'[s] = "sync"
    BY <1>1, <2>7, <2>8 DEF TypeOK
  <2> QED
    BY <2>7, <2>9
<1>6. \A s \in Threads : state'[s] = "sync" => node'[s] \in Sources /\ entry'[s] \in Entries
  BY <1>1 DEF TypeOK
<1>7. (\A s \in Threads : ~failed'[s]) =>
         Entries \subseteq entries' \cup synchronized' \cup {entry'[s] : s \in Syncing'}
  BY <1>1, <1>3
<1> QED
  BY <1>2, <1>4, <1>5, <1>6, <1>7

\* The end of a sync keeps the invariant.
LEMMA DoneInv ==
    ASSUME Inv, NEW t \in Threads, SyncDone(t)
    PROVE  Inv'
<1> USE DEF Inv
<1> DEFINE m == node[t]
<1>1. /\ state[t] = "sync" /\ state' = [state EXCEPT ![t] = "get"]
      /\ currentSyncsPerNode' = [currentSyncsPerNode EXCEPT ![m] = @ - 1]
      /\ entry' = [entry EXCEPT ![t] = None] /\ node' = [node EXCEPT ![t] = None]
      /\ entries' = entries /\ preferredNodeId' = preferredNodeId
  BY DEF SyncDone
<1>2. \/ synchronized' = synchronized \cup {entry[t]} /\ failed' = failed
      \/ failed' = [failed EXCEPT ![t] = TRUE] /\ synchronized' = synchronized
  BY DEF SyncDone, SetLastError
<1>3. m \in Sources /\ entry[t] \in Entries
  BY <1>1
<1> HIDE DEF m
<1>4. t \in SyncsFrom(m)
  BY <1>1 DEF SyncsFrom, m
<1>5. Cardinality(SyncsFrom(m)) \in Nat /\ Cardinality(SyncsFrom(m)) # 0
  BY <1>4, SyncsFinite, FS_CardinalityType, FS_EmptySet
<1>6. currentSyncsPerNode[m] - 1 \in 0..MaxSyncsPerNode
  BY <1>3, <1>5, LimitAssumption DEF LimitIsKept, TypeOK, LimitAssumption
<1>7. TypeOK'
  <2>1. failed' \in [Threads -> BOOLEAN] /\ synchronized' \subseteq Entries
    BY <1>2, <1>3 DEF TypeOK
  <2> QED
    BY <1>1, <1>3, <1>6, <2>1 DEF TypeOK
<1>8. ASSUME NEW n \in Sources
      PROVE  /\ currentSyncsPerNode'[n] = Cardinality(SyncsFrom(n)')
             /\ currentSyncsPerNode'[n] <= MaxSyncsPerNode
  <2>1. CASE n = m
    <3>1. SyncsFrom(n)' = SyncsFrom(n) \ {t}
      BY <1>1, <2>1 DEF SyncsFrom, TypeOK
    <3>2. Cardinality(SyncsFrom(n) \ {t}) = Cardinality(SyncsFrom(n)) - 1
      BY <1>4, <2>1, SyncsFinite, FS_RemoveElement
    <3>3. currentSyncsPerNode'[n] = currentSyncsPerNode[n] - 1
      BY <1>1, <2>1 DEF TypeOK
    <3> QED
      BY <3>1, <3>2, <3>3, <1>6, <2>1 DEF LimitIsKept
  <2>2. CASE n # m
    <3>1. SyncsFrom(n)' = SyncsFrom(n)
      BY <1>1, <2>2, NoneAssumption DEF SyncsFrom, TypeOK, m, NoneAssumption
    <3>2. currentSyncsPerNode'[n] = currentSyncsPerNode[n]
      BY <1>1, <2>2 DEF TypeOK
    <3> QED
      BY <3>1, <3>2 DEF LimitIsKept
  <2> QED
    BY <2>1, <2>2
<1>9. LimitIsKept'
  BY <1>8 DEF LimitIsKept
<1>10. \E s \in Threads : state'[s] # "exit"
  BY <1>1 DEF TypeOK
<1>11. \A s \in Threads : state'[s] = "sync" => node'[s] \in Sources /\ entry'[s] \in Entries
  BY <1>1 DEF TypeOK
<1>12. ASSUME \A s \in Threads : ~failed'[s]
       PROVE  Entries \subseteq entries' \cup synchronized' \cup {entry'[s] : s \in Syncing'}
  <2>1. synchronized' = synchronized \cup {entry[t]} /\ failed' = failed
    BY <1>2, <1>12 DEF TypeOK
  <2>2. ASSUME NEW x \in Entries
        PROVE  x \in entries' \/ x \in synchronized' \/ \E s \in Syncing' : entry'[s] = x
    <3>1. x \in entries \/ x \in synchronized \/ \E s \in Syncing : entry[s] = x
      BY <1>12, <2>1
    <3>2. CASE x \in entries \/ x \in synchronized \/ x = entry[t]
      BY <3>2, <1>1, <2>1
    <3>3. CASE x # entry[t] /\ \E s \in Syncing : entry[s] = x
      <4>1. PICK s \in Syncing : entry[s] = x
        BY <3>3
      <4>2. s # t /\ s \in Syncing' /\ entry'[s] = x
        BY <4>1, <3>3, <1>1 DEF Syncing, TypeOK
      <4> QED
        BY <4>2
    <3> QED
      BY <3>1, <3>2, <3>3
  <2> QED
    BY <2>2
<1> QED
  BY <1>7, <1>9, <1>10, <1>11, <1>12

\* Every reachable state of the initial sync satisfies its invariant.
THEOREM SyncInvariant == Spec => []Inv
<1>1. Inv /\ [Next]_vars => Inv'
  <2> SUFFICES ASSUME Inv, [Next]_vars PROVE Inv'
    OBVIOUS
  <2>1. ASSUME NEW t \in Threads, TryToGetEntry(t) PROVE Inv'
    BY <2>1, GetInv
  <2>2. ASSUME NEW t \in Threads, Exit(t) PROVE Inv'
    BY <2>2, ExitInv
  <2>3. ASSUME NEW t \in Threads, SyncDone(t) PROVE Inv'
    BY <2>3, DoneInv
  <2>4. CASE UNCHANGED vars
    BY <2>4 DEF vars, Inv, TypeOK, LimitIsKept, SyncsFrom, Syncing
  <2> QED
    BY <2>1, <2>2, <2>3, <2>4 DEF Next
<1> QED
  BY <1>1, InitInv, PTL DEF Spec

\* Type correctness, in particular the counters of concurrent snapshots, which
\* the threads raise and lower, stay between zero and the limit.
THEOREM TypeCorrect == Spec => []TypeOK
<1>1. Inv => TypeOK
  BY DEF Inv
<1> QED
  BY <1>1, SyncInvariant, PTL

\* The limit of concurrent snapshots per node is kept.
THEOREM LimitKept == Spec => []LimitIsKept
<1>1. Inv => LimitIsKept
  BY DEF Inv
<1> QED
  BY <1>1, SyncInvariant, PTL

\* The assertion of LeaderSyncer::Sync holds: the joined threads leave no entry.
THEOREM QueueEmptied == Spec => []QueueIsEmptied
<1>1. Inv => QueueIsEmptied
  BY DEF Inv, QueueIsEmptied
<1> QED
  BY <1>1, SyncInvariant, PTL

\* A sync in which no thread failed has synchronized every namespace.
THEOREM AllAreSynchronized == Spec => []AllSynchronized
<1>1. Inv => AllSynchronized
  <2> SUFFICES ASSUME Inv, \A t \in Threads : state[t] = "exit" /\ ~failed[t]
               PROVE  synchronized = Entries
    BY DEF AllSynchronized
  <2>1. entries = {} /\ Syncing = {}
    BY DEF Inv, Syncing
  <2> QED
    BY <2>1 DEF Inv, TypeOK
<1> QED
  BY <1>1, SyncInvariant, PTL
=============================================================================
