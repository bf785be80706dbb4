------------------------- MODULE UpdateTasks_proofs -------------------------
(***************************************************************************)
(* Proofs about UpdateTasks, for any segments, restarts and bounds.  Chains*)
(* are counted like tokens: Run and a crash of a working handler move one, *)
(* queueing again moves it back, and only a purge or a refused Add takes   *)
(* one away.                                                               *)
(***************************************************************************)
EXTENDS UpdateTasks, FiniteSetTheorems, TLAPS

\* Type correctness: the counters of tasks and handlers never become negative.
THEOREM TypeCorrect == Spec => []TypeOK
<1> USE UpdateTasksAssumption
<1>1. Init => TypeOK
  BY DEF Init, TypeOK, none
<1>2. TypeOK /\ [Next]_vars => TypeOK'
  <2> SUFFICES ASSUME TypeOK, [Next]_vars PROVE TypeOK'
    OBVIOUS
  <2>1. ASSUME NEW s \in Segment, Run(s) PROVE TypeOK'
    BY <2>1 DEF TypeOK, Run
  <2>2. ASSUME NEW s \in Segment, WorkDone(s) PROVE TypeOK'
    BY <2>2 DEF TypeOK, WorkDone, Requeue
  <2>3. ASSUME NEW s \in Segment, OrphanDone(s) PROVE TypeOK'
    BY <2>3 DEF TypeOK, OrphanDone, Requeue
  <2>4. ASSUME NEW s \in Segment, Answer(s) PROVE TypeOK'
    BY <2>4 DEF TypeOK, Answer
  <2>5. ASSUME NEW s \in Segment, Crash(s) PROVE TypeOK'
    BY <2>5 DEF TypeOK, Crash
  <2>6. ASSUME NEW r \in Restart, CallPurge(r) PROVE TypeOK'
    BY <2>6 DEF TypeOK, CallPurge
  <2>7. ASSUME NEW r \in Restart, Purge(r) PROVE TypeOK'
    BY <2>7 DEF TypeOK, Purge, EmptyQueue, none
  <2>8. ASSUME NEW r \in Restart, AddMulti(r) PROVE TypeOK'
    BY <2>8 DEF TypeOK, AddMulti
  <2>9. ASSUME NEW r \in Restart, Oversleep(r) PROVE TypeOK'
    BY <2>9 DEF TypeOK, Oversleep
  <2>10. ASSUME NEW r \in Restart, LatePurge(r) PROVE TypeOK'
    BY <2>10 DEF TypeOK, LatePurge, EmptyQueue, none
  <2>11. ASSUME NEW r \in Restart, RestartDies(r) PROVE TypeOK'
    BY <2>11 DEF TypeOK, RestartDies
  <2>12. CASE UNCHANGED vars
    BY <2>12 DEF TypeOK, vars
  <2>13. QED
    BY <2>1, <2>2, <2>3, <2>4, <2>5, <2>6, <2>7, <2>8, <2>9, <2>10, <2>11, <2>12 DEF Next
<1>3. QED
  BY <1>1, <1>2, PTL DEF Spec

\* What each kind of step does to the chains of a segment.
LEMMA ChainSteps ==
  ASSUME TypeOK, Next, NEW t \in Segment
  PROVE  \/ \E r \in Restart : Purge(r) \/ Oversleep(r)
         \/ \E r \in Restart : LatePurge(r)
         \/ \E r \in Restart : AddMulti(r)
         \/ refused' > refused
         \/ Chains(t)' >= Chains(t) /\ UNCHANGED <<refused, starts>>
<1> USE UpdateTasksAssumption DEF Chains
<1>1. ASSUME NEW s \in Segment, Run(s)
      PROVE  Chains(t)' = Chains(t) /\ UNCHANGED <<refused, starts>>
  BY <1>1 DEF TypeOK, Run
<1>2. ASSUME NEW s \in Segment, WorkDone(s)
      PROVE  \/ refused' > refused
             \/ Chains(t)' = Chains(t) /\ UNCHANGED <<refused, starts>>
  BY <1>2 DEF TypeOK, WorkDone, Requeue
<1>3. ASSUME NEW s \in Segment, OrphanDone(s)
      PROVE  \/ refused' > refused
             \/ Chains(t)' >= Chains(t) /\ UNCHANGED <<refused, starts>>
  BY <1>3 DEF TypeOK, OrphanDone, Requeue
<1>4. ASSUME NEW s \in Segment, Answer(s)
      PROVE  Chains(t)' = Chains(t) /\ UNCHANGED <<refused, starts>>
  BY <1>4 DEF TypeOK, Answer
<1>5. ASSUME NEW s \in Segment, Crash(s)
      PROVE  Chains(t)' >= Chains(t) /\ UNCHANGED <<refused, starts>>
  BY <1>5 DEF TypeOK, Crash
<1>6. ASSUME NEW r \in Restart, CallPurge(r) \/ RestartDies(r)
      PROVE  Chains(t)' = Chains(t) /\ UNCHANGED <<refused, starts>>
  BY <1>6 DEF CallPurge, RestartDies
<1>7. Chains(t) \in Nat
  BY DEF TypeOK
<1> HIDE DEF Chains
<1>8. QED
  BY <1>1, <1>2, <1>3, <1>4, <1>5, <1>6, <1>7 DEF Next

\* The counters are natural numbers also for the sums below.
LEMMA ChainsType == TypeOK => \A s \in Segment : Chains(s) \in Nat
  BY DEF TypeOK, Chains

\* Once a restart has queued its tasks, no segment runs out of updates until the queue
\* is emptied or an Add is refused, however many handlers and restarts die.
THEOREM ChainAliveHolds == Spec => []ChainAlive
<1> USE UpdateTasksAssumption
<1>1. Init => ChainAlive
  BY DEF Init, ChainAlive
<1>2. TypeOK /\ TypeOK' /\ ChainAlive /\ [Next]_vars => ChainAlive'
  <2> SUFFICES ASSUME TypeOK, TypeOK', ChainAlive, [Next]_vars, starts' > 0, refused' = 0,
                      NEW t \in Segment
               PROVE  Chains(t)' >= 1
    BY DEF ChainAlive
  <2>1. CASE UNCHANGED vars
    BY <2>1 DEF vars, ChainAlive, Chains
  <2>2. ASSUME NEW r \in Restart, Purge(r) \/ Oversleep(r) PROVE Chains(t)' >= 1
    BY <2>2 DEF Purge, Oversleep, EmptyQueue, ChainAlive, Chains
  <2>7. ASSUME NEW r \in Restart, LatePurge(r) PROVE FALSE
    BY <2>7 DEF LatePurge, EmptyQueue
  <2>3. ASSUME NEW r \in Restart, AddMulti(r) PROVE Chains(t)' >= 1
    BY <2>3 DEF AddMulti, TypeOK, Chains
  <2>4. CASE refused' > refused
    BY <2>4 DEF TypeOK
  <2>5. CASE Chains(t)' >= Chains(t) /\ UNCHANGED <<refused, starts>>
    <3>1. Chains(t) >= 1
      BY <2>5 DEF ChainAlive
    <3>2. Chains(t) \in Nat /\ Chains(t)' \in Nat
      BY DEF TypeOK, Chains
    <3>3. QED
      BY <2>5, <3>1, <3>2
  <2>6. QED
    BY <2>1, <2>2, <2>3, <2>4, <2>5, <2>7, ChainSteps
<1>3. QED
  BY <1>1, <1>2, TypeCorrect, PTL DEF Spec

\* Chains that crashes or restarts have doubled are never merged: only a purge or a
\* refused Add ends one.
THEOREM ChainsNeverMergeHolds == Spec => ChainsNeverMerge
<1> USE UpdateTasksAssumption
<1>1. ASSUME TypeOK, TypeOK', [Next]_vars, NEW s \in Segment, refused' = refused, ~Purging
      PROVE  Chains(s)' >= Chains(s)
  <2>1. CASE UNCHANGED vars
    <3>1. Chains(s)' = Chains(s) /\ Chains(s) \in Nat
      BY <1>1, <2>1, ChainsType DEF vars, Chains
    <3>2. QED
      BY <3>1
  <2>2. ASSUME NEW r \in Restart, Purge(r) \/ Oversleep(r) PROVE FALSE
    BY <1>1, <2>2 DEF Purge, Oversleep, Purging, TypeOK
  <2>6. ASSUME NEW r \in Restart, LatePurge(r) PROVE FALSE
    BY <1>1, <2>6 DEF LatePurge, Purging
  <2>3. ASSUME NEW r \in Restart, AddMulti(r) PROVE Chains(s)' >= Chains(s)
    BY <1>1, <2>3 DEF AddMulti, TypeOK, Chains
  <2>4. CASE refused' > refused
    BY <1>1, <2>4 DEF TypeOK
  <2>5. QED
    BY <1>1, <2>1, <2>2, <2>3, <2>4, <2>6, ChainSteps
<1>2. TypeOK /\ TypeOK' /\ [Next]_vars =>
        [\A s \in Segment : refused' = refused /\ ~Purging => Chains(s)' >= Chains(s)]_vars
  BY <1>1
<1>3. QED
  BY <1>2, TypeCorrect, PTL DEF Spec, ChainsNeverMerge

\* A segment has at most one chain for each finished restart and each crash.
THEOREM ChainsAreExplainedHolds == Spec => []ChainsAreExplained
<1> USE UpdateTasksAssumption
<1>1. Init => ChainsAreExplained
  <2>1. ASSUME Init PROVE Restarted = {}
    BY <2>1 DEF Init, Restarted
  <2>2. ASSUME Init, NEW s \in Segment PROVE Chains(s) + orphans[s] <= Cardinality(Restarted) + crashes
    <3>1. Cardinality(Restarted) = 0
      BY <2>1, <2>2, FS_EmptySet
    <3>2. Chains(s) = 0 /\ orphans[s] = 0 /\ crashes = 0
      BY <2>2 DEF Init, Chains, none
    <3>3. QED
      BY <3>1, <3>2
  <2>3. QED
    BY <2>2 DEF ChainsAreExplained
<1>2. TypeOK /\ ChainsAreExplained /\ [Next]_vars => ChainsAreExplained'
  <2> SUFFICES ASSUME TypeOK, ChainsAreExplained, [Next]_vars, NEW t \in Segment
               PROVE  (Chains(t) + orphans[t] <= Cardinality(Restarted) + crashes)'
    BY DEF ChainsAreExplained
  <2> DEFINE n == Cardinality(Restarted)
             total == queued[t] + working[t] + orphans[t]
  <2>1. n \in Nat /\ IsFiniteSet(Restarted)
    BY FS_Subset, FS_CardinalityType DEF Restarted
  <2>2. total <= n + crashes
    BY DEF ChainsAreExplained, Chains
  <2>3. /\ queued[t] \in Nat /\ working[t] \in Nat /\ orphans[t] \in Nat /\ crashes \in Nat
        /\ total \in Nat
    BY DEF TypeOK
  <2>4. SUFFICES total' <= n' + crashes'
    BY DEF Chains
  <2>5. ASSUME restart' = restart, total' \in Nat,
               \/ total' <= total /\ crashes' = crashes
               \/ total' <= total + 1 /\ crashes' = crashes + 1
        PROVE  total' <= n' + crashes'
    <3>1. n' = n
      BY <2>5 DEF Restarted
    <3> HIDE DEF n, total
    <3>2. CASE total' <= total /\ crashes' = crashes
      BY <2>1, <2>2, <2>3, <2>5, <3>1, <3>2
    <3>3. CASE total' <= total + 1 /\ crashes' = crashes + 1
      BY <2>1, <2>2, <2>3, <2>5, <3>1, <3>3
    <3>4. QED
      BY <2>5, <3>2, <3>3
  <2>6. ASSUME NEW s \in Segment, Run(s) PROVE total' <= n' + crashes'
    <3>1. restart' = restart /\ crashes' = crashes /\ total' = total
      BY <2>3, <2>6 DEF TypeOK, Run
    <3>2. QED
      BY <2>3, <2>5, <3>1
  <2>7. ASSUME NEW s \in Segment, WorkDone(s) PROVE total' <= n' + crashes'
    <3>1. restart' = restart /\ crashes' = crashes /\ total' \in Nat /\ total' <= total
      BY <2>3, <2>7 DEF TypeOK, WorkDone, Requeue
    <3>2. QED
      BY <2>3, <2>5, <3>1
  <2>8. ASSUME NEW s \in Segment, OrphanDone(s) PROVE total' <= n' + crashes'
    <3>1. restart' = restart /\ crashes' = crashes /\ total' \in Nat /\ total' <= total
      BY <2>3, <2>8 DEF TypeOK, OrphanDone, Requeue
    <3>2. QED
      BY <2>3, <2>5, <3>1
  <2>9. ASSUME NEW s \in Segment, Answer(s) PROVE total' <= n' + crashes'
    <3>1. restart' = restart /\ crashes' = crashes /\ total' = total
      BY <2>3, <2>9 DEF Answer
    <3>2. QED
      BY <2>3, <2>5, <3>1
  <2>10. ASSUME NEW s \in Segment, Crash(s) PROVE total' <= n' + crashes'
    <3>1. /\ restart' = restart /\ crashes' = crashes + 1 /\ total' \in Nat
          /\ total' <= total + 1
      BY <2>3, <2>10 DEF TypeOK, Crash
    <3>2. QED
      BY <2>3, <2>5, <3>1
  <2>11. ASSUME NEW r \in Restart,
                CallPurge(r) \/ Purge(r) \/ Oversleep(r) \/ LatePurge(r) \/ RestartDies(r)
         PROVE  total' <= n' + crashes'
    <3>1. Restarted' = Restarted /\ crashes' = crashes
      BY <2>11 DEF CallPurge, Purge, Oversleep, LatePurge, RestartDies, Restarted, TypeOK
    <3>2. total' \in Nat /\ total' <= total
      BY <2>3, <2>11 DEF CallPurge, Purge, Oversleep, LatePurge, RestartDies, EmptyQueue, TypeOK, none
    <3>3. n' = n
      BY <3>1
    <3> HIDE DEF n, total
    <3>4. QED
      BY <2>1, <2>2, <2>3, <3>1, <3>2, <3>3
  <2>12. ASSUME NEW r \in Restart, AddMulti(r) PROVE total' <= n' + crashes'
    <3>1. Restarted' = Restarted \cup {r} /\ r \notin Restarted /\ crashes' = crashes
      BY <2>12 DEF AddMulti, Restarted, TypeOK
    <3>2. total' \in Nat /\ total' <= total + 1
      BY <2>3, <2>12 DEF AddMulti, TypeOK
    <3>3. n' = n + 1
      BY <2>1, <3>1, FS_AddElement
    <3> HIDE DEF n, total
    <3>4. QED
      BY <2>1, <2>2, <2>3, <3>1, <3>2, <3>3
  <2>13. CASE UNCHANGED vars
    <3>1. restart' = restart /\ crashes' = crashes /\ total' = total
      BY <2>13 DEF vars
    <3>2. QED
      BY <2>3, <2>5, <3>1
  <2>14. QED
    BY <2>6, <2>7, <2>8, <2>9, <2>10, <2>11, <2>12, <2>13 DEF Next
<1>3. QED
  BY <1>1, <1>2, TypeCorrect, PTL DEF Spec
=============================================================================
