------------------------ MODULE RequestManager_proofs ------------------------
(***************************************************************************)
(* Proofs about RequestManager, for every set of loadables, of keys and of *)
(* priorities.  What concerns the point budget is proved for loadables     *)
(* that are not alreadyInflight, which is how every Loadable of the app is *)
(* created: an alreadyInflight one is started outside the budget.  Then    *)
(* proofs about its clients (Browsing), for every sequence of articles and *)
(* of preloads: the composition implements the manager, and what the views *)
(* want is what the manager has pending.                                   *)
(***************************************************************************)
EXTENDS Browsing, FiniteSetTheorems, TLAPS

\* The Float operations return integers numbers of units.
LEMMA FloatType == \A x, y \in Int : FAdd(x, y) \in Int /\ FSub(x, y) \in Int
  BY DEF FAdd, FSub, Round, Ulp, One

\* The points of a loadable are 1 or 0.1.
LEMMA PointsType == \A l \in Loadable : points(l) \in {One, Tenth} /\ points(l) \in Int
  BY DEF points, One, Tenth

\* Subtracting 0.1 from what n loads leave gives what n + 1 loads leave, and
\* adding it back is exact; after nine loads 0.1 no longer fits.
LEMMA TenthSteps ==
  /\ \A n \in 0..8 : /\ FSub(Left[n + 1], Tenth) = Left[n + 2]
                     /\ FAdd(Left[n + 2], Tenth) = Left[n + 1]
  /\ FSub(Left[10], Tenth) < 0
  /\ FSub(0, Tenth) < 0
  BY DEF FAdd, FSub, Round, Ulp, One, Tenth, Left

\* A load of .all points fits only an untouched budget, and returns it.
LEMMA OneSteps ==
  /\ FSub(Left[1], One) = 0
  /\ \A n \in 1..9 : FSub(Left[n + 1], One) < 0
  /\ FSub(0, One) < 0
  /\ FAdd(0, One) = Left[1]
  /\ Left[1] > 0
  /\ \A n \in 0..9 : Left[n + 1] > 0
  BY DEF FAdd, FSub, Round, Ulp, One, Left
-----------------------------------------------------------------------------
\* Facts about the blocks of the queue that every step below uses.
LEMMA HeadTail ==
  ASSUME TypeOK, queue # <<>>
  PROVE  /\ Head(queue) \in Block /\ Head(queue) = queue[1]
         /\ Tail(queue) \in Seq(Block)
         /\ Len(Tail(queue)) = Len(queue) - 1
         /\ \A i \in DOMAIN Tail(queue) : i + 1 \in DOMAIN queue /\ Tail(queue)[i] = queue[i + 1]
  BY DEF TypeOK

\* Every step keeps the types.
LEMMA TypeStep == TypeOK /\ [Next]_vars => TypeOK'
<1> USE LoadableAssumption
<1> SUFFICES ASSUME TypeOK, [Next]_vars PROVE TypeOK'
  OBVIOUS
<1>1. ASSUME NEW l \in Loadable, Load(l) PROVE TypeOK'
  BY <1>1 DEF TypeOK, Load, Post, managerVars, Block
<1>2. ASSUME NEW l \in Loadable, Cancel(l) PROVE TypeOK'
  BY <1>2 DEF TypeOK, Cancel, Post, managerVars, Block
<1>3. ASSUME NEW l \in Loadable, NEW result \in Result, LoadFinished(l, result) PROVE TypeOK'
  BY <1>3 DEF TypeOK, LoadFinished, Post, managerVars, Block
<1>4. ASSUME NEW k \in Key, Evict(k) PROVE TypeOK'
  BY <1>4 DEF TypeOK, Evict
<1>5. ASSUME NEW l \in Loadable, KickOff(l)
      PROVE  /\ remaining' \in Int /\ running' \subseteq Loadable
             /\ inflight' \in [Key -> Loadable \cup {NoTask}]
  BY <1>5, FloatType, PointsType DEF TypeOK, KickOff
<1>6. ASSUME NEW l \in Loadable, RunLoad(l) PROVE TypeOK'
  <2>1. queue' \in Seq(Block)
    BY <1>6, HeadTail DEF RunLoad, NextBlockIs
  <2>2. /\ remaining' \in Int /\ running' \subseteq Loadable
        /\ inflight' \in [Key -> Loadable \cup {NoTask}]
    BY <1>5, <1>6 DEF RunLoad, TypeOK
  <2>3. pending' \subseteq Loadable /\ toLoad' \subseteq Loadable
    BY <1>6 DEF RunLoad, TypeOK, Unstarted
  <2>4. called' \in [Loadable -> Result \cup {"no"}]
    BY <1>6 DEF RunLoad, TypeOK, CallCompletionIfNeeded, Result
  <2>5. QED
    BY <1>6, <2>1, <2>2, <2>3, <2>4 DEF TypeOK, RunLoad
<1>7. ASSUME NEW l \in Loadable, RunCancel(l) PROVE TypeOK'
  BY <1>7, HeadTail DEF TypeOK, RunCancel, NextBlockIs
<1>8. ASSUME NEW l \in Loadable, RunDone(l) PROVE TypeOK'
  <2>1. queue' \in Seq(Block)
    BY <1>8, HeadTail DEF RunDone, NextBlockIs
  <2>2. Head(queue).result \in Result
    BY <1>8, HeadTail DEF RunDone, NextBlockIs, Block
  <2>3. remaining' \in Int
    BY <1>8, FloatType, PointsType DEF TypeOK, RunDone, PointsReturned
  <2>4. /\ inflight' \in [Key -> Loadable \cup {NoTask}]
        /\ pending' \subseteq Loadable /\ cache' \subseteq Key
    BY <1>8 DEF TypeOK, RunDone, TaskRemoved
  <2>5. called' \in [Loadable -> Result \cup {"no"}]
    BY <1>8, <2>2 DEF TypeOK, RunDone, CallCompletionIfNeeded
  <2>6. toLoad' \subseteq Loadable
    BY <1>8, <2>4 DEF RunDone, Unstarted
  <2>7. QED
    BY <1>8, <2>1, <2>3, <2>4, <2>5, <2>6 DEF TypeOK, RunDone
<1>9. ASSUME NEW l \in Loadable, Schedule(l) PROVE TypeOK'
  <2>1. /\ remaining' \in Int /\ running' \subseteq Loadable
        /\ inflight' \in [Key -> Loadable \cup {NoTask}]
    BY <1>5, <1>9 DEF TypeOK, Schedule
  <2>2. toLoad' \subseteq Loadable
    BY <1>9 DEF TypeOK, Schedule
  <2>3. QED
    BY <1>9, <2>1, <2>2 DEF TypeOK, Schedule
<1>10. CASE UNCHANGED vars
  BY <1>10 DEF TypeOK, vars, managerVars
<1>11. QED
  BY <1>1, <1>2, <1>3, <1>4, <1>6, <1>7, <1>8, <1>9, <1>10 DEF Next

\* Type correctness of every state (the constants of the dictionary, the queue
\* of blocks and the Float budget keep their types).
THEOREM TypeCorrect == Spec => []TypeOK
<1>1. Init => TypeOK
  BY LoadableAssumption DEF Init, TypeOK, Result, One
<1>2. QED
  BY <1>1, TypeStep, PTL DEF Spec
-----------------------------------------------------------------------------
(***************************************************************************)
(* The inductive invariant of the scheduler, first part.  Tasks ties a     *)
(* running closure and a "done" block to the task of _inflight that they   *)
(* belong to, so that the block returns the points which its task took.    *)
(***************************************************************************)
Tied(q, tasks, closures) ==
  /\ \A i \in DOMAIN q : q[i].op = "done" =>
       tasks[key[q[i].l]] = q[i].l /\ q[i].l \notin closures
  /\ \A i, j \in DOMAIN q :
       q[i].op = "done" /\ q[j].op = "done" /\ q[i].l = q[j].l => i = j

Tasks ==
  /\ \A k \in Key : inflight[k] # NoTask => key[inflight[k]] = k
  /\ OneLoadPerKey
  /\ Tied(queue, inflight, running)

\* Removing the first block of the queue keeps the others tied to their tasks.
LEMMA TiedTail ==
  ASSUME TypeOK, queue # <<>>, NEW tasks, NEW closures, Tied(queue, tasks, closures)
  PROVE  Tied(Tail(queue), tasks, closures)
<1>1. \A i \in DOMAIN Tail(queue) : i \in Int /\ i + 1 \in DOMAIN queue /\ Tail(queue)[i] = queue[i + 1]
  BY HeadTail DEF TypeOK
<1>2. \A i \in DOMAIN Tail(queue) : Tail(queue)[i].op = "done" =>
        tasks[key[Tail(queue)[i].l]] = Tail(queue)[i].l /\ Tail(queue)[i].l \notin closures
  BY <1>1 DEF Tied
<1>3. ASSUME NEW i \in DOMAIN Tail(queue), NEW j \in DOMAIN Tail(queue),
             Tail(queue)[i].op = "done", Tail(queue)[j].op = "done", Tail(queue)[i].l = Tail(queue)[j].l
      PROVE  i = j
  <2>1. i + 1 = j + 1
    BY <1>1, <1>3 DEF Tied
  <2>2. QED
    BY <1>1, <2>1
<1>4. QED
  BY <1>2, <1>3 DEF Tied

\* Starting l for an idle key keeps the ties of Tasks, whatever else is queued.
LEMMA KickOffTasks ==
  ASSUME TypeOK, Tasks, NEW l \in Loadable, inflight[key[l]] = NoTask, KickOff(l),
         queue' = queue \/ (queue # <<>> /\ queue' = Tail(queue))
  PROVE  Tasks'
<1> USE LoadableAssumption
<1>1. \A k \in Key : inflight'[k] = IF k = key[l] THEN l ELSE inflight[k]
  BY DEF TypeOK, KickOff
<1>2. \A k \in Key : inflight'[k] # NoTask => key[inflight'[k]] = k
  BY <1>1 DEF Tasks
<1>3. OneLoadPerKey'
  BY <1>1 DEF Tasks, OneLoadPerKey, KickOff, TypeOK
<1>4. \A i \in DOMAIN queue : queue[i] \in Block /\ queue[i].l \in Loadable
  BY DEF TypeOK, Block
<1>5. Tied(queue, inflight', running')
  BY <1>1, <1>4 DEF Tasks, Tied, KickOff
<1>6. CASE queue' = queue
  BY <1>2, <1>3, <1>5, <1>6 DEF Tasks
<1>7. CASE queue # <<>> /\ queue' = Tail(queue)
  <2>1. Tied(queue', inflight', running')
    BY <1>5, <1>7, TiedTail
  <2>2. QED
    BY <1>2, <1>3, <2>1 DEF Tasks
<1>8. QED
  BY <1>6, <1>7

\* Every task in flight is served by at most one closure or "done" block.
LEMMA TasksStep == TypeOK /\ Tasks /\ [Next]_vars => Tasks'
<1> SUFFICES ASSUME TypeOK, Tasks, [Next]_vars PROVE Tasks'
  OBVIOUS
<1> USE LoadableAssumption
<1>0. \A i \in DOMAIN queue : queue[i] \in Block /\ queue[i].l \in Loadable
  BY DEF TypeOK, Block
<1>1. ASSUME NEW l \in Loadable, Load(l) PROVE Tasks'
  BY <1>0, <1>1 DEF TypeOK, Tasks, Tied, OneLoadPerKey, Load, Post, managerVars
<1>2. ASSUME NEW l \in Loadable, Cancel(l) PROVE Tasks'
  BY <1>0, <1>2 DEF TypeOK, Tasks, Tied, OneLoadPerKey, Cancel, Post, managerVars
<1>3. ASSUME NEW l \in Loadable, NEW result \in Result, LoadFinished(l, result) PROVE Tasks'
  BY <1>0, <1>3 DEF TypeOK, Tasks, Tied, OneLoadPerKey, LoadFinished, Post, managerVars
<1>4. ASSUME NEW k \in Key, Evict(k) PROVE Tasks'
  BY <1>4 DEF Tasks, OneLoadPerKey, Evict
<1>5. ASSUME NEW l \in Loadable, RunLoad(l) PROVE Tasks'
  <2>1. CASE UNCHANGED <<inflight, running>>
    BY <1>5, <2>1, TiedTail DEF Tasks, OneLoadPerKey, RunLoad, NextBlockIs
  <2>2. CASE inflight[key[l]] = NoTask /\ KickOff(l)
    BY <1>5, <2>2, KickOffTasks DEF RunLoad, NextBlockIs
  <2>3. QED
    BY <1>5, <2>1, <2>2 DEF RunLoad
<1>6. ASSUME NEW l \in Loadable, RunCancel(l) PROVE Tasks'
  BY <1>6, TiedTail DEF Tasks, OneLoadPerKey, RunCancel, NextBlockIs
<1>7. ASSUME NEW l \in Loadable, RunDone(l) PROVE Tasks'
  <2>1. /\ queue # <<>> /\ queue' = Tail(queue) /\ running' = running
        /\ 1 \in DOMAIN queue /\ queue[1].op = "done" /\ queue[1].l = l
    BY <1>7, HeadTail DEF RunDone, NextBlockIs, TypeOK
  <2>2. inflight[key[l]] = l /\ l \notin running
    BY <2>1 DEF Tasks, Tied
  <2>3. \A k \in Key : inflight'[k] = IF k = key[l] THEN NoTask ELSE inflight[k]
    BY <1>7 DEF RunDone, TaskRemoved, TypeOK
  <2>4. \A k \in Key : inflight'[k] # NoTask => key[inflight'[k]] = k
    BY <2>3 DEF Tasks
  <2>5. OneLoadPerKey'
    BY <2>1, <2>2, <2>3 DEF Tasks, OneLoadPerKey, TypeOK
  <2>6. Tied(Tail(queue), inflight, running)
    BY <2>1, TiedTail DEF Tasks
  <2>7. \A i \in DOMAIN Tail(queue) : Tail(queue)[i].op = "done" =>
          Tail(queue)[i].l \in Loadable /\ Tail(queue)[i].l # l
    BY <1>0, <2>1, HeadTail DEF Tasks, Tied, TypeOK
  <2>8. Tied(Tail(queue), inflight', running)
    BY <2>2, <2>3, <2>6, <2>7 DEF Tied
  <2>9. QED
    BY <2>1, <2>4, <2>5, <2>8 DEF Tasks
<1>8. ASSUME NEW l \in Loadable, Schedule(l) PROVE Tasks'
  <2>1. CASE UNCHANGED <<inflight, running>>
    BY <1>8, <2>1 DEF Tasks, OneLoadPerKey, Schedule
  <2>2. CASE inflight[key[l]] = NoTask /\ KickOff(l)
    BY <1>8, <2>2, KickOffTasks DEF Schedule
  <2>3. QED
    BY <1>8, <2>1, <2>2 DEF Schedule
<1>9. CASE UNCHANGED vars
  BY <1>9 DEF Tasks, OneLoadPerKey, vars, managerVars
<1>10. QED
  BY <1>1, <1>2, <1>3, <1>4, <1>5, <1>6, <1>7, <1>8, <1>9 DEF Next

\* Two requests for one key are never in flight at a time, whatever loadables
\* there are (alreadyInflight ones included) and whenever they are cancelled.
THEOREM OneLoadPerKeyHolds == Spec => []OneLoadPerKey
<1>1. Init => Tasks
  BY DEF Init, Tasks, Tied, OneLoadPerKey
<1>2. Tasks => OneLoadPerKey
  BY DEF Tasks
<1>3. QED
  BY <1>1, <1>2, TypeCorrect, TasksStep, PTL DEF Spec
-----------------------------------------------------------------------------
(***************************************************************************)
(* Second part: the budget, for loadables that wait for their turn.  Either*)
(* one load of .all points is in flight, or at most nine of .normal points.*)
(***************************************************************************)
Budget ==
  \/ /\ \E k \in Key : Busy = {k} /\ inflight[k] \in AllPoints
     /\ remaining = 0
  \/ /\ \A k \in Busy : inflight[k] \notin AllPoints
     /\ Cardinality(Busy) \in 0..9
     /\ remaining = Left[Cardinality(Busy) + 1]

\* The number of keys in flight when one is added or removed.
LEMMA BusyCount ==
  ASSUME NEW k \in Key
  PROVE  /\ IsFiniteSet(Busy) /\ Cardinality(Busy) \in Nat
         /\ Cardinality(Busy) = 0 <=> Busy = {}
         /\ k \notin Busy => Cardinality(Busy \cup {k}) = Cardinality(Busy) + 1
         /\ k \in Busy => Cardinality(Busy \ {k}) = Cardinality(Busy) - 1
<1>1. IsFiniteSet(Busy)
  BY FS_Subset, LoadableAssumption DEF Busy
<1>2. QED
  BY <1>1, FS_CardinalityType, FS_EmptySet, FS_AddElement, FS_RemoveElement

\* _kickOff of a loadable that fits takes its points and keeps the budget.
LEMMA KickOffBudget ==
  ASSUME TypeOK, Budget, NEW l \in Loadable, inflight[key[l]] = NoTask, KickOff(l),
         FSub(remaining, points(l)) >= 0
  PROVE  Budget'
<1> USE LoadableAssumption
<1>1. /\ key[l] \in Key /\ key[l] \notin Busy
      /\ \A k \in Key : inflight'[k] = IF k = key[l] THEN l ELSE inflight[k]
  BY DEF TypeOK, KickOff, Busy
<1>2. Busy' = Busy \cup {key[l]}
  BY <1>1 DEF Busy
<1>3. remaining' = FSub(remaining, points(l))
  BY DEF KickOff
<1> ~(FSub(remaining, points(l)) < 0)
  <2>1. remaining \in Int /\ points(l) \in Int
    BY PointsType DEF TypeOK
  <2>2. FSub(remaining, points(l)) \in Int
    BY <2>1, FloatType
  <2>3. QED
    BY <2>2
<1>4. CASE l \in AllPoints
  <2>1. points(l) = One
    BY <1>4 DEF points
  <2>2. remaining # 0
    BY <2>1, OneSteps
  <2>3. Cardinality(Busy) \in 0..9 /\ remaining = Left[Cardinality(Busy) + 1]
    BY <2>2 DEF Budget
  <2>4. Cardinality(Busy) = 0
    BY <2>1, <2>3, OneSteps
  <2>5. Busy' = {key[l]}
    BY <1>1, <1>2, <2>4, BusyCount
  <2>6. remaining' = 0
    BY <1>3, <2>1, <2>3, <2>4, OneSteps
  <2>7. QED
    BY <1>1, <1>4, <2>5, <2>6 DEF Budget
<1>5. CASE l \notin AllPoints
  <2>1. points(l) = Tenth
    BY <1>5 DEF points
  <2>2. remaining # 0
    BY <2>1, TenthSteps
  <2>3. /\ Cardinality(Busy) \in 0..9 /\ remaining = Left[Cardinality(Busy) + 1]
        /\ \A k \in Busy : inflight[k] \notin AllPoints
    BY <2>2 DEF Budget
  <2>4. Cardinality(Busy) \in 0..8
    BY <2>1, <2>3, TenthSteps
  <2>5. Cardinality(Busy') = Cardinality(Busy) + 1
    BY <1>1, <1>2, BusyCount
  <2>6. remaining' = Left[Cardinality(Busy') + 1]
    BY <1>3, <2>1, <2>3, <2>4, <2>5, TenthSteps
  <2>7. \A k \in Busy' : inflight'[k] \notin AllPoints
    BY <1>1, <1>2, <1>5, <2>3 DEF Busy
  <2>8. Cardinality(Busy') \in 0..9
    BY <2>4, <2>5
  <2>9. QED
    BY <2>6, <2>7, <2>8 DEF Budget
<1>6. QED
  BY <1>4, <1>5

\* The block of a finished load returns exactly what its load took.
LEMMA RunDoneBudget ==
  ASSUME TypeOK, Tasks, Budget, NEW l \in Loadable, RunDone(l)
  PROVE  Budget'
<1> USE LoadableAssumption
<1>1. inflight[key[l]] = l
  <2>1. 1 \in DOMAIN queue /\ queue[1].op = "done" /\ queue[1].l = l
    BY HeadTail DEF RunDone, NextBlockIs, TypeOK
  <2>2. QED
    BY <2>1 DEF Tasks, Tied
<1>2. /\ key[l] \in Key /\ key[l] \in Busy
      /\ \A k \in Key : inflight'[k] = IF k = key[l] THEN NoTask ELSE inflight[k]
  BY <1>1 DEF TypeOK, RunDone, TaskRemoved, Busy
<1>3. Busy' = Busy \ {key[l]}
  BY <1>2 DEF Busy
<1>4. remaining' = FAdd(remaining, points(l))
  BY DEF RunDone, PointsReturned
<1>5. CASE l \in AllPoints
  <2>1. Busy = {key[l]} /\ remaining = 0
    BY <1>1, <1>2, <1>5 DEF Budget
  <2>2. Busy' = {}
    BY <1>3, <2>1
  <2>3. Cardinality(Busy') = 0
    BY <2>2, FS_EmptySet
  <2>4. remaining' = Left[1]
    BY <1>4, <1>5, <2>1, OneSteps DEF points
  <2>5. QED
    BY <2>2, <2>3, <2>4 DEF Budget
<1>6. CASE l \notin AllPoints
  <2>1. /\ \A k \in Busy : inflight[k] \notin AllPoints
        /\ Cardinality(Busy) \in 0..9 /\ remaining = Left[Cardinality(Busy) + 1]
    BY <1>1, <1>2, <1>6 DEF Budget
  <2>2. /\ Cardinality(Busy') = Cardinality(Busy) - 1
        /\ Cardinality(Busy') \in 0..8
    BY <1>2, <1>3, <2>1, BusyCount
  <2>3. remaining = Left[Cardinality(Busy') + 2]
    BY <2>1, <2>2
  <2>4. remaining' = Left[Cardinality(Busy') + 1]
    BY <1>4, <1>6, <2>2, <2>3, TenthSteps DEF points
  <2>5. \A k \in Busy' : inflight'[k] \notin AllPoints
    BY <1>2, <1>3, <2>1 DEF Busy
  <2>6. QED
    BY <2>2, <2>4, <2>5 DEF Budget
<1>7. QED
  BY <1>5, <1>6

\* Only the loop and the block of a finished load touch the budget.
LEMMA BudgetStep ==
  ASSUME AlreadyInflight = {}
  PROVE  TypeOK /\ Tasks /\ Budget /\ [Next]_vars => Budget'
<1> SUFFICES ASSUME TypeOK, Tasks, Budget, [Next]_vars PROVE Budget'
  OBVIOUS
<1>1. CASE UNCHANGED <<inflight, remaining>>
  BY <1>1 DEF Budget, Busy
<1>2. ASSUME NEW l \in Loadable, RunDone(l) PROVE Budget'
  BY <1>2, RunDoneBudget
<1>3. ASSUME NEW l \in Loadable, Schedule(l) PROVE Budget'
  BY <1>1, <1>3, KickOffBudget DEF Schedule
<1>4. ASSUME NEW l \in Loadable, RunLoad(l) PROVE Budget'
  BY <1>1, <1>4 DEF RunLoad
<1>5. QED
  BY <1>1, <1>2, <1>3, <1>4
  DEF Next, Load, Cancel, LoadFinished, Evict, RunCancel, vars, managerVars

\* The budget is determined by what is in flight: it never drifts, at most nine
\* .normal loads run at a time, and a load of .all points runs alone.
THEOREM BudgetHolds ==
  ASSUME AlreadyInflight = {}
  PROVE  Spec => [](PointsBalance /\ AllIsExclusive)
<1>1. Init => Tasks /\ Budget
  <2>1. Init => Tasks
    BY DEF Init, Tasks, Tied, OneLoadPerKey
  <2>2. Init => Busy = {} /\ remaining = Left[1]
    BY DEF Init, Busy, Left, One
  <2>3. QED
    BY <2>1, <2>2, FS_EmptySet DEF Budget
<1>2. Budget => PointsBalance /\ AllIsExclusive
  BY DEF Budget, PointsBalance, AllIsExclusive
<1>3. QED
  BY <1>1, <1>2, TypeCorrect, TasksStep, BudgetStep, PTL DEF Spec
-----------------------------------------------------------------------------
(***************************************************************************)
(* Third part: the loop.  Waiting says that with nothing in flight the loop*)
(* still has every pending loadable to visit; Visiting that while it runs  *)
(* it has still to visit everything that waits for its turn.               *)
(***************************************************************************)
Waiting ==
  /\ toLoad \subseteq pending
  /\ Busy = {} => pending \subseteq toLoad

Visiting ==
  toLoad # {} => \A m \in pending : inflight[key[m]] = NoTask => m \in toLoad

\* With nothing in flight the whole budget is there, and any loadable fits it.
LEMMA IdleBudget ==
  ASSUME Budget, Busy = {}
  PROVE  /\ remaining > 0
         /\ \A l \in Loadable : ~(FSub(remaining, points(l)) < 0)
<1>1. Cardinality(Busy) = 0
  BY FS_EmptySet
<1>2. remaining = Left[1]
  BY <1>1 DEF Budget
<1>3. remaining > 0
  BY <1>2, OneSteps
<1>4. ~(FSub(Left[1], One) < 0)
  BY OneSteps
<1>5. ~(FSub(Left[1], Tenth) < 0)
  <2>1. FSub(Left[1], Tenth) = Left[2]
    BY TenthSteps
  <2>2. Left[2] = 120795952
    BY DEF Left
  <2>3. QED
    BY <2>1, <2>2
<1>6. QED
  BY <1>2, <1>3, <1>4, <1>5, PointsType

\* What the loop visits: with an idle budget, all that is pending.
LEMMA UnstartedAll ==
  ASSUME NEW pend \in SUBSET Loadable, NEW tasks, NEW left,
         left > 0, \A k \in Key : tasks[k] = NoTask
  PROVE  Unstarted(pend, tasks, left) = pend
  BY LoadableAssumption DEF Unstarted

\* cancel() may empty _pending but never strands what is left in it.
LEMMA WaitingStep ==
  ASSUME AlreadyInflight = {}
  PROVE  TypeOK /\ TypeOK' /\ Budget /\ Budget' /\ Waiting /\ [Next]_vars => Waiting'
<1> SUFFICES ASSUME TypeOK, TypeOK', Budget, Budget', Waiting, [Next]_vars PROVE Waiting'
  OBVIOUS
<1> USE LoadableAssumption
<1>1. CASE UNCHANGED <<pending, inflight, toLoad>>
  BY <1>1 DEF Waiting, Busy
<1>2. ASSUME NEW l \in Loadable, RunLoad(l) PROVE Waiting'
  <2>1. CASE /\ pending' = pending \cup {l} /\ UNCHANGED <<inflight, remaining>>
             /\ toLoad' = Unstarted(pending', inflight, remaining)
    <3>1. toLoad' \subseteq pending'
      BY <2>1 DEF Unstarted
    <3>2. ASSUME Busy' = {} PROVE toLoad' = pending'
      <4>1. Busy = {} /\ \A k \in Key : inflight[k] = NoTask
        BY <2>1, <3>2 DEF Busy
      <4>2. remaining > 0
        BY <4>1, IdleBudget
      <4>3. pending' \in SUBSET Loadable
        BY DEF TypeOK
      <4>4. QED
        BY <2>1, <4>1, <4>2, <4>3, UnstartedAll
    <3>3. QED
      BY <3>1, <3>2 DEF Waiting
  <2>2. QED
    BY <1>1, <1>2, <2>1 DEF RunLoad
<1>3. ASSUME NEW l \in Loadable, RunCancel(l) PROVE Waiting'
  BY <1>3 DEF RunCancel, NextBlockIs, Waiting, Busy
<1>4. ASSUME NEW l \in Loadable, RunDone(l) PROVE Waiting'
  <2>1. toLoad' = Unstarted(pending', inflight', remaining')
    BY <1>4 DEF RunDone
  <2>2. toLoad' \subseteq pending'
    BY <2>1 DEF Unstarted
  <2>3. ASSUME Busy' = {} PROVE toLoad' = pending'
    <3>1. \A k \in Key : inflight'[k] = NoTask
      BY <2>3 DEF Busy
    <3>2. remaining' > 0
      <4>1. Cardinality(Busy') = 0
        BY <2>3, FS_EmptySet
      <4>2. remaining' = Left[1]
        BY <2>3, <4>1 DEF Budget
      <4>3. QED
        BY <4>2, OneSteps
    <3>3. pending' \in SUBSET Loadable
      BY DEF TypeOK
    <3>4. QED
      BY <2>1, <3>1, <3>2, <3>3, UnstartedAll
  <2>4. QED
    BY <2>2, <2>3 DEF Waiting
<1>5. ASSUME NEW l \in Loadable, Schedule(l) PROVE Waiting'
  <2>1. pending' = pending /\ toLoad' \subseteq toLoad
    BY <1>5 DEF Schedule
  <2>2. key[l] \in Key
    OBVIOUS
  <2>3. CASE inflight[key[l]] # NoTask /\ UNCHANGED inflight
    BY <2>1, <2>2, <2>3 DEF Waiting, Busy
  <2>4. CASE FSub(remaining, points(l)) < 0 /\ UNCHANGED inflight
    <3>1. Busy # {}
      BY <2>4, IdleBudget
    <3>2. QED
      BY <2>1, <2>4, <3>1 DEF Waiting, Busy
  <2>5. CASE KickOff(l)
    <3>1. inflight'[key[l]] = l
      BY <2>5 DEF KickOff, TypeOK
    <3>2. QED
      BY <2>1, <2>2, <3>1 DEF Waiting, Busy
  <2>6. QED
    BY <1>5, <2>3, <2>4, <2>5 DEF Schedule
<1>6. QED
  BY <1>1, <1>2, <1>3, <1>4, <1>5
  DEF Next, Load, Cancel, LoadFinished, Evict, vars, managerVars

\* No lost wakeup: outside the loop, whatever is pending waits for a load in
\* flight, whose completion runs the loop again.
THEOREM NothingStrandedHolds ==
  ASSUME AlreadyInflight = {}
  PROVE  Spec => []NothingStranded
<1>1. Init => Tasks /\ Budget /\ Waiting
  <2>1. Init => Tasks /\ Waiting
    BY DEF Init, Tasks, Tied, OneLoadPerKey, Waiting
  <2>2. Init => Busy = {} /\ remaining = Left[1]
    BY DEF Init, Busy, Left, One
  <2>3. QED
    BY <2>1, <2>2, FS_EmptySet DEF Budget
<1>2. Waiting => NothingStranded
  BY DEF Waiting, NothingStranded
<1>3. QED
  BY <1>1, <1>2, TypeCorrect, TasksStep, BudgetStep, WaitingStep, PTL DEF Spec

\* While the loop runs no block changes _pending, so nothing it has to visit
\* is missing from toLoad.
LEMMA VisitingStep == TypeOK /\ Visiting /\ [Next]_vars => Visiting'
<1> SUFFICES ASSUME TypeOK, Visiting, [Next]_vars PROVE Visiting'
  OBVIOUS
<1> USE LoadableAssumption
<1>1. CASE UNCHANGED <<pending, inflight, toLoad>>
  BY <1>1 DEF Visiting
<1>2. ASSUME NEW l \in Loadable, RunLoad(l) PROVE Visiting'
  BY <1>2 DEF RunLoad, NextBlockIs, Visiting, Unstarted
<1>3. ASSUME NEW l \in Loadable, RunCancel(l) PROVE Visiting'
  BY <1>3 DEF RunCancel, NextBlockIs, Visiting
<1>4. ASSUME NEW l \in Loadable, RunDone(l) PROVE Visiting'
  BY <1>4 DEF RunDone, Visiting, Unstarted
<1>5. ASSUME NEW l \in Loadable, Schedule(l) PROVE Visiting'
  <2>1. pending' = pending
    BY <1>5 DEF Schedule
  <2>2. CASE inflight[key[l]] # NoTask /\ toLoad' = toLoad \ {l} /\ UNCHANGED inflight
    BY <2>1, <2>2 DEF Visiting
  <2>3. CASE toLoad' = {}
    BY <2>3 DEF Visiting
  <2>4. CASE inflight[key[l]] = NoTask /\ KickOff(l) /\ toLoad' = toLoad \ {l}
    <3>1. \A k \in Key : inflight'[k] = IF k = key[l] THEN l ELSE inflight[k]
      BY <2>4 DEF KickOff, TypeOK
    <3>2. QED
      BY <1>5, <2>1, <2>4, <3>1 DEF Visiting, TypeOK, Schedule
  <2>5. QED
    BY <1>5, <2>2, <2>3, <2>4 DEF Schedule
<1>6. QED
  BY <1>1, <1>2, <1>3, <1>4, <1>5
  DEF Next, Load, Cancel, LoadFinished, Evict, vars, managerVars

\* The loop starts nothing while a loadable of higher priority waits: a cheap
\* load never overtakes an expensive one that does not fit the budget.
THEOREM HighestPriorityFirstHolds == Spec => HighestPriorityFirst
<1> USE LoadableAssumption
<1>1. Init => Visiting
  BY DEF Init, Visiting
<1>2. ASSUME TypeOK, Visiting, [Next]_vars,
             NEW l \in running' \ running, NEW m \in pending',
             l \notin AlreadyInflight, inflight'[key[m]] = NoTask
      PROVE  priority[l] >= priority[m]
  <2>1. Schedule(l)
    <3>1. running' # running
      BY <1>2
    <3>2. ASSUME NEW k \in Loadable, RunLoad(k) PROVE FALSE
      BY <1>2, <3>2 DEF RunLoad, KickOff
    <3>3. ASSUME NEW k \in Loadable, Schedule(k) PROVE k = l
      BY <1>2, <3>3 DEF Schedule, KickOff
    <3>4. ASSUME NEW k \in Loadable, NEW result \in Result, LoadFinished(k, result) PROVE FALSE
      BY <1>2, <3>4 DEF LoadFinished
    <3>5. QED
      BY <1>2, <3>1, <3>2, <3>3, <3>4
      DEF Next, Load, Cancel, Evict, RunCancel, RunDone, vars, managerVars
  <2>2. l \in toLoad /\ l \in Loadable /\ pending' = pending
    BY <1>2, <2>1 DEF Schedule, TypeOK
  <2>3. m \in Loadable /\ key[m] \in Key /\ key[l] \in Key
    BY <1>2, <2>2 DEF TypeOK
  <2>4. inflight[key[m]] = NoTask
    BY <1>2, <2>1, <2>2, <2>3 DEF Schedule, KickOff, TypeOK
  <2>5. m \in toLoad
    BY <1>2, <2>2, <2>4 DEF Visiting
  <2>6. QED
    BY <2>1, <2>5 DEF Schedule, FirstInOrder
<1>3. TypeOK /\ Visiting /\ [Next]_vars =>
        [\A l \in running' \ running, m \in pending' :
           l \notin AlreadyInflight /\ inflight'[key[m]] = NoTask => priority[l] >= priority[m]]_vars
  BY <1>2
<1>4. QED
  BY <1>1, <1>3, TypeCorrect, VisitingStep, PTL DEF Spec, HighestPriorityFirst
-----------------------------------------------------------------------------
(***************************************************************************)
(* Cancelling.  Quiet(q, pend, l): once the blocks of q have run on top of *)
(* pend, l is not pending, because its last block cancels it or because it *)
(* is not pending already and no block of q loads it.                      *)
(***************************************************************************)
IsLoad(block, l) == block.op = "load" /\ block.l = l

Quiet(q, pend, l) ==
  \/ \E i \in DOMAIN q : /\ q[i].op = "cancel" /\ q[i].l = l
                         /\ \A j \in DOMAIN q : IsLoad(q[j], l) => j < i
  \/ l \notin pend /\ \A j \in DOMAIN q : ~IsLoad(q[j], l)

Settled ==
  \A l \in Loadable : /\ cancels[l] <= loads[l]
                      /\ cancels[l] = loads[l] => Quiet(queue, pending, l)

\* Appending a block that does not load l keeps l quiet.
LEMMA QuietAppend ==
  ASSUME TypeOK, NEW l \in Loadable, Quiet(queue, pending, l),
         NEW block \in Block, ~IsLoad(block, l)
  PROVE  Quiet(Append(queue, block), pending, l)
<1> DEFINE q == Append(queue, block)
<1>1. /\ \A i \in DOMAIN queue : i \in DOMAIN q /\ q[i] = queue[i]
      /\ \A i \in DOMAIN q : i \in DOMAIN queue \/ q[i] = block
  BY DEF TypeOK
<1> HIDE DEF q
<1>2. \A j \in DOMAIN q : IsLoad(q[j], l) => j \in DOMAIN queue /\ IsLoad(queue[j], l)
  BY <1>1
<1>3. Quiet(q, pending, l)
  BY <1>1, <1>2 DEF Quiet
<1>4. QED
  BY <1>3 DEF q

\* Running the first block keeps l quiet, if it does what the block says.
LEMMA QuietTail ==
  ASSUME TypeOK, queue # <<>>, NEW l \in Loadable, Quiet(queue, pending, l), NEW pend,
         l \in pend => l \in pending \/ IsLoad(queue[1], l),
         queue[1].op = "cancel" /\ queue[1].l = l => l \notin pend
  PROVE  Quiet(Tail(queue), pend, l)
<1> DEFINE q == Tail(queue)
<1>1. /\ \A i \in DOMAIN q : i \in Int /\ i + 1 \in DOMAIN queue /\ q[i] = queue[i + 1]
      /\ \A i \in DOMAIN queue : i \in Int /\ (i # 1 => i - 1 \in DOMAIN q)
      /\ \A i \in DOMAIN queue : i >= 1
      /\ 1 \in DOMAIN queue
  BY HeadTail DEF TypeOK
<1> HIDE DEF q
<1>2. CASE \A j \in DOMAIN queue : ~IsLoad(queue[j], l)
  <2>1. \A j \in DOMAIN q : ~IsLoad(q[j], l)
    BY <1>1, <1>2
  <2>2. CASE l \notin pend
    BY <2>1, <2>2 DEF Quiet, q
  <2>3. CASE l \in pend
    <3>1. l \in pending
      BY <1>1, <1>2, <2>3
    <3>2. PICK i \in DOMAIN queue : queue[i].op = "cancel" /\ queue[i].l = l
      BY <3>1 DEF Quiet
    <3>3. i # 1
      BY <2>3, <3>2
    <3>4. i - 1 \in DOMAIN q /\ q[i - 1] = queue[i]
      BY <1>1, <3>3
    <3>5. QED
      BY <2>1, <3>2, <3>4 DEF Quiet, q
  <2>4. QED
    BY <2>2, <2>3
<1>3. CASE \E j \in DOMAIN queue : IsLoad(queue[j], l)
  <2>1. PICK i \in DOMAIN queue : /\ queue[i].op = "cancel" /\ queue[i].l = l
                                  /\ \A j \in DOMAIN queue : IsLoad(queue[j], l) => j < i
    BY <1>3 DEF Quiet
  <2>2. i # 1
    BY <1>1, <1>3, <2>1
  <2>3. i - 1 \in DOMAIN q /\ q[i - 1] = queue[i]
    BY <1>1, <2>2
  <2>4. \A j \in DOMAIN q : IsLoad(q[j], l) => j < i - 1
    BY <1>1, <2>1
  <2>5. QED
    BY <2>1, <2>3, <2>4 DEF Quiet, q
<1>4. QED
  BY <1>2, <1>3

\* Every step keeps quiet what was cancelled as often as it was loaded.
LEMMA SettledStep == TypeOK /\ Settled /\ [Next]_vars => Settled'
<1> SUFFICES ASSUME TypeOK, Settled, [Next]_vars PROVE Settled'
  OBVIOUS
<1>1. ASSUME NEW l \in Loadable, Load(l) PROVE Settled'
  <2>1. [op |-> "load", l |-> l] \in Block
    BY DEF Block
  <2>2. ASSUME NEW m \in Loadable, cancels'[m] = loads'[m] PROVE Quiet(queue', pending', m)
    <3>1. m # l /\ cancels[m] = loads[m]
      BY <1>1, <2>2 DEF Load, TypeOK, Settled
    <3>2. QED
      BY <1>1, <2>1, <3>1, QuietAppend DEF Load, Post, Settled, IsLoad, managerVars
  <2>3. \A m \in Loadable : cancels'[m] <= loads'[m]
    BY <1>1 DEF Load, TypeOK, Settled
  <2>4. QED
    BY <2>2, <2>3 DEF Settled
<1>2. ASSUME NEW l \in Loadable, Cancel(l) PROVE Settled'
  <2> DEFINE block == [op |-> "cancel", l |-> l]
  <2>1. block \in Block /\ \A m : ~IsLoad(block, m)
    BY DEF Block, IsLoad
  <2>2. /\ queue' = Append(queue, block) /\ pending' = pending
        /\ \A m \in Loadable : cancels'[m] = IF m = l THEN cancels[m] + 1 ELSE cancels[m]
        /\ loads' = loads /\ cancels[l] < loads[l]
    BY <1>2 DEF Cancel, Post, managerVars, TypeOK
  <2>3. Quiet(queue', pending', l)
    <3>1. /\ Len(queue) + 1 \in DOMAIN queue' /\ queue'[Len(queue) + 1] = block
          /\ \A j \in DOMAIN queue' : j < Len(queue) + 1 \/ j = Len(queue) + 1
      BY <2>2 DEF TypeOK
    <3>2. QED
      BY <2>1, <3>1 DEF Quiet
  <2> HIDE DEF block
  <2>4. ASSUME NEW m \in Loadable, m # l, cancels'[m] = loads'[m] PROVE Quiet(queue', pending', m)
    <3>1. Quiet(queue, pending, m)
      BY <2>2, <2>4 DEF Settled
    <3>2. QED
      BY <2>1, <2>2, <3>1, QuietAppend
  <2>5. \A m \in Loadable : cancels'[m] <= loads'[m]
    <3>1. \A m \in Loadable : cancels[m] \in Nat /\ loads[m] \in Nat
      BY DEF TypeOK
    <3>2. QED
      BY <2>2, <3>1 DEF Settled
  <2>6. QED
    BY <2>3, <2>4, <2>5 DEF Settled
<1>3. ASSUME NEW l \in Loadable, NEW result \in Result, LoadFinished(l, result) PROVE Settled'
  <2> DEFINE block == [op |-> "done", l |-> l, result |-> result]
  <2>1. block \in Block /\ \A m : ~IsLoad(block, m)
    BY DEF Block, IsLoad
  <2>2. queue' = Append(queue, block) /\ UNCHANGED <<pending, loads, cancels>>
    BY <1>3 DEF LoadFinished, Post, managerVars
  <2> HIDE DEF block
  <2>3. ASSUME NEW m \in Loadable, cancels'[m] = loads'[m] PROVE Quiet(queue', pending', m)
    <3>1. Quiet(queue, pending, m)
      BY <2>2, <2>3 DEF Settled
    <3>2. QED
      BY <2>1, <2>2, <3>1, QuietAppend
  <2>4. QED
    BY <2>2, <2>3 DEF Settled
<1>4. ASSUME queue # <<>>, queue' = Tail(queue), UNCHANGED <<loads, cancels>>,
             \A l \in Loadable :
               /\ l \in pending' => l \in pending \/ IsLoad(queue[1], l)
               /\ queue[1].op = "cancel" /\ queue[1].l = l => l \notin pending'
      PROVE  Settled'
  BY <1>4, QuietTail DEF Settled
<1>5. ASSUME NEW l \in Loadable, RunLoad(l) PROVE Settled'
  <2>1. queue # <<>> /\ queue' = Tail(queue) /\ queue[1].op = "load" /\ queue[1].l = l
    BY <1>5, HeadTail DEF RunLoad, NextBlockIs
  <2>2. pending' \subseteq pending \cup {l} /\ UNCHANGED <<loads, cancels>>
    BY <1>5 DEF RunLoad
  <2>3. QED
    BY <1>4, <2>1, <2>2 DEF IsLoad
<1>6. ASSUME NEW l \in Loadable, RunCancel(l) PROVE Settled'
  <2>1. queue # <<>> /\ queue' = Tail(queue) /\ queue[1].op = "cancel" /\ queue[1].l = l
    BY <1>6, HeadTail DEF RunCancel, NextBlockIs
  <2>2. pending' = pending \ {l} /\ UNCHANGED <<loads, cancels>>
    BY <1>6 DEF RunCancel
  <2>3. QED
    BY <1>4, <2>1, <2>2 DEF IsLoad
<1>7. ASSUME NEW l \in Loadable, RunDone(l) PROVE Settled'
  <2>1. queue # <<>> /\ queue' = Tail(queue) /\ queue[1].op = "done"
    BY <1>7, HeadTail DEF RunDone, NextBlockIs
  <2>2. pending' \subseteq pending /\ UNCHANGED <<loads, cancels>>
    BY <1>7 DEF RunDone
  <2>3. QED
    BY <1>4, <2>1, <2>2 DEF IsLoad
<1>8. CASE UNCHANGED <<queue, pending, loads, cancels>>
  BY <1>8 DEF Settled
<1>9. QED
  BY <1>1, <1>2, <1>3, <1>5, <1>6, <1>7, <1>8 DEF Next, Schedule, Evict, vars, managerVars

\* A completion is never called once the cancel() of the last load() has run,
\* even when the load it shared with other loadables still succeeds.
THEOREM CancelledStaysSilentHolds == Spec => CancelledStaysSilent
<1>1. Init => Settled
  BY DEF Init, Settled, Quiet
<1>2. ASSUME TypeOK, Settled, [Next]_vars, NEW l \in Loadable,
             cancels[l] = loads[l], ~Queued(l)
      PROVE  called'[l] = called[l]
  <2>1. l \notin pending
    BY <1>2 DEF Settled, Quiet, Queued
  <2>2. ASSUME NEW m \in Loadable, RunLoad(m) PROVE called'[l] = called[l]
    <3>1. 1 \in DOMAIN queue /\ queue[1].op = "load" /\ queue[1].l = m
      BY <1>2, <2>2, HeadTail DEF RunLoad, NextBlockIs, TypeOK
    <3>2. m # l
      BY <1>2, <3>1 DEF Queued
    <3>3. QED
      BY <2>2, <3>2 DEF RunLoad, CallCompletionIfNeeded
  <2>3. ASSUME NEW m \in Loadable, RunDone(m) PROVE called'[l] = called[l]
    BY <2>1, <2>3 DEF RunDone, CallCompletionIfNeeded
  <2>4. CASE UNCHANGED called
    BY <2>4
  <2>5. QED
    BY <1>2, <2>2, <2>3, <2>4
    DEF Next, Load, Cancel, LoadFinished, Evict, RunCancel, Schedule, vars, managerVars
<1>3. TypeOK /\ Settled /\ [Next]_vars =>
        [\A l \in Loadable :
           cancels[l] = loads[l] /\ ~Queued(l) => called'[l] = called[l]]_vars
  BY <1>2
<1>4. QED
  BY <1>1, <1>3, TypeCorrect, SettledStep, PTL DEF Spec, CancelledStaysSilent
-----------------------------------------------------------------------------
(***************************************************************************)
(* The other direction: what is not cancelled is not forgotten.            *)
(***************************************************************************)
HasLoad(q, l) == \E i \in DOMAIN q : IsLoad(q[i], l)

Kept ==
  /\ \A i \in DOMAIN queue : queue[i].op = "cancel" => cancels[queue[i].l] > 0
  /\ \A l \in Loadable : loads[l] > 0 /\ cancels[l] = 0 =>
       HasLoad(queue, l) \/ l \in pending \/ called[l] # "no"

\* What an appended block changes.
LEMMA AppendBlock ==
  ASSUME TypeOK, NEW block \in Block, queue' = Append(queue, block)
  PROVE  /\ \A i \in DOMAIN queue' : (i \in DOMAIN queue /\ queue'[i] = queue[i]) \/ queue'[i] = block
         /\ \A l : HasLoad(queue, l) => HasLoad(queue', l)
         /\ \A l : IsLoad(block, l) => HasLoad(queue', l)
<1>1. /\ \A i \in DOMAIN queue : i \in DOMAIN queue' /\ queue'[i] = queue[i]
      /\ \A i \in DOMAIN queue' : i \in DOMAIN queue \/ queue'[i] = block
      /\ Len(queue) + 1 \in DOMAIN queue' /\ queue'[Len(queue) + 1] = block
  BY DEF TypeOK
<1>2. QED
  BY <1>1 DEF HasLoad

\* Every step keeps what was loaded and not cancelled.
LEMMA KeptStep == TypeOK /\ Kept /\ [Next]_vars => Kept'
<1> SUFFICES ASSUME TypeOK, Kept, [Next]_vars PROVE Kept'
  OBVIOUS
<1>0. \A i \in DOMAIN queue : queue[i].l \in Loadable
  BY DEF TypeOK, Block
<1>1. ASSUME NEW l \in Loadable, Load(l) PROVE Kept'
  <2> DEFINE block == [op |-> "load", l |-> l]
  <2>1. block \in Block /\ block.op # "cancel" /\ IsLoad(block, l)
    BY DEF Block, IsLoad
  <2>2. /\ queue' = Append(queue, block) /\ UNCHANGED <<pending, called, cancels>>
        /\ \A m \in Loadable : m # l => loads'[m] = loads[m]
    BY <1>1 DEF Load, Post, managerVars, TypeOK
  <2> HIDE DEF block
  <2>3. QED
    BY <2>1, <2>2, AppendBlock DEF Kept
<1>2. ASSUME NEW l \in Loadable, Cancel(l) PROVE Kept'
  <2> DEFINE block == [op |-> "cancel", l |-> l]
  <2>1. block \in Block /\ block.l = l
    BY DEF Block
  <2>2. /\ queue' = Append(queue, block) /\ UNCHANGED <<pending, called, loads>>
        /\ \A m \in Loadable : m # l => cancels'[m] = cancels[m]
        /\ cancels'[l] > 0
    BY <1>2 DEF Cancel, Post, managerVars, TypeOK
  <2> HIDE DEF block
  <2>3. QED
    BY <1>0, <2>1, <2>2, AppendBlock DEF Kept
<1>3. ASSUME NEW l \in Loadable, NEW result \in Result, LoadFinished(l, result) PROVE Kept'
  <2> DEFINE block == [op |-> "done", l |-> l, result |-> result]
  <2>1. block \in Block /\ block.op # "cancel"
    BY DEF Block
  <2>2. queue' = Append(queue, block) /\ UNCHANGED <<pending, called, loads, cancels>>
    BY <1>3 DEF LoadFinished, Post, managerVars
  <2> HIDE DEF block
  <2>3. QED
    BY <2>1, <2>2, AppendBlock DEF Kept
<1>4. ASSUME queue # <<>>, queue' = Tail(queue), UNCHANGED <<loads, cancels>>,
             \A m \in Loadable : cancels[m] = 0 /\ (IsLoad(queue[1], m) \/ m \in pending \/ called[m] # "no")
                                => m \in pending' \/ called'[m] # "no"
      PROVE  Kept'
  <2>1. /\ \A i \in DOMAIN queue' : i + 1 \in DOMAIN queue /\ queue'[i] = queue[i + 1]
        /\ \A i \in DOMAIN queue : i # 1 => i - 1 \in DOMAIN queue' /\ queue'[i - 1] = queue[i]
    BY <1>4, HeadTail DEF TypeOK
  <2>2. \A i \in DOMAIN queue' : queue'[i].op = "cancel" => cancels'[queue'[i].l] > 0
    BY <1>4, <2>1 DEF Kept
  <2>3. \A m : HasLoad(queue, m) => HasLoad(queue', m) \/ IsLoad(queue[1], m)
    BY <2>1 DEF HasLoad
  <2>4. QED
    BY <1>4, <2>2, <2>3 DEF Kept
<1>5. ASSUME NEW l \in Loadable, RunLoad(l) PROVE Kept'
  <2>1. queue # <<>> /\ queue' = Tail(queue) /\ queue[1].l = l
    BY <1>5, HeadTail DEF RunLoad, NextBlockIs
  <2>2. UNCHANGED <<loads, cancels>> /\ pending \subseteq pending'
    BY <1>5 DEF RunLoad
  <2>3. /\ \A m \in Loadable : called[m] # "no" => called'[m] # "no"
        /\ l \in pending' \/ called'[l] # "no"
    BY <1>5 DEF RunLoad, CallCompletionIfNeeded
  <2>4. QED
    BY <1>4, <2>1, <2>2, <2>3 DEF IsLoad
<1>6. ASSUME NEW l \in Loadable, RunCancel(l) PROVE Kept'
  <2>1. queue # <<>> /\ queue' = Tail(queue) /\ queue[1].op = "cancel" /\ queue[1].l = l /\ 1 \in DOMAIN queue
    BY <1>6, HeadTail DEF RunCancel, NextBlockIs, TypeOK
  <2>2. cancels[l] # 0
    BY <2>1 DEF Kept
  <2>3. pending' = pending \ {l} /\ UNCHANGED <<called, loads, cancels>>
    BY <1>6 DEF RunCancel
  <2>4. QED
    BY <1>4, <2>1, <2>2, <2>3 DEF IsLoad
<1>7. ASSUME NEW l \in Loadable, RunDone(l) PROVE Kept'
  <2>1. queue # <<>> /\ queue' = Tail(queue) /\ queue[1].op = "done" /\ Head(queue).result # "no"
    BY <1>7, HeadTail DEF RunDone, NextBlockIs, Block, Result
  <2>2. UNCHANGED <<loads, cancels>>
    BY <1>7 DEF RunDone
  <2>3. \A m \in Loadable : m \in pending \/ called[m] # "no" => m \in pending' \/ called'[m] # "no"
    BY <1>7, <2>1 DEF RunDone, CallCompletionIfNeeded
  <2>4. QED
    BY <1>4, <2>1, <2>2, <2>3 DEF IsLoad
<1>8. CASE UNCHANGED <<queue, pending, called, loads, cancels>>
  BY <1>8 DEF Kept, HasLoad
<1>9. QED
  BY <1>1, <1>2, <1>3, <1>5, <1>6, <1>7, <1>8 DEF Next, Schedule, Evict, vars, managerVars

\* No load() is lost: until it is cancelled its block waits on the queue, or the
\* loadable is pending, or its completion has been called, whatever other clients
\* load and cancel meanwhile.
THEOREM LoadsAreKeptHolds == Spec => []LoadsAreKept
<1>1. Init => Kept
  BY DEF Init, Kept
<1>2. Kept => LoadsAreKept
  BY DEF Kept, LoadsAreKept, HasLoad, IsLoad
<1>3. QED
  BY <1>1, <1>2, TypeCorrect, KeptStep, PTL DEF Spec
-----------------------------------------------------------------------------
(***************************************************************************)
(* The clients (Browsing).  A call list is read through the set of its     *)
(* elements; a call that was made leaves the set, because no list holds a  *)
(* call twice.                                                             *)
(***************************************************************************)

\* The calls are told apart by what they do and to which loadable.
LEMMA CallFacts ==
  /\ \A l \in Loadable : LoadOf(l) \in Call /\ CancelOf(l) \in Call
  /\ \A l : LoadOf(l).l = l /\ CancelOf(l).l = l
  /\ \A l, m : LoadOf(l) # CancelOf(m)
  /\ \A c \in Call : c.l \in Loadable
  /\ \A c \in Call : (c.op = "load" /\ c = LoadOf(c.l)) \/ (c.op = "cancel" /\ c = CancelOf(c.l))
<1>1. /\ \A l \in Loadable : LoadOf(l) \in Call /\ CancelOf(l) \in Call
      /\ \A l : LoadOf(l).l = l /\ CancelOf(l).l = l
      /\ \A l : LoadOf(l).op = "load" /\ CancelOf(l).op = "cancel"
      /\ \A c \in Call : c.l \in Loadable /\ c.op \in {"load", "cancel"}
  BY DEF Call, LoadOf, CancelOf
<1>2. \A c \in Call : (c.op = "load" => c = LoadOf(c.l)) /\ (c.op = "cancel" => c = CancelOf(c.l))
  BY DEF Call, LoadOf, CancelOf
<1>3. QED
  BY <1>1, <1>2

\* A call list without its head.
LEMMA ElementsTail ==
  ASSUME NEW s \in Seq(Call), s # <<>>, Distinct(s)
  PROVE  /\ Head(s) \in Call /\ Head(s) \in Elements(s)
         /\ Tail(s) \in Seq(Call) /\ Distinct(Tail(s))
         /\ Elements(Tail(s)) = Elements(s) \ {Head(s)}
<1> DEFINE t == Tail(s)
<1>1. /\ t \in Seq(Call) /\ Head(s) = s[1] /\ 1 \in DOMAIN s /\ s[1] \in Call
      /\ \A i \in DOMAIN t : i \in Int /\ i >= 1 /\ i + 1 \in DOMAIN s /\ t[i] = s[i + 1]
      /\ \A i \in DOMAIN s : i \in Int /\ (i # 1 => i - 1 \in DOMAIN t /\ t[i - 1] = s[i])
  OBVIOUS
<1> HIDE DEF t
<1>2. Distinct(t)
  <2> SUFFICES ASSUME NEW i \in DOMAIN t, NEW j \in DOMAIN t, t[i] = t[j] PROVE i = j
    BY DEF Distinct
  <2>1. i + 1 = j + 1
    BY <1>1 DEF Distinct
  <2>2. QED
    BY <1>1, <2>1
<1>3. Elements(t) \subseteq Elements(s) \ {s[1]}
  <2> SUFFICES ASSUME NEW i \in DOMAIN t PROVE t[i] \in Elements(s) /\ t[i] # s[1]
    BY DEF Elements
  <2>1. i + 1 # 1
    BY <1>1
  <2>2. QED
    BY <1>1, <2>1 DEF Elements, Distinct
<1>4. Elements(s) \ {s[1]} \subseteq Elements(t)
  <2> SUFFICES ASSUME NEW i \in DOMAIN s, s[i] # s[1] PROVE s[i] \in Elements(t)
    BY DEF Elements
  <2>1. i - 1 \in DOMAIN t /\ t[i - 1] = s[i]
    BY <1>1
  <2>2. QED
    BY <2>1 DEF Elements
<1>5. s[1] \in Elements(s)
  BY <1>1 DEF Elements
<1>6. QED
  BY <1>1, <1>2, <1>3, <1>4, <1>5 DEF t

\* Two call lists, one after the other.
LEMMA ElementsConcat ==
  ASSUME NEW s \in Seq(Call), NEW t \in Seq(Call)
  PROVE  /\ s \o t \in Seq(Call)
         /\ Elements(s \o t) = Elements(s) \cup Elements(t)
         /\ Distinct(s) /\ Distinct(t) /\ Elements(s) \cap Elements(t) = {} => Distinct(s \o t)
<1> DEFINE u == s \o t
<1>1. u \in Seq(Call) /\ Len(u) = Len(s) + Len(t) /\ Len(s) \in Nat /\ Len(t) \in Nat
  OBVIOUS
<1>0. /\ DOMAIN s = 1..Len(s) /\ DOMAIN t = 1..Len(t) /\ DOMAIN u = 1..(Len(s) + Len(t))
      /\ \A i \in 1..(Len(s) + Len(t)) : u[i] = IF i <= Len(s) THEN s[i] ELSE t[i - Len(s)]
  OBVIOUS
<1> HIDE DEF u
<1>2. /\ \A i \in DOMAIN s : i \in DOMAIN u /\ u[i] = s[i]
      /\ \A i \in DOMAIN t : i + Len(s) \in DOMAIN u /\ u[i + Len(s)] = t[i]
      /\ \A i \in DOMAIN u : i \in Int /\ \/ i \in DOMAIN s /\ u[i] = s[i]
                                          \/ i - Len(s) \in DOMAIN t /\ u[i] = t[i - Len(s)]
  <2>1. \A i \in DOMAIN s : i \in DOMAIN u /\ u[i] = s[i]
    BY <1>0, <1>1
  <2>2. ASSUME NEW i \in DOMAIN t PROVE i + Len(s) \in DOMAIN u /\ u[i + Len(s)] = t[i]
    <3>1. i + Len(s) \in 1..(Len(s) + Len(t)) /\ ~(i + Len(s) <= Len(s)) /\ i + Len(s) - Len(s) = i
      BY <1>0, <1>1
    <3>2. QED
      BY <1>0, <3>1
  <2>3. ASSUME NEW i \in DOMAIN u
        PROVE  i \in Int /\ \/ i \in DOMAIN s /\ u[i] = s[i]
                            \/ i - Len(s) \in DOMAIN t /\ u[i] = t[i - Len(s)]
    <3>1. /\ i \in 1..(Len(s) + Len(t)) /\ i \in Int /\ (i <= Len(s) => i \in 1..Len(s))
          /\ (~(i <= Len(s)) => i - Len(s) \in 1..Len(t))
      BY <1>0, <1>1
    <3>2. QED
      BY <1>0, <3>1
  <2>4. QED
    BY <2>1, <2>2, <2>3
<1>3. Elements(u) = Elements(s) \cup Elements(t)
  BY <1>2 DEF Elements
<1>4. ASSUME Distinct(s), Distinct(t), Elements(s) \cap Elements(t) = {},
             NEW i \in DOMAIN u, NEW j \in DOMAIN u, u[i] = u[j]
      PROVE  i = j
  <2>1. CASE i \in DOMAIN s /\ u[i] = s[i] /\ j \in DOMAIN s /\ u[j] = s[j]
    BY <1>4, <2>1 DEF Distinct
  <2>2. CASE i - Len(s) \in DOMAIN t /\ u[i] = t[i - Len(s)] /\ j - Len(s) \in DOMAIN t /\ u[j] = t[j - Len(s)]
    <3>1. i - Len(s) = j - Len(s)
      BY <1>4, <2>2 DEF Distinct
    <3>2. QED
      BY <1>1, <1>2, <3>1
  <2>3. QED
    BY <1>2, <1>4, <2>1, <2>2 DEF Elements
<1>5. QED
  BY <1>1, <1>3, <1>4 DEF Distinct, u

\* The calls of LoadableDisposer.
LEMMA DisposeCalls ==
  ASSUME NEW old \in Loadable \cup {NoLoadable}, NEW new \in Loadable
  PROVE  /\ Dispose(old, new) \in Seq(Call) /\ Distinct(Dispose(old, new))
         /\ Elements(Dispose(old, new)) =
              {LoadOf(new)} \cup {CancelOf(l) : l \in {old} \ {NoLoadable}}
<1>1. <<LoadOf(new)>> \in Seq(Call) /\ Elements(<<LoadOf(new)>>) = {LoadOf(new)} /\ Distinct(<<LoadOf(new)>>)
  BY CallFacts DEF Elements, Distinct
<1>2. CASE old = NoLoadable
  BY <1>1, <1>2, CallFacts DEF Dispose, Elements, Distinct
<1>3. CASE old # NoLoadable
  <2>1. <<CancelOf(old)>> \in Seq(Call) /\ Elements(<<CancelOf(old)>>) = {CancelOf(old)} /\ Distinct(<<CancelOf(old)>>)
    BY <1>3, CallFacts DEF Elements, Distinct
  <2>2. Dispose(old, new) = <<LoadOf(new)>> \o <<CancelOf(old)>>
    BY <1>3 DEF Dispose
  <2>3. QED
    BY <1>1, <1>3, <2>1, <2>2, CallFacts, ElementsConcat
<1>4. QED
  BY <1>2, <1>3

\* The calls of the preload before the display: none without an image.
LEMMA SoonCalls ==
  ASSUME NEW n \in DOMAIN Shows
  PROVE  /\ PreloadSoon(n) \in Seq(Call) /\ Distinct(PreloadSoon(n))
         /\ Elements(PreloadSoon(n)) = {LoadOf(l) : l \in {SoonLoad[n]} \cap Loadable}
<1>1. CASE image[Shows[n]] = NoImage
  <2>1. SoonLoad[n] \notin Loadable /\ PreloadSoon(n) = <<>>
    BY <1>1, BrowsingAssumption DEF PreloadSoon
  <2>2. QED
    BY <2>1 DEF Elements, Distinct
<1>2. CASE image[Shows[n]] # NoImage
  <2>1. SoonLoad[n] \in Loadable /\ PreloadSoon(n) = <<LoadOf(SoonLoad[n])>>
    BY <1>2, BrowsingAssumption DEF PreloadSoon
  <2>2. QED
    BY <2>1, CallFacts DEF Elements, Distinct
<1>3. QED
  BY <1>1, <1>2

\* The preloads of the n-th sections.
LEMMA PreloadablesOf ==
  /\ Preloadables(0) = <<>> /\ Elements(Preloadables(0)) = {}
  /\ \A n \in DOMAIN ListLoad : /\ Preloadables(n) = ListLoad[n]
                                /\ ListLoad[n] \in Seq(Loadable) /\ Distinct(ListLoad[n])
                                /\ Elements(ListLoad[n]) \subseteq Listed
  /\ Listed \subseteq Loadable
<1>1. \A n \in DOMAIN ListLoad : n # 0 /\ ListLoad[n] \in Seq(Loadable) /\ Distinct(ListLoad[n])
  BY BrowsingAssumption
<1>2. \A n \in DOMAIN ListLoad : Elements(ListLoad[n]) \subseteq Listed /\ Elements(ListLoad[n]) \subseteq Loadable
  BY <1>1 DEF Listed, Elements
<1>3. Listed \subseteq Loadable
  BY <1>2 DEF Listed
<1>4. Preloadables(0) = <<>> /\ Elements(<<>>) = {}
  BY DEF Preloadables, Elements
<1>5. QED
  BY <1>1, <1>2, <1>3, <1>4 DEF Preloadables

\* One call for each loadable of a list.
LEMMA CallsOf ==
  ASSUME NEW op \in {"load", "cancel"}, NEW ls \in Seq(Loadable), Distinct(ls)
  PROVE  /\ Calls(op, ls) \in Seq(Call) /\ Distinct(Calls(op, ls))
         /\ Elements(Calls(op, ls)) = {[op |-> op, l |-> x] : x \in Elements(ls)}
<1>1. DOMAIN ls = 1..Len(ls) /\ Len(ls) \in Nat /\ \A i \in DOMAIN ls : ls[i] \in Loadable
  OBVIOUS
<1>2. Calls(op, ls) \in [1..Len(ls) -> Call]
  BY <1>1 DEF Calls, Call
<1>3. Calls(op, ls) \in Seq(Call)
  BY <1>1, <1>2
<1>4. DOMAIN Calls(op, ls) = DOMAIN ls /\ \A i \in DOMAIN ls : Calls(op, ls)[i] = [op |-> op, l |-> ls[i]]
  BY DEF Calls
<1>5. Distinct(Calls(op, ls))
  <2> SUFFICES ASSUME NEW i \in DOMAIN ls, NEW j \in DOMAIN ls,
                      [op |-> op, l |-> ls[i]] = [op |-> op, l |-> ls[j]]
               PROVE  i = j
    BY <1>4 DEF Distinct
  <2>1. ls[i] = ls[j]
    OBVIOUS
  <2>2. QED
    BY <2>1 DEF Distinct
<1>6. Elements(Calls(op, ls)) = {[op |-> op, l |-> x] : x \in Elements(ls)}
  BY <1>4 DEF Elements
<1>7. QED
  BY <1>3, <1>5, <1>6

\* The calls for a new list of preloads.
LEMMA ListCalls ==
  ASSUME NEW n \in Nat, n + 1 \in DOMAIN ListLoad
  PROVE  LET calls == Calls("load", Preloadables(n + 1)) \o Calls("cancel", Preloadables(n))
         IN  /\ calls \in Seq(Call) /\ Distinct(calls)
             /\ Elements(calls) = {LoadOf(l) : l \in Elements(ListLoad[n + 1])}
                                  \cup {CancelOf(l) : l \in Elements(Preloadables(n))}
<1> DEFINE new == Calls("load", Preloadables(n + 1))
           old == Calls("cancel", Preloadables(n))
<1>1. /\ new \in Seq(Call) /\ Distinct(new)
      /\ Elements(new) = {LoadOf(l) : l \in Elements(ListLoad[n + 1])}
  BY PreloadablesOf, CallsOf DEF LoadOf
<1>2. Preloadables(n) \in Seq(Loadable) /\ Distinct(Preloadables(n))
  <2>1. CASE n = 0
    <3>1. <<>> \in Seq(Loadable) /\ Distinct(<<>>)
      BY DEF Distinct
    <3>2. QED
      BY <2>1, <3>1, PreloadablesOf
  <2>2. CASE n # 0
    <3>1. n \in DOMAIN ListLoad
      BY <2>2, BrowsingAssumption
    <3>2. QED
      BY <3>1, PreloadablesOf
  <2>3. QED
    BY <2>1, <2>2
<1>3. /\ old \in Seq(Call) /\ Distinct(old)
      /\ Elements(old) = {CancelOf(l) : l \in Elements(Preloadables(n))}
  BY <1>2, CallsOf DEF CancelOf
<1>4. Elements(new) \cap Elements(old) = {}
  BY <1>1, <1>3, CallFacts
<1> HIDE DEF new, old
<1>5. new \o old \in Seq(Call) /\ Distinct(new \o old) /\ Elements(new \o old) = Elements(new) \cup Elements(old)
  BY <1>1, <1>3, <1>4, ElementsConcat
<1>6. QED
  BY <1>1, <1>3, <1>5 DEF new, old

\* The article for whose model l was made has an image.
LEMMA ArticleOfType ==
  ASSUME NEW l \in Loadable, \E n \in DOMAIN CellLoad : CellLoad[n] = l
  PROVE  ArticleOf(l) \in Article /\ image[ArticleOf(l)] \in Key
<1> DEFINE n == CHOOSE k \in DOMAIN Shows : CellLoad[k] = l
<1>1. n \in DOMAIN Shows /\ CellLoad[n] = l
  BY BrowsingAssumption
<1> HIDE DEF n
<1>2. Shows[n] \in Article /\ image[Shows[n]] \in Key
  BY <1>1, BrowsingAssumption
<1>3. QED
  BY <1>2 DEF ArticleOf, n

\* What a step of the composition is to the manager: a call, a step of its own or nothing.
LEMMA ManagerStep ==
  BrowsingTypeOK /\ [BrowsingNext]_browsingVars => [Next]_vars
<1> SUFFICES ASSUME BrowsingTypeOK, [BrowsingNext]_browsingVars PROVE [Next]_vars
  OBVIOUS
<1>1. ASSUME NEW s \in Seq(Call), Make(s) PROVE Next
  <2>1. Head(s).l \in Loadable
    BY <1>1, CallFacts DEF Make
  <2>2. QED
    BY <1>1, <2>1 DEF Make, Next
<1>2. CASE MainCall
  BY <1>1, <1>2 DEF MainCall, BrowsingTypeOK
<1>3. CASE QueueCall
  BY <1>1, <1>3 DEF QueueCall, BrowsingTypeOK
<1>4. CASE Manager
  BY <1>4 DEF Manager, Next
<1>5. CASE UNCHANGED vars
  BY <1>5
<1>6. QED
  BY <1>2, <1>3, <1>4, <1>5
  DEF BrowsingNext, ShowArticle, SetSections, Open, Close, Apply, browsingVars

\* What giving the cell its next article does.
LEMMA ShowCalls ==
  ASSUME BrowsingTypeOK, ShowArticle
  PROVE  /\ shown + 1 \in DOMAIN Shows /\ shown' = shown + 1 /\ model' = Shows[shown + 1]
         /\ mainCalls' \in Seq(Call) /\ Distinct(mainCalls')
         /\ \/ /\ CellLoad[shown + 1] \notin Loadable /\ SoonLoad[shown + 1] \notin Loadable
               /\ loader' = loader /\ Elements(mainCalls') = {}
            \/ /\ CellLoad[shown + 1] \in Loadable /\ SoonLoad[shown + 1] \in Loadable
               /\ loader' = CellLoad[shown + 1]
               /\ Elements(mainCalls') = {LoadOf(SoonLoad[shown + 1]), LoadOf(CellLoad[shown + 1])}
                                         \cup {CancelOf(l) : l \in {loader} \ {NoLoadable}}
<1> DEFINE n == shown + 1
           cell == CellLoad[n]
           soon == SoonLoad[n]
           dispose == Dispose(loader, cell)
<1>1. n \in DOMAIN Shows /\ shown' = n /\ model' = Shows[n] /\ SetModel(n, PreloadSoon(n))
  BY DEF ShowArticle, SetModel
<1>2. loader \in Loadable \cup {NoLoadable}
  BY DEF BrowsingTypeOK
<1> HIDE DEF n
<1>3. CASE image[Shows[n]] = NoImage
  <2>1. cell \notin Loadable /\ soon \notin Loadable
    BY <1>1, <1>3, BrowsingAssumption
  <2>2. loader' = loader /\ mainCalls' = PreloadSoon(n)
    BY <1>1, <1>3 DEF SetModel
  <2>3. QED
    BY <1>1, <2>1, <2>2, SoonCalls DEF n
<1>4. CASE image[Shows[n]] # NoImage
  <2>1. cell \in Loadable /\ soon \in Loadable /\ cell # soon
    <3>1. n \in DOMAIN CellLoad /\ n \in DOMAIN SoonLoad
      BY <1>1, BrowsingAssumption
    <3>2. cell \in Elements(CellLoad) /\ soon \in Elements(SoonLoad)
      BY <3>1 DEF Elements
    <3>3. QED
      BY <1>1, <1>4, <3>2, BrowsingAssumption
  <2>2. loader' = cell /\ mainCalls' = PreloadSoon(n) \o dispose
    BY <1>1, <1>4 DEF SetModel
  <2> HIDE DEF cell, soon
  <2>3. /\ PreloadSoon(n) \in Seq(Call) /\ Distinct(PreloadSoon(n))
        /\ Elements(PreloadSoon(n)) = {LoadOf(soon)}
    BY <1>1, <2>1, SoonCalls DEF soon
  <2>4. /\ dispose \in Seq(Call) /\ Distinct(dispose)
        /\ Elements(dispose) = {LoadOf(cell)} \cup {CancelOf(l) : l \in {loader} \ {NoLoadable}}
    BY <1>2, <2>1, DisposeCalls
  <2> HIDE DEF dispose
  <2>5. {LoadOf(soon)} \cap Elements(dispose) = {}
    BY <2>1, <2>4, CallFacts
  <2>6. /\ mainCalls' \in Seq(Call) /\ Distinct(mainCalls')
        /\ Elements(mainCalls') = {LoadOf(soon)} \cup Elements(dispose)
    BY <2>2, <2>3, <2>4, <2>5, ElementsConcat
  <2>7. Elements(mainCalls') = {LoadOf(soon), LoadOf(cell)} \cup {CancelOf(l) : l \in {loader} \ {NoLoadable}}
    BY <2>4, <2>6
  <2>8. QED
    BY <1>1, <2>1, <2>2, <2>6, <2>7 DEF cell, soon, n
<1>5. QED
  BY <1>3, <1>4

\* Every step of the composition keeps the types.
LEMMA BrowsingTypeStep == BrowsingTypeOK /\ [BrowsingNext]_browsingVars => BrowsingTypeOK'
<1> SUFFICES ASSUME BrowsingTypeOK, [BrowsingNext]_browsingVars PROVE BrowsingTypeOK'
  OBVIOUS
<1>1. TypeOK'
  BY ManagerStep, TypeStep DEF BrowsingTypeOK
<1>2. CASE MainCall
  BY <1>1, <1>2 DEF MainCall, Make, BrowsingTypeOK, cellVars
<1>3. CASE QueueCall
  BY <1>1, <1>3 DEF QueueCall, Make, BrowsingTypeOK, cellVars
<1>4. CASE ShowArticle
  <2>1. shown' \in 0..Len(Shows) /\ model' \in Article
    BY <1>4, ShowCalls, BrowsingAssumption DEF BrowsingTypeOK
  <2>2. picture' \in Picture
    BY <1>4, <2>1 DEF ShowArticle, SetModel, Picture, Blank
  <2>3. loader' \in Loadable \cup {NoLoadable} /\ mainCalls' \in Seq(Call)
    BY <1>4, ShowCalls DEF BrowsingTypeOK
  <2>4. UNCHANGED <<applied, lists, opened, queueCalls>>
    BY <1>4 DEF ShowArticle
  <2>5. QED
    BY <1>1, <2>1, <2>2, <2>3, <2>4 DEF BrowsingTypeOK
<1>5. CASE SetSections
  <2>1. lists \in Nat /\ lists + 1 \in DOMAIN ListLoad /\ lists' = lists + 1
    BY <1>5 DEF SetSections, BrowsingTypeOK
  <2>2. lists' \in 0..Len(ListLoad)
    BY <2>1, BrowsingAssumption
  <2>3. queueCalls' \in Seq(Call)
    BY <1>5, <2>1, ListCalls DEF SetSections
  <2>4. QED
    BY <1>1, <1>5, <2>2, <2>3 DEF SetSections, BrowsingTypeOK, cellVars
<1>6. CASE Open
  <2>1. mainCalls' \in Seq(Call)
    BY <1>6, DisposeCalls, BrowsingAssumption DEF Open
  <2>2. QED
    BY <1>1, <1>6, <2>1 DEF Open, BrowsingTypeOK, cellVars
<1>7. CASE Close
  <2>1. mainCalls' \in Seq(Call)
    BY <1>7, CallFacts, BrowsingAssumption DEF Close
  <2>2. QED
    BY <1>1, <1>7, <2>1 DEF Close, BrowsingTypeOK, cellVars
<1>8. ASSUME NEW l \in Loadable, Apply(l) PROVE BrowsingTypeOK'
  <2> DEFINE a == ArticleOf(l)
  <2>1. a \in Article /\ image[a] \in Key
    BY <1>8, ArticleOfType DEF Apply
  <2> HIDE DEF a
  <2>2. PictureOf(a, called[l]) \in Picture
    BY <2>1 DEF PictureOf, Picture, Blank
  <2>3. picture' \in Picture
    BY <1>8, <2>2 DEF Apply, BrowsingTypeOK, a
  <2>4. QED
    BY <1>1, <1>8, <2>3 DEF Apply, BrowsingTypeOK
<1>9. CASE UNCHANGED clientVars
  BY <1>1, <1>9 DEF clientVars, cellVars, BrowsingTypeOK
<1>10. QED
  BY <1>2, <1>3, <1>4, <1>5, <1>6, <1>7, <1>8, <1>9 DEF BrowsingNext, Manager, browsingVars

\* The initial state of the composition.
LEMMA BrowsingInitFacts == BrowsingInit => BrowsingTypeOK /\ ShowsItsArticle
<1> SUFFICES ASSUME BrowsingInit PROVE BrowsingTypeOK /\ ShowsItsArticle
  OBVIOUS
<1>1. TypeOK
  BY LoadableAssumption DEF BrowsingInit, Init, TypeOK, Result, One
<1>2. picture \in Picture
  BY DEF BrowsingInit, Picture, Blank
<1>3. shown \in 0..Len(Shows) /\ lists \in 0..Len(ListLoad)
  BY BrowsingAssumption DEF BrowsingInit
<1>4. QED
  BY <1>1, <1>2, <1>3 DEF BrowsingInit, BrowsingTypeOK, ShowsItsArticle

\* Type correctness of the composition: in particular every call is for a loadable
\* that exists, and the picture on screen is made of an article and an image of it.
THEOREM BrowsingTypeCorrect == BrowsingSpec => []BrowsingTypeOK
  BY BrowsingInitFacts, BrowsingTypeStep, PTL DEF BrowsingSpec

\* The composition implements the request manager: the views call it only in the ways
\* that its specification allows (every cancel() follows its load()).
THEOREM BrowsingImplementsManager == BrowsingSpec => Spec
<1>1. BrowsingInit => Init
  BY DEF BrowsingInit
<1>2. QED
  BY <1>1, BrowsingTypeCorrect, ManagerStep, PTL DEF BrowsingSpec, Spec

\* So what was proved of the manager holds when the cell, the preloads and the
\* article view share it.
THEOREM SharedManagerIsSound ==
  ASSUME AlreadyInflight = {}
  PROVE  BrowsingSpec => /\ [](PointsBalance /\ AllIsExclusive) /\ []NothingStranded
                         /\ []OneLoadPerKey /\ HighestPriorityFirst /\ CancelledStaysSilent
  BY BrowsingImplementsManager, BudgetHolds, NothingStrandedHolds, OneLoadPerKeyHolds,
     HighestPriorityFirstHolds, CancelledStaysSilentHolds, PTL

\* A cell that is reused never shows the title or the image of an article it had
\* before: an answer that comes late is dropped by the comparison of Apply.
THEOREM ShowsItsArticleHolds == BrowsingSpec => []ShowsItsArticle
<1>1. BrowsingTypeOK /\ ShowsItsArticle /\ [BrowsingNext]_browsingVars => ShowsItsArticle'
  <2> SUFFICES ASSUME BrowsingTypeOK, ShowsItsArticle, [BrowsingNext]_browsingVars
               PROVE  ShowsItsArticle'
    OBVIOUS
  <2>1. CASE ShowArticle
    BY <2>1 DEF ShowArticle, SetModel, Blank, ShowsItsArticle
  <2>2. ASSUME NEW l \in Loadable, Apply(l) PROVE ShowsItsArticle'
    <3> DEFINE a == ArticleOf(l)
    <3>1. image[a] \in Key /\ image[a] # NoImage
      BY <2>2, ArticleOfType, BrowsingAssumption DEF Apply
    <3>2. model' = model /\ picture' = IF canonical[model] = canonical[a] THEN PictureOf(a, called[l]) ELSE picture
      BY <2>2 DEF Apply
    <3> HIDE DEF a
    <3>3. CASE canonical[model] = canonical[a]
      <4>1. CASE called[l] = "ok" /\ look[image[a]] # "small"
        <5>1. picture' = PictureOf(a, "ok") /\ picture'.label = a /\ picture'.image = image[a]
          BY <3>2, <3>3, <4>1 DEF PictureOf
        <5>2. QED
          BY <3>1, <3>2, <3>3, <5>1 DEF ShowsItsArticle
      <4>2. CASE ~(called[l] = "ok" /\ look[image[a]] # "small")
        <5>1. picture' = Blank(a)
          BY <3>2, <3>3, <4>2 DEF PictureOf
        <5>2. QED
          BY <3>2, <3>3, <5>1 DEF ShowsItsArticle, Blank
      <4>3. QED
        BY <4>1, <4>2
    <3>4. CASE canonical[model] # canonical[a]
      BY <3>2, <3>4 DEF ShowsItsArticle
    <3>5. QED
      BY <3>3, <3>4
  <2>3. CASE UNCHANGED <<model, picture>>
    BY <2>3 DEF ShowsItsArticle
  <2>4. QED
    BY <2>1, <2>2, <2>3
    DEF BrowsingNext, MainCall, QueueCall, SetSections, Open, Close, Manager,
        browsingVars, clientVars, cellVars
<1>2. QED
  BY <1>1, BrowsingInitFacts, BrowsingTypeCorrect, PTL DEF BrowsingSpec
-----------------------------------------------------------------------------
(***************************************************************************)
(* Who holds what.  Todo is what the two threads have still to call, New   *)
(* what no view has made yet.  A view holds what is Wanted, and has called *)
(* load() for it or is about to; what a view has let go (Released) it has  *)
(* cancelled or is about to cancel, unless nobody can.                     *)
(***************************************************************************)
Todo == Elements(mainCalls) \cup Elements(queueCalls)

Soon == Elements(SoonLoad)
Main == Elements(CellLoad) \cup Soon \cup {HtmlLoad}

New ==
  {CellLoad[n] : n \in {k \in DOMAIN Shows : k > shown}}
  \cup {SoonLoad[n] : n \in {k \in DOMAIN Shows : k > shown}}
  \cup (UNION {Elements(ListLoad[n]) : n \in {k \in DOMAIN ListLoad : k > lists}})
  \cup (IF opened = "no" THEN {HtmlLoad} ELSE {})

Held == Wanted \ {NoLoadable}

\* The threads call for loadables of their own, and no call twice.
Separate ==
  /\ \A c \in Elements(mainCalls) : c.l \in Main
  /\ \A c \in Elements(queueCalls) : c.l \in Listed
  /\ Distinct(mainCalls) /\ Distinct(queueCalls)

Current == loader # NoLoadable => \E n \in DOMAIN Shows : n <= shown /\ loader = CellLoad[n]

Untouched ==
  \A l \in New \cap Loadable : loads[l] = 0 /\ LoadOf(l) \notin Todo /\ CancelOf(l) \notin Todo

Once == \A l \in Loadable : loads[l] <= 1 /\ (LoadOf(l) \in Todo => loads[l] = 0)

HeldIsLoaded ==
  \A l \in Held : /\ cancels[l] = 0 /\ CancelOf(l) \notin Todo
                  /\ LoadOf(l) \in Todo \/ loads[l] > 0

Released ==
  \A l \in Loadable \ (Held \cup Soon) : /\ LoadOf(l) \notin Todo
                                         /\ CancelOf(l) \in Todo \/ cancels[l] = loads[l]

Holding == Untouched /\ Once /\ HeldIsLoaded /\ Released

\* What some view holds: objects of its own, made already.
LEMMA HeldType ==
  ASSUME BrowsingTypeOK
  PROVE  /\ Held \subseteq Loadable
         /\ Held = ({loader} \ {NoLoadable}) \cup Elements(Preloadables(lists))
                   \cup (IF opened = "open" THEN {HtmlLoad} ELSE {})
         /\ Elements(Preloadables(lists)) \subseteq Listed
<1>1. /\ loader \in Loadable \cup {NoLoadable} /\ lists \in 0..Len(ListLoad)
      /\ HtmlLoad \in Loadable /\ NoLoadable \notin Loadable
      /\ DOMAIN ListLoad = 1..Len(ListLoad) /\ Len(ListLoad) \in Nat
  BY BrowsingAssumption DEF BrowsingTypeOK
<1>2. Listed \subseteq Loadable
  BY PreloadablesOf
<1>3. Elements(Preloadables(lists)) \subseteq Listed
  <2>1. CASE lists = 0
    BY <2>1, PreloadablesOf
  <2>2. CASE lists # 0
    <3>1. lists \in DOMAIN ListLoad
      BY <1>1, <2>2
    <3>2. QED
      BY <3>1, PreloadablesOf
  <2>3. QED
    BY <2>1, <2>2
<1>4. QED
  BY <1>1, <1>2, <1>3 DEF Held, Wanted

\* A call that is made.
LEMMA CallMade ==
  ASSUME BrowsingTypeOK, TypeOK, Holding, NEW c \in Todo, c \in Call,
         IF c.op = "load" THEN Load(c.l) ELSE Cancel(c.l),
         Todo' = Todo \ {c}, UNCHANGED <<New, Held>>
  PROVE  Holding'
<1> DEFINE l == c.l
<1>0. /\ l \in Loadable
      /\ \A m \in Loadable : loads[m] \in Nat /\ cancels[m] \in Nat
      /\ Soon' = Soon
  BY CallFacts DEF TypeOK, Soon, Elements
<1>1. CASE c.op = "load"
  <2>1. c = LoadOf(l) /\ \A m : LoadOf(m) = c => m = l
    BY <1>1, CallFacts
  <2>2. /\ loads' = [loads EXCEPT ![l] = @ + 1] /\ cancels' = cancels
        /\ loads \in [Loadable -> Nat]
    BY <1>1 DEF Load, TypeOK
  <2> HIDE DEF l
  <2>3. loads[l] = 0 /\ l \notin New /\ l \notin Loadable \ (Held \cup Soon)
    <3>1. LoadOf(l) \in Todo
      BY <2>1
    <3>2. loads[l] = 0
      BY <1>0, <3>1 DEF Holding, Once
    <3>3. l \notin New
      BY <1>0, <3>1 DEF Holding, Untouched
    <3>4. l \notin Loadable \ (Held \cup Soon)
      BY <3>1 DEF Holding, Released
    <3>5. QED
      BY <3>2, <3>3, <3>4
  <2>4. /\ loads'[l] = 1 /\ \A m \in Loadable : m # l => loads'[m] = loads[m]
        /\ \A m : CancelOf(m) \in Todo' <=> CancelOf(m) \in Todo
        /\ \A m : m # l => (LoadOf(m) \in Todo' <=> LoadOf(m) \in Todo)
        /\ LoadOf(l) \notin Todo'
    BY <1>0, <2>1, <2>2, <2>3, CallFacts
  <2>5. Untouched' /\ Released'
    BY <1>0, <2>2, <2>3, <2>4 DEF Holding, Untouched, Released
  <2>6. Once'
    BY <2>4 DEF Holding, Once
  <2>7. HeldIsLoaded'
    <3>1. \A m \in Held : m # l => m \in Loadable /\ loads'[m] = loads[m]
      BY <2>4, HeldType
    <3>2. QED
      BY <2>2, <2>4, <3>1 DEF Holding, HeldIsLoaded
  <2>8. QED
    BY <2>5, <2>6, <2>7 DEF Holding
<1>2. CASE c.op # "load"
  <2>1. c = CancelOf(l) /\ \A m : CancelOf(m) = c => m = l
    BY <1>2, CallFacts
  <2>2. /\ cancels' = [cancels EXCEPT ![l] = @ + 1] /\ loads' = loads /\ cancels[l] < loads[l]
        /\ cancels \in [Loadable -> Nat]
    BY <1>2 DEF Cancel, TypeOK
  <2> HIDE DEF l
  <2>3. loads[l] <= 1 /\ l \notin New /\ l \notin Held
    BY <1>0, <2>1 DEF Holding, Untouched, Once, HeldIsLoaded
  <2>4. /\ cancels'[l] = loads'[l] /\ \A m \in Loadable : m # l => cancels'[m] = cancels[m]
        /\ \A m : LoadOf(m) \in Todo' <=> LoadOf(m) \in Todo
        /\ \A m : m # l => (CancelOf(m) \in Todo' <=> CancelOf(m) \in Todo)
        /\ Todo' \subseteq Todo
    BY <1>0, <2>1, <2>2, <2>3, CallFacts
  <2>5. Untouched' /\ Once'
    BY <2>2, <2>4 DEF Holding, Untouched, Once
  <2>6. HeldIsLoaded'
    <3>1. ASSUME NEW m \in Held PROVE m # l /\ cancels'[m] = cancels[m]
      BY <2>3, <2>4, HeldType
    <3>2. QED
      BY <2>2, <2>4, <3>1 DEF Holding, HeldIsLoaded
  <2>7. Released'
    BY <1>0, <2>2, <2>4 DEF Holding, Released
  <2>8. QED
    BY <2>5, <2>6, <2>7 DEF Holding
<1>3. QED
  BY <1>1, <1>2

\* A view takes the loadables A, which are new, and lets go of B, which it held.
LEMMA Exchange ==
  ASSUME Settled, Holding, TypeOK, UNCHANGED <<loads, cancels>>,
         NEW A, NEW B, A \subseteq New \cap Loadable, B \subseteq Held,
         Todo' = Todo \cup {LoadOf(l) : l \in A} \cup {CancelOf(l) : l \in B},
         New' \subseteq New \ A, B \cap New = {},
         \A l \in B : LoadOf(l) \notin Todo,
         Held' = (Held \ B) \cup (A \ Soon)
  PROVE  Holding'
<1>0. /\ \A l \in A : loads[l] = 0 /\ cancels[l] = 0 /\ l \notin B /\ l \in Loadable
      /\ Soon' = Soon
  <2>1. \A l \in Loadable : loads[l] \in Nat /\ cancels[l] \in Nat /\ cancels[l] <= loads[l]
    BY DEF TypeOK, Settled
  <2>2. QED
    BY <2>1 DEF Holding, Untouched, Soon, Elements
<1>1. /\ \A l : LoadOf(l) \in Todo' <=> LoadOf(l) \in Todo \/ l \in A
      /\ \A l : CancelOf(l) \in Todo' <=> CancelOf(l) \in Todo \/ l \in B
  BY CallFacts
<1>2. Untouched'
  BY <1>1 DEF Holding, Untouched
<1>3. Once'
  BY <1>0, <1>1 DEF Holding, Once
<1>4. HeldIsLoaded'
  <2>1. ASSUME NEW l \in Held, l \notin B
        PROVE  /\ cancels'[l] = 0 /\ CancelOf(l) \notin Todo'
               /\ LoadOf(l) \in Todo' \/ loads'[l] > 0
    BY <1>1, <2>1 DEF Holding, HeldIsLoaded
  <2>2. ASSUME NEW l \in A
        PROVE  cancels'[l] = 0 /\ CancelOf(l) \notin Todo' /\ LoadOf(l) \in Todo'
    BY <1>0, <1>1, <2>2 DEF Holding, Untouched
  <2>3. QED
    BY <2>1, <2>2 DEF HeldIsLoaded
<1>5. Released'
  BY <1>0, <1>1 DEF Holding, Released
<1>6. QED
  BY <1>2, <1>3, <1>4, <1>5 DEF Holding

\* Which loadable belongs to whom, by the assumption that each is a new object.
LEMMA Owners ==
  /\ Main \cap Listed = {}
  /\ \A n \in DOMAIN Shows : /\ CellLoad[n] \in Main /\ SoonLoad[n] \in Main
                             /\ CellLoad[n] \notin Soon /\ SoonLoad[n] \in Soon
                             /\ CellLoad[n] # HtmlLoad /\ SoonLoad[n] # HtmlLoad
  /\ \A n \in DOMAIN ListLoad : Elements(ListLoad[n]) \subseteq Listed /\ Elements(ListLoad[n]) \cap Main = {}
  /\ \A m, n \in DOMAIN Shows : /\ CellLoad[m] # SoonLoad[n]
                                /\ CellLoad[m] = CellLoad[n] => m = n
                                /\ SoonLoad[m] = SoonLoad[n] => m = n
  /\ \A m, n \in DOMAIN ListLoad : m # n => Elements(ListLoad[m]) \cap Elements(ListLoad[n]) = {}
  /\ HtmlLoad \in Main /\ HtmlLoad \notin Soon
<1>1. \A n \in DOMAIN Shows : CellLoad[n] \in Elements(CellLoad) /\ SoonLoad[n] \in Elements(SoonLoad)
  BY BrowsingAssumption DEF Elements
<1>2. \A n \in DOMAIN ListLoad : Elements(ListLoad[n]) \subseteq Listed
  BY PreloadablesOf
<1>3. /\ \A m, n \in DOMAIN Shows : (CellLoad[m] = CellLoad[n] => m = n) /\ (SoonLoad[m] = SoonLoad[n] => m = n)
      /\ \A m, n \in DOMAIN ListLoad : m # n => Elements(ListLoad[m]) \cap Elements(ListLoad[n]) = {}
  BY BrowsingAssumption DEF Distinct
<1>4. QED
  BY <1>1, <1>2, <1>3, BrowsingAssumption DEF Main, Soon

\* What the cell makes next is new, and what it holds is not.
LEMMA NewCell ==
  ASSUME BrowsingTypeOK, Current, shown + 1 \in DOMAIN Shows
  PROVE  /\ CellLoad[shown + 1] \in New /\ SoonLoad[shown + 1] \in New
         /\ ({loader} \ {NoLoadable}) \cap New = {}
         /\ shown' = shown + 1 /\ UNCHANGED <<lists, opened>> =>
              New' \subseteq New \ {CellLoad[shown + 1], SoonLoad[shown + 1]}
<1>1. /\ shown \in Nat /\ \A k \in DOMAIN Shows : k \in Nat
  BY BrowsingAssumption DEF BrowsingTypeOK
<1>2. CellLoad[shown + 1] \in New /\ SoonLoad[shown + 1] \in New
  BY <1>1 DEF New
<1>3. ASSUME loader # NoLoadable PROVE loader \notin New
  <2>1. PICK n \in DOMAIN Shows : n <= shown /\ loader = CellLoad[n]
    BY <1>3 DEF Current
  <2>2. \A k \in DOMAIN Shows : k > shown => k # n
    BY <1>1, <2>1
  <2>3. QED
    BY <2>1, <2>2, Owners DEF New
<1>4. ASSUME shown' = shown + 1, UNCHANGED <<lists, opened>>
      PROVE  New' \subseteq New \ {CellLoad[shown + 1], SoonLoad[shown + 1]}
  <2>1. \A k \in DOMAIN Shows : k > shown' => k > shown /\ k # shown + 1
    BY <1>1, <1>4
  <2>2. New' \subseteq New
    BY <1>4, <2>1 DEF New
  <2>3. CellLoad[shown + 1] \notin New' /\ SoonLoad[shown + 1] \notin New'
    BY <1>4, <2>1, Owners DEF New
  <2>4. QED
    BY <2>2, <2>3
<1>5. QED
  BY <1>2, <1>3, <1>4

\* The same for the lists of preloads.
LEMMA NewList ==
  ASSUME BrowsingTypeOK, lists + 1 \in DOMAIN ListLoad
  PROVE  /\ Elements(ListLoad[lists + 1]) \subseteq New
         /\ Elements(Preloadables(lists)) \cap New = {}
         /\ lists' = lists + 1 /\ UNCHANGED <<shown, opened>> =>
              New' \subseteq New \ Elements(ListLoad[lists + 1])
<1>1. lists \in Nat /\ \A k \in DOMAIN ListLoad : k \in Nat /\ k # 0
  BY BrowsingAssumption DEF BrowsingTypeOK
<1>2. Elements(ListLoad[lists + 1]) \subseteq New
  BY <1>1 DEF New
<1>3. ASSUME NEW l \in Elements(Preloadables(lists)) PROVE l \notin New
  <2>1. lists # 0
    BY <1>3, PreloadablesOf
  <2>2. lists \in DOMAIN ListLoad
    BY <1>1, <2>1, BrowsingAssumption
  <2>3. l \in Elements(ListLoad[lists]) /\ l \notin Main
    BY <1>3, <2>2, PreloadablesOf, Owners
  <2>4. \A k \in DOMAIN ListLoad : k > lists => l \notin Elements(ListLoad[k])
    BY <1>1, <2>2, <2>3, Owners
  <2>5. QED
    BY <2>3, <2>4, Owners DEF New
<1>4. ASSUME lists' = lists + 1, UNCHANGED <<shown, opened>>
      PROVE  New' \subseteq New \ Elements(ListLoad[lists + 1])
  <2>1. \A k \in DOMAIN ListLoad : k > lists' => k > lists /\ k # lists + 1
    BY <1>1, <1>4
  <2>2. New' \subseteq New
    BY <1>4, <2>1 DEF New
  <2>3. ASSUME NEW l \in Elements(ListLoad[lists + 1]) PROVE l \notin New'
    <3>1. l \notin Main
      BY <2>3, Owners
    <3>2. \A k \in DOMAIN ListLoad : k > lists' => l \notin Elements(ListLoad[k])
      BY <2>1, <2>3, Owners
    <3>3. QED
      BY <1>4, <3>1, <3>2, Owners DEF New
  <2>4. QED
    BY <2>2, <2>3
<1>5. QED
  BY <1>2, <1>3, <1>4

\* The same for the article view.
LEMMA NewHtml ==
  /\ opened = "no" => HtmlLoad \in New
  /\ opened # "no" => HtmlLoad \notin New
  /\ opened' # "no" /\ UNCHANGED <<shown, lists>> => New' \subseteq New \ {HtmlLoad}
<1>1. \A n \in DOMAIN ListLoad : HtmlLoad \notin Elements(ListLoad[n])
  BY Owners
<1>2. QED
  BY <1>1, Owners DEF New

\* The inductive invariant of the clients.
Clients == Separate /\ Current /\ Holding

\* Every step keeps what the views hold loaded, and what they let go cancelled.
LEMMA ClientsStep ==
  ASSUME BrowsingTypeOK, Settled, Clients, [BrowsingNext]_browsingVars
  PROVE  Clients'
<1>0. /\ TypeOK /\ Separate /\ Current /\ Holding
      /\ mainCalls \in Seq(Call) /\ queueCalls \in Seq(Call)
      /\ Main' = Main /\ Soon' = Soon
  BY DEF BrowsingTypeOK, Clients, Main, Soon, Elements
<1>1. Elements(<<>>) = {} /\ Distinct(<<>>)
  BY DEF Elements, Distinct
<1>2. CASE MainCall
  <2> DEFINE c == Head(mainCalls)
  <2>1. mainCalls # <<>> /\ mainCalls' = Tail(mainCalls) /\ queueCalls' = queueCalls
    BY <1>2 DEF MainCall, Make
  <2>2. /\ c \in Call /\ c \in Elements(mainCalls) /\ Distinct(mainCalls')
        /\ Elements(mainCalls') = Elements(mainCalls) \ {c}
    BY <1>0, <2>1, ElementsTail DEF Separate
  <2>3. IF c.op = "load" THEN Load(c.l) ELSE Cancel(c.l)
    BY <1>2 DEF MainCall, Make
  <2> HIDE DEF c
  <2>4. c \notin Elements(queueCalls)
    BY <1>0, <2>2, Owners DEF Separate
  <2>5. Todo' = Todo \ {c} /\ c \in Todo
    BY <2>1, <2>2, <2>4 DEF Todo
  <2>6. UNCHANGED <<New, Held, shown, loader>>
    BY <1>2 DEF MainCall, cellVars, New, Held, Wanted, Preloadables, Elements
  <2>7. Holding'
    BY <1>0, <2>2, <2>3, <2>5, <2>6, CallMade
  <2>8. Separate' /\ Current'
    BY <1>0, <2>1, <2>2, <2>6 DEF Separate, Current
  <2>9. QED
    BY <2>7, <2>8 DEF Clients
<1>3. CASE QueueCall
  <2> DEFINE c == Head(queueCalls)
  <2>1. queueCalls # <<>> /\ queueCalls' = Tail(queueCalls) /\ mainCalls' = mainCalls
    BY <1>3 DEF QueueCall, Make
  <2>2. /\ c \in Call /\ c \in Elements(queueCalls) /\ Distinct(queueCalls')
        /\ Elements(queueCalls') = Elements(queueCalls) \ {c}
    BY <1>0, <2>1, ElementsTail DEF Separate
  <2>3. IF c.op = "load" THEN Load(c.l) ELSE Cancel(c.l)
    BY <1>3 DEF QueueCall, Make
  <2> HIDE DEF c
  <2>4. c \notin Elements(mainCalls)
    BY <1>0, <2>2, Owners DEF Separate
  <2>5. Todo' = Todo \ {c} /\ c \in Todo
    BY <2>1, <2>2, <2>4 DEF Todo
  <2>6. UNCHANGED <<New, Held, shown, loader>>
    BY <1>3 DEF QueueCall, cellVars, New, Held, Wanted, Preloadables, Elements
  <2>7. Holding'
    BY <1>0, <2>2, <2>3, <2>5, <2>6, CallMade
  <2>8. Separate' /\ Current'
    BY <1>0, <2>1, <2>2, <2>6 DEF Separate, Current
  <2>9. QED
    BY <2>7, <2>8 DEF Clients
<1>4. CASE ShowArticle
  <2> DEFINE n == shown + 1
             cell == CellLoad[n]
             soon == SoonLoad[n]
  <2>1. /\ n \in DOMAIN Shows /\ shown' = n /\ Distinct(mainCalls')
        /\ \/ /\ cell \notin Loadable /\ soon \notin Loadable
              /\ loader' = loader /\ Elements(mainCalls') = {}
           \/ /\ cell \in Loadable /\ soon \in Loadable /\ loader' = cell
              /\ Elements(mainCalls') = {LoadOf(soon), LoadOf(cell)}
                                        \cup {CancelOf(l) : l \in {loader} \ {NoLoadable}}
    BY <1>4, ShowCalls
  <2>2. mainCalls = <<>> /\ UNCHANGED <<loads, cancels, lists, opened, queueCalls>>
    BY <1>4 DEF ShowArticle, vars
  <2>3. Todo = Elements(queueCalls) /\ Todo' = Todo \cup Elements(mainCalls')
    BY <1>1, <2>2 DEF Todo
  <2>4. /\ cell \in New /\ soon \in New
        /\ ({loader} \ {NoLoadable}) \cap New = {}
        /\ New' \subseteq New \ {cell, soon}
    BY <1>0, <2>1, <2>2, NewCell
  <2>5. Current' /\ (loader # NoLoadable => loader \in Main /\ loader # HtmlLoad)
    <3>1. shown \in Nat /\ \A k \in DOMAIN Shows : k \in Nat
      BY BrowsingAssumption DEF BrowsingTypeOK
    <3>2. CASE loader' = loader
      BY <1>0, <2>1, <3>1, <3>2, Owners DEF Current
    <3>3. CASE loader' = cell
      <4>1. n <= shown'
        BY <2>1, <3>1
      <4>2. Current'
        BY <2>1, <3>3, <4>1 DEF Current
      <4>3. QED
        BY <1>0, <4>2, Owners DEF Current
    <3>4. QED
      BY <2>1, <3>2, <3>3
  <2>6. /\ cell \in Main /\ soon \in Main /\ soon \in Soon /\ cell \notin Soon /\ cell # soon
        /\ cell # HtmlLoad
    BY <2>1, Owners
  <2>7. LET other == Elements(Preloadables(lists)) \cup (IF opened = "open" THEN {HtmlLoad} ELSE {})
        IN  /\ Held = ({loader} \ {NoLoadable}) \cup other
            /\ Held' = ({loader'} \ {NoLoadable}) \cup other
            /\ ({loader} \ {NoLoadable}) \cap other = {}
    <3>1. /\ Held = ({loader} \ {NoLoadable}) \cup Elements(Preloadables(lists))
                    \cup (IF opened = "open" THEN {HtmlLoad} ELSE {})
          /\ Elements(Preloadables(lists)) \subseteq Listed
      BY HeldType
    <3>2. Held' = ({loader'} \ {NoLoadable}) \cup Elements(Preloadables(lists))
                  \cup (IF opened = "open" THEN {HtmlLoad} ELSE {})
      <4>1. NoLoadable \notin Listed /\ NoLoadable # HtmlLoad
        BY BrowsingAssumption, PreloadablesOf
      <4>2. Held' = ({loader'} \cup Elements(Preloadables(lists))
                  \cup (IF opened = "open" THEN {HtmlLoad} ELSE {})) \ {NoLoadable}
        BY <2>2 DEF Held, Wanted, Preloadables, Elements
      <4>3. QED
        BY <3>1, <4>1, <4>2
    <3>3. QED
      BY <2>5, <3>1, <3>2, Owners
  <2> HIDE DEF n, cell, soon
  <2>8. CASE Elements(mainCalls') = {} /\ loader' = loader
    <3>1. Todo' = Todo /\ Held' = Held /\ New' \subseteq New
      BY <2>3, <2>4, <2>7, <2>8
    <3>2. Holding'
      BY <1>0, <2>2, <3>1 DEF Holding, Untouched, Once, HeldIsLoaded, Released
    <3>3. Separate'
      BY <1>0, <2>1, <2>2, <2>8 DEF Separate
    <3>4. QED
      BY <2>5, <3>2, <3>3 DEF Clients
  <2>9. CASE /\ cell \in Loadable /\ soon \in Loadable /\ loader' = cell
             /\ Elements(mainCalls') = {LoadOf(soon), LoadOf(cell)}
                                       \cup {CancelOf(l) : l \in {loader} \ {NoLoadable}}
    <3> DEFINE A == {soon, cell}
               B == {loader} \ {NoLoadable}
    <3>1. A \subseteq New \cap Loadable /\ B \subseteq Held /\ B \cap New = {} /\ New' \subseteq New \ A
      BY <2>4, <2>7, <2>9
    <3>2. {LoadOf(soon), LoadOf(cell)} = {LoadOf(l) : l \in A}
      OBVIOUS
    <3>3. Todo' = Todo \cup {LoadOf(l) : l \in A} \cup {CancelOf(l) : l \in B}
      BY <2>3, <2>9, <3>2
    <3>4. \A l \in B : LoadOf(l) \notin Todo
      BY <1>0, <2>3, <2>5, CallFacts, Owners DEF Separate
    <3>5. Held' = (Held \ B) \cup (A \ Soon)
      <4>1. cell # NoLoadable
        BY <2>9, BrowsingAssumption
      <4>2. QED
        BY <2>6, <2>7, <2>9, <4>1
    <3>6. \A c \in Elements(mainCalls') : c.l \in Main
      BY <2>5, <2>6, <2>9, CallFacts
    <3>7. Separate'
      BY <1>0, <2>1, <2>2, <3>6 DEF Separate
    <3> HIDE DEF A, B
    <3>8. Holding'
      BY <1>0, <2>2, <3>1, <3>3, <3>4, <3>5, Exchange
    <3>9. QED
      BY <2>5, <3>7, <3>8 DEF Clients
  <2>10. QED
    BY <2>1, <2>8, <2>9 DEF cell, soon
<1>5. CASE SetSections
  <2> DEFINE A == Elements(ListLoad[lists + 1])
             B == Elements(Preloadables(lists))
             other == ({loader} \ {NoLoadable}) \cup (IF opened = "open" THEN {HtmlLoad} ELSE {})
  <2>1. lists \in Nat /\ lists + 1 \in DOMAIN ListLoad /\ lists' = lists + 1
    BY <1>5 DEF SetSections, BrowsingTypeOK
  <2>2. queueCalls = <<>> /\ UNCHANGED <<loads, cancels, shown, loader, opened, mainCalls>>
    BY <1>5 DEF SetSections, vars, cellVars
  <2>3. Distinct(queueCalls') /\ Elements(queueCalls') = {LoadOf(l) : l \in A} \cup {CancelOf(l) : l \in B}
    BY <1>5, <2>1, ListCalls DEF SetSections
  <2>4. Todo = Elements(mainCalls) /\ Todo' = Todo \cup Elements(queueCalls')
    BY <1>1, <2>2 DEF Todo
  <2>5. A \subseteq New /\ B \cap New = {} /\ New' \subseteq New \ A
    BY <2>1, <2>2, NewList
  <2>6. /\ A \subseteq Listed /\ A \cap Main = {} /\ A \subseteq Loadable /\ NoLoadable \notin A
        /\ Elements(Preloadables(lists + 1)) = A
    BY <2>1, Owners, PreloadablesOf, BrowsingAssumption
  <2>7. Held = B \cup other /\ B \subseteq Listed
    BY HeldType
  <2>8. B \cap other = {}
    <3>1. other \subseteq Main
      BY <1>0, Owners DEF Current
    <3>2. QED
      BY <2>7, <3>1, Owners
  <2>9. Held' = A \cup other
    <3>1. Held' = ({loader} \cup A \cup (IF opened = "open" THEN {HtmlLoad} ELSE {})) \ {NoLoadable}
      <4>1. Elements(Preloadables(lists')) = A
        BY <2>1, <2>6
      <4>2. QED
        BY <2>2, <4>1 DEF Held, Wanted, Elements, Preloadables
    <3>2. QED
      BY <2>6, <3>1, BrowsingAssumption
  <2> HIDE DEF A, B, other
  <2>10. Separate'
    BY <1>0, <2>2, <2>3, <2>6, <2>7, CallFacts DEF Separate
  <2>11. Current'
    BY <1>0, <2>2 DEF Current
  <2>12. Holding'
    <3>1. Todo' = Todo \cup {LoadOf(l) : l \in A} \cup {CancelOf(l) : l \in B}
      BY <2>3, <2>4
    <3>2. \A l \in B : LoadOf(l) \notin Todo
      BY <1>0, <2>4, <2>7, CallFacts, Owners DEF Separate
    <3>3. A \cap Soon = {}
      BY <2>6 DEF Main
    <3>4. Held' = (Held \ B) \cup (A \ Soon)
      BY <2>7, <2>8, <2>9, <3>3
    <3>5. A \subseteq New \cap Loadable /\ B \subseteq Held /\ New' \subseteq New \ A
      BY <2>5, <2>6, <2>7
    <3>6. QED
      BY <1>0, <2>2, <2>5, <3>1, <3>2, <3>4, <3>5, Exchange
  <2>13. QED
    BY <2>10, <2>11, <2>12 DEF Clients
<1>6. ASSUME Open \/ Close PROVE Clients'
  <2> DEFINE A == IF opened = "no" THEN {HtmlLoad} ELSE {}
             B == IF opened = "open" THEN {HtmlLoad} ELSE {}
             other == ({loader} \ {NoLoadable}) \cup Elements(Preloadables(lists))
  <2>1. mainCalls = <<>> /\ UNCHANGED <<loads, cancels, shown, loader, lists, queueCalls>>
    BY <1>6 DEF Open, Close, vars, cellVars
  <2>2. (opened = "no" /\ opened' = "open") \/ (opened = "open" /\ opened' = "closed")
    BY <1>6 DEF Open, Close
  <2>3. HtmlLoad \in Loadable /\ HtmlLoad # NoLoadable /\ HtmlLoad \in Main /\ HtmlLoad \notin Soon
    BY Owners, BrowsingAssumption
  <2>4. /\ Distinct(mainCalls')
        /\ Elements(mainCalls') = {LoadOf(l) : l \in A} \cup {CancelOf(l) : l \in B}
    <3>1. CASE Open
      <4>1. mainCalls' = Dispose(NoLoadable, HtmlLoad) /\ A = {HtmlLoad} /\ B = {}
        BY <3>1 DEF Open
      <4>2. Distinct(mainCalls') /\ Elements(mainCalls') = {LoadOf(HtmlLoad)}
        BY <2>3, <4>1, DisposeCalls
      <4>3. QED
        BY <4>1, <4>2
    <3>2. CASE Close
      <4>1. mainCalls' = <<CancelOf(HtmlLoad)>> /\ A = {} /\ B = {HtmlLoad}
        BY <3>2 DEF Close
      <4>2. Distinct(mainCalls') /\ Elements(mainCalls') = {CancelOf(HtmlLoad)}
        BY <4>1 DEF Elements, Distinct
      <4>3. QED
        BY <4>1, <4>2
    <3>3. QED
      BY <1>6, <3>1, <3>2
  <2>5. Todo = Elements(queueCalls) /\ Todo' = Todo \cup Elements(mainCalls')
    BY <1>1, <2>1 DEF Todo
  <2>6. /\ A \subseteq New \cap Loadable /\ B \cap New = {} /\ New' \subseteq New \ A
    BY <2>1, <2>2, <2>3, NewHtml
  <2>7. Held = B \cup other /\ HtmlLoad \notin other
    <3>1. HtmlLoad \notin Elements(Preloadables(lists))
      BY <2>3, HeldType, Owners
    <3>2. loader # NoLoadable => loader # HtmlLoad
      BY <1>0, Owners DEF Current
    <3>3. QED
      BY <3>1, <3>2, HeldType
  <2>8. Held' = other \cup A
    <3>1. Held' = ({loader} \cup Elements(Preloadables(lists)) \cup A) \ {NoLoadable}
      BY <2>1, <2>2 DEF Held, Wanted, Elements, Preloadables
    <3>2. NoLoadable \notin Elements(Preloadables(lists))
      BY HeldType, BrowsingAssumption DEF Elements
    <3>3. QED
      BY <2>3, <3>1, <3>2
  <2>9. Separate'
    BY <1>0, <2>1, <2>3, <2>4, CallFacts DEF Separate
  <2>10. Current'
    BY <1>0, <2>1 DEF Current
  <2>11. Held' = (Held \ B) \cup (A \ Soon) /\ B \subseteq Held
    BY <2>3, <2>7, <2>8
  <2>12. \A l \in B : LoadOf(l) \notin Todo
    BY <1>0, <2>3, <2>5, CallFacts, Owners DEF Separate
  <2>13. Todo' = Todo \cup {LoadOf(l) : l \in A} \cup {CancelOf(l) : l \in B}
    BY <2>4, <2>5
  <2> HIDE DEF A, B
  <2>14. Holding'
    BY <1>0, <2>1, <2>6, <2>11, <2>12, <2>13, Exchange
  <2>15. QED
    BY <2>9, <2>10, <2>14 DEF Clients
<1>7. CASE UNCHANGED <<loads, cancels, shown, loader, lists, opened, mainCalls, queueCalls>>
  <2>1. UNCHANGED <<Todo, New, Held>>
    BY <1>7 DEF Todo, New, Held, Wanted, Preloadables, Elements
  <2>2. Holding'
    BY <1>0, <1>7, <2>1 DEF Holding, Untouched, Once, HeldIsLoaded, Released
  <2>3. Separate' /\ Current'
    BY <1>0, <1>7 DEF Separate, Current, Elements, Distinct
  <2>4. QED
    BY <2>2, <2>3 DEF Clients
<1>8. CASE Manager
  BY <1>7, <1>8 DEF Manager, LoadFinished, RunLoad, RunCancel, RunDone, Schedule, clientVars, cellVars
<1>9. ASSUME NEW l \in Loadable, Apply(l) PROVE Clients'
  BY <1>7, <1>9 DEF Apply, vars
<1>10. QED
  BY <1>2, <1>3, <1>4, <1>5, <1>6, <1>7, <1>8, <1>9
  DEF BrowsingNext, browsingVars, vars, clientVars, cellVars

\* The calls that the cell, the preloads and the article view make from two threads
\* reach the manager so that, when all have run, what is wanted is pending or was
\* answered, and nothing else is pending but the preloads that nobody can cancel.
THEOREM PendingIsWantedHolds == BrowsingSpec => []PendingIsWanted
<1>1. BrowsingInit => Settled /\ Kept /\ Clients
  <2> SUFFICES ASSUME BrowsingInit PROVE Settled /\ Kept /\ Clients
    OBVIOUS
  <2>1. Settled /\ Kept
    BY DEF BrowsingInit, Init, Settled, Quiet, Kept
  <2>2. Todo = {} /\ Separate /\ Current
    BY DEF BrowsingInit, Todo, Elements, Separate, Distinct, Current
  <2>3. BrowsingTypeOK /\ \A l \in Loadable : loads[l] = 0 /\ cancels[l] = 0
    BY BrowsingInitFacts DEF BrowsingInit, Init
  <2>4. Held = {}
    BY <2>3, HeldType, PreloadablesOf DEF BrowsingInit
  <2>5. QED
    BY <2>1, <2>2, <2>3, <2>4 DEF Clients, Holding, Untouched, Once, HeldIsLoaded, Released
<1>2. BrowsingTypeOK /\ Settled /\ Kept /\ Clients => PendingIsWanted
  <2> SUFFICES ASSUME BrowsingTypeOK, Settled, Kept, Clients, Quiescent
               PROVE  /\ \A l \in Held : l \in pending \/ called[l] # "no"
                      /\ pending \subseteq Wanted \cup Soon
    BY DEF PendingIsWanted, Held, Soon
  <2>1. Todo = {} /\ \A l : ~HasLoad(queue, l)
    BY DEF Quiescent, Todo, Elements, HasLoad
  <2>2. ASSUME NEW l \in Held PROVE l \in pending \/ called[l] # "no"
    BY <2>1, HeldType DEF Clients, Holding, HeldIsLoaded, Kept
  <2>3. ASSUME NEW l \in pending, l \notin Held \cup Soon PROVE FALSE
    <3>1. l \in Loadable
      BY DEF BrowsingTypeOK, TypeOK
    <3>2. cancels[l] = loads[l]
      BY <2>1, <2>3, <3>1 DEF Clients, Holding, Released
    <3>3. QED
      BY <3>1, <3>2 DEF Settled, Quiet, Quiescent
  <2>4. QED
    BY <2>2, <2>3 DEF Held
<1>3. BrowsingTypeOK /\ Settled /\ Kept /\ Clients /\ [BrowsingNext]_browsingVars
      => (Settled /\ Kept /\ Clients)'
  <2> SUFFICES ASSUME BrowsingTypeOK, Settled, Kept, Clients, [BrowsingNext]_browsingVars
               PROVE  (Settled /\ Kept /\ Clients)'
    OBVIOUS
  <2>1. TypeOK /\ [Next]_vars
    BY ManagerStep DEF BrowsingTypeOK
  <2>2. QED
    BY <2>1, SettledStep, KeptStep, ClientsStep
<1>4. QED
  BY <1>1, <1>2, <1>3, BrowsingTypeCorrect, PTL DEF BrowsingSpec
=============================================================================
