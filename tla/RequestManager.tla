--------------------------- MODULE RequestManager ---------------------------
(***************************************************************************)
(* RequestManager and Loadable (A1/A1/API/RequestManager.swift): a         *)
(* prioritised, deduplicating, caching scheduler of network loads with a   *)
(* budget of points.  All of its state is touched only by blocks that run  *)
(* one at a time on the serial dispatch queue _queue; load(), cancel() and *)
(* a finished load only append a block to that queue.  The loop of         *)
(* _startPendingLoadablesIfAppropriate is one step per iteration: the      *)
(* block that runs it holds the serial queue until toLoad is exhausted,    *)
(* while other threads go on appending blocks.                             *)
(***************************************************************************)
EXTENDS Float32, Sequences, FiniteSets

CONSTANTS
  Loadable,         \* Loadable objects; they are compared by identity
  Key,              \* cache keys (URLs)
  key,              \* [Loadable -> Key]
  priority,         \* [Loadable -> Int]
  AllPoints,        \* the loadables whose points are .all, the others are .normal
  AlreadyInflight,  \* the loadables created with alreadyInflight: true
  MaxLoads,         \* bound: load() is called at most this often per loadable
  MaxQueue,         \* bound: threads append only to a queue shorter than this
  NoTask            \* absent from the _inflight dictionary

ASSUME LoadableAssumption ==
  /\ key \in [Loadable -> Key]
  /\ priority \in [Loadable -> Int]
  /\ AllPoints \subseteq Loadable
  /\ AlreadyInflight \subseteq Loadable
  /\ NoTask \notin Loadable
  /\ IsFiniteSet(Key)
  /\ MaxLoads \in Nat
  /\ MaxQueue \in Nat

VARIABLES
  queue,       \* the blocks waiting on _queue
  pending,     \* _pending
  inflight,    \* _inflight: the loadable whose load() serves the key, or NoTask
  remaining,   \* _remainingPoints, a Float
  cache,       \* the keys with an object in _cache
  called,      \* _calledYet of each loadable, with the result that was sent
  toLoad,      \* what the scheduling loop has still to visit; {} when it is not running
  running,     \* the loadables whose load closure has not called back
  loads,       \* how often load() was called for each loadable
  cancels      \* how often cancel() was called for each loadable

managerVars == <<pending, inflight, remaining, cache, called, toLoad>>
vars == <<queue, managerVars, running, loads, cancels>>

Result == {"ok", "nil"}
Block == [op : {"load", "cancel"}, l : Loadable]
         \cup [op : {"done"}, l : Loadable, result : Result]

\* Points.rawValue of a loadable.
points(l) == IF l \in AllPoints THEN One ELSE Tenth

TypeOK ==
  /\ queue \in Seq(Block)
  /\ pending \subseteq Loadable
  /\ inflight \in [Key -> Loadable \cup {NoTask}]
  /\ remaining \in Int
  /\ cache \subseteq Key
  /\ called \in [Loadable -> Result \cup {"no"}]
  /\ toLoad \subseteq Loadable
  /\ running \subseteq Loadable
  /\ loads \in [Loadable -> Nat]
  /\ cancels \in [Loadable -> Nat]

Init ==
  /\ queue = <<>>
  /\ pending = {}
  /\ inflight = [k \in Key |-> NoTask]
  /\ remaining = One
  /\ cache = {}
  /\ called = [l \in Loadable |-> "no"]
  /\ toLoad = {}
  /\ running = {}
  /\ loads = [l \in Loadable |-> 0]
  /\ cancels = [l \in Loadable |-> 0]
-----------------------------------------------------------------------------
(* Steps of other threads: each appends one block to _queue.               *)

Post(block) ==
  /\ Len(queue) < MaxQueue
  /\ queue' = Append(queue, block)

\* RequestManager.load(l) is called by a view, a disposer or a preloader.
Load(l) ==
  /\ loads[l] < MaxLoads
  /\ loads' = [loads EXCEPT ![l] = @ + 1]
  /\ Post([op |-> "load", l |-> l])
  /\ UNCHANGED <<managerVars, running, cancels>>

\* RequestManager.cancel(l) is called, after load(l), by whoever holds l.
Cancel(l) ==
  /\ cancels[l] < loads[l]
  /\ cancels' = [cancels EXCEPT ![l] = @ + 1]
  /\ Post([op |-> "cancel", l |-> l])
  /\ UNCHANGED <<managerVars, running, loads>>

\* The load closure of l calls back on an arbitrary queue, once.
LoadFinished(l, result) ==
  /\ l \in running
  /\ running' = running \ {l}
  /\ Post([op |-> "done", l |-> l, result |-> result])
  /\ UNCHANGED <<managerVars, loads, cancels>>

\* NSCache drops an object whenever it likes.
Evict(k) ==
  /\ k \in cache
  /\ cache' = cache \ {k}
  /\ UNCHANGED <<queue, pending, inflight, remaining, called, toLoad, running, loads, cancels>>
-----------------------------------------------------------------------------
(* The blocks of _queue.                                                   *)

\* _queue is serial: the next block starts when the loop of the last has ended.
NextBlockIs(op) ==
  /\ toLoad = {}
  /\ queue # <<>>
  /\ Head(queue).op = op

\* _callCompletionIfNeeded(result) of each loadable in S.
CallCompletionIfNeeded(S, result) ==
  called' = [l \in Loadable |-> IF l \in S /\ called[l] = "no" THEN result ELSE called[l]]

\* _kickOff(l).
KickOff(l) ==
  /\ inflight' = [inflight EXCEPT ![key[l]] = l]
  /\ remaining' = FSub(remaining, points(l))
  /\ running' = running \cup {l}

\* The head of _startPendingLoadablesIfAppropriate: what its loop will visit.
Unstarted(pend, tasks, left) ==
  IF left > 0 THEN {l \in pend : tasks[key[l]] = NoTask} ELSE {}

\* The block of load(l).
RunLoad(l) ==
  /\ NextBlockIs("load")
  /\ l = Head(queue).l
  /\ queue' = Tail(queue)
  /\ UNCHANGED <<cache, loads, cancels>>
  /\ \/ /\ l \in pending
        /\ UNCHANGED <<pending, inflight, remaining, called, toLoad, running>>
     \/ /\ l \notin pending /\ key[l] \in cache
        /\ CallCompletionIfNeeded({l}, "ok")
        /\ UNCHANGED <<pending, inflight, remaining, toLoad, running>>
     \/ /\ l \notin pending /\ key[l] \notin cache /\ l \in AlreadyInflight
        /\ pending' = pending \cup {l}
        /\ IF inflight[key[l]] = NoTask THEN KickOff(l)
           ELSE UNCHANGED <<inflight, remaining, running>>
        /\ UNCHANGED <<called, toLoad>>
     \/ /\ l \notin pending /\ key[l] \notin cache /\ l \notin AlreadyInflight
        /\ pending' = pending \cup {l}
        /\ toLoad' = Unstarted(pending', inflight, remaining)
        /\ UNCHANGED <<inflight, remaining, called, running>>

\* Mutants of RunCancel: l stays pending; its task is dropped as well; whoever waits
\* for the same key is cancelled with it.
RunCancelForgets(l) ==
  /\ NextBlockIs("cancel")
  /\ l = Head(queue).l
  /\ queue' = Tail(queue)
  /\ UNCHANGED <<managerVars, running, loads, cancels>>

RunCancelDropsTask(l) ==
  /\ NextBlockIs("cancel")
  /\ l = Head(queue).l
  /\ queue' = Tail(queue)
  /\ pending' = pending \ {l}
  /\ inflight' = [inflight EXCEPT ![key[l]] = NoTask]
  /\ UNCHANGED <<remaining, cache, called, toLoad, running, loads, cancels>>

RunCancelKey(l) ==
  /\ NextBlockIs("cancel")
  /\ l = Head(queue).l
  /\ queue' = Tail(queue)
  /\ pending' = {m \in pending : key[m] # key[l]}
  /\ UNCHANGED <<inflight, remaining, cache, called, toLoad, running, loads, cancels>>

\* The block of cancel(l).
RunCancel(l) ==
  /\ NextBlockIs("cancel")
  /\ l = Head(queue).l
  /\ queue' = Tail(queue)
  /\ pending' = pending \ {l}
  /\ UNCHANGED <<inflight, remaining, cache, called, toLoad, running, loads, cancels>>

\* _remainingPoints and _inflight after l's task.  The mutant does not return the
\* points.
PointsKept(l) == remaining
PointsReturned(l) == FAdd(remaining, points(l))

TaskRemoved(l) == [inflight EXCEPT ![key[l]] = NoTask]

\* The block that the callback of l's load closure posts.
RunDone(l) ==
  LET served == {m \in pending : key[m] = key[l]}
      result == Head(queue).result
  IN
  /\ NextBlockIs("done")
  /\ l = Head(queue).l
  /\ queue' = Tail(queue)
  /\ cache' = IF result = "ok" THEN cache \cup {key[l]} ELSE cache
  /\ inflight' = TaskRemoved(l)
  /\ remaining' = PointsReturned(l)
  /\ pending' = pending \ served
  /\ CallCompletionIfNeeded(served, result)
  /\ toLoad' = Unstarted(pending', inflight', remaining')
  /\ UNCHANGED <<running, loads, cancels>>

\* The comparator of the sort is >=, so the order among equal priorities is not
\* determined.  The mutant has it the other way round.
LastInOrder(l) == \A m \in toLoad : priority[l] <= priority[m]
FirstInOrder(l) == \A m \in toLoad : priority[l] >= priority[m]

\* One iteration of the loop.
Schedule(l) ==
  /\ l \in toLoad
  /\ FirstInOrder(l)
  /\ \/ /\ inflight[key[l]] # NoTask
        /\ toLoad' = toLoad \ {l}
        /\ UNCHANGED <<inflight, remaining, running>>
     \/ /\ inflight[key[l]] = NoTask
        /\ FSub(remaining, points(l)) < 0
        /\ toLoad' = {}
        /\ UNCHANGED <<inflight, remaining, running>>
     \/ /\ inflight[key[l]] = NoTask
        /\ FSub(remaining, points(l)) >= 0
        /\ KickOff(l)
        /\ toLoad' = toLoad \ {l}
  /\ UNCHANGED <<queue, pending, cache, called, loads, cancels>>
-----------------------------------------------------------------------------
RunBlock == \E l \in Loadable : RunLoad(l) \/ RunCancel(l) \/ RunDone(l)

Next ==
  \/ \E l \in Loadable : \/ Load(l) \/ Cancel(l)
                         \/ \E result \in Result : LoadFinished(l, result)
                         \/ RunLoad(l) \/ RunCancel(l) \/ RunDone(l)
                         \/ Schedule(l)
  \/ \E k \in Key : Evict(k)

Spec == Init /\ [][Next]_vars

\* A dispatch queue runs the blocks it holds, a loop goes on, and a URLSession or
\* Firestore request calls back, if only with an error after its timeout.
Fairness ==
  /\ WF_vars(RunBlock)
  /\ WF_vars(\E l \in Loadable : Schedule(l))
  /\ \A l \in Loadable : WF_vars(\E result \in Result : LoadFinished(l, result))

FairSpec == Spec /\ Fairness
-----------------------------------------------------------------------------
(* Properties.                                                             *)

\* The keys that some task serves.
Busy == {k \in Key : inflight[k] # NoTask}

\* Left[n + 1] is the Float that n subtractions of 0.1 leave of 1.
Left == <<134217728, 120795952, 107374176, 93952400, 80530624,
          67108852, 53687080, 40265308, 26843536, 13421763>>

\* A running load closure is the one that _inflight records for its key: two
\* pending loadables with one key never cause two requests at a time.
OneLoadPerKey == \A l \in running : inflight[key[l]] = l

\* "no other requests allowed" (Points.all): while a load of .all points is in
\* flight it is the only one.
AllIsExclusive ==
  \A k \in Busy : inflight[k] \in AllPoints => Busy = {k}

\* The budget does not drift: adding 0.1 back undoes subtracting it in Float
\* arithmetic, in whatever order loads start and end, so _remainingPoints is
\* determined by what is in flight (and is exactly 1 when nothing is).
PointsBalance ==
  IF \E k \in Busy : inflight[k] \in AllPoints
  THEN remaining = 0
  ELSE /\ Cardinality(Busy) \in 0..9
       /\ remaining = Left[Cardinality(Busy) + 1]

\* No lost wakeup, although cancel() schedules nothing: outside the loop, what
\* waits waits for a task in flight, whose completion runs the loop again.
NothingStranded == toLoad = {} /\ pending # {} => Busy # {}

\* A load that the loop starts has the highest priority of all that wait: a
\* cheap loadable never overtakes an expensive one that does not fit.
HighestPriorityFirst ==
  [][\A l \in running' \ running, m \in pending' :
       l \notin AlreadyInflight /\ inflight'[key[m]] = NoTask => priority[l] >= priority[m]]_vars

\* Blocks of _queue that add l to _pending or remove it.
Queued(l) == \E i \in DOMAIN queue : queue[i].op # "done" /\ queue[i].l = l

\* Once the cancel() that answers the last load() of l has run, the completion
\* of l is not called, whatever its load still brings.
CancelledStaysSilent ==
  [][\A l \in Loadable :
       cancels[l] = loads[l] /\ ~Queued(l) => called'[l] = called[l]]_vars

\* No load() is lost while it is not cancelled: its block waits on the queue, the
\* loadable is pending or its completion has been called.  A loadable whose key is in
\* flight already starts nothing and depends on the request of another one, which may
\* fail or whose loadable may be cancelled; and load() and cancel() of other clients of
\* the key come at any time.
LoadsAreKept ==
  \A l \in Loadable : loads[l] > 0 /\ cancels[l] = 0 =>
    \/ \E i \in DOMAIN queue : queue[i].op = "load" /\ queue[i].l = l
    \/ l \in pending
    \/ called[l] # "no"

\* Every load() is answered through the completion, unless it is cancelled.  (A
\* loadable that was answered stays so: for finitely many this is the same as a
\* leads-to for each, and cheaper to check.)
EveryLoadAnswered ==
  <>[](\A l \in Loadable : loads[l] > 0 => called[l] # "no" \/ cancels[l] > 0)

\* "allow 10 concurrent requests" (Points.normal): when only .normal loadables
\* are involved, one that is left waiting has ten loads before it.
TenConcurrentAllowed ==
  /\ toLoad = {}
  /\ AllPoints = {}
  /\ \E l \in pending : inflight[key[l]] = NoTask
  => Cardinality(Busy) >= 10
=============================================================================
