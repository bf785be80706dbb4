---------------------------- MODULE UpdateTasks ----------------------------
(***************************************************************************)
(* The chain of update tasks (a1-webapp/tasks.go, admin_dashboard.go).     *)
(* Nothing schedules updates but the update task itself, which queues its  *)
(* successor at its end, and /admin/restart_fetch_tasks, which purges the  *)
(* queue and starts a chain for each pair of segments.  The App Engine     *)
(* task queue (external) runs a task until its handler has answered, and   *)
(* again if the handler dies.                                              *)
(***************************************************************************)
EXTENDS Integers, FiniteSets

CONSTANTS
  Segment,      \* pairs of a user segment and a source segment
  Restart,      \* requests of /admin/restart_fetch_tasks
  MaxCrashes,   \* bound: handlers of update tasks that die
  MaxRefused,   \* bound: Add and AddMulti calls that return an error
  MaxHandlers   \* bound: handlers of a segment that run at a time

ASSUME UpdateTasksAssumption ==
  /\ IsFiniteSet(Restart)
  /\ MaxCrashes \in Nat
  /\ MaxRefused \in Nat
  /\ MaxHandlers \in Nat \ {0}

VARIABLES
  queued,    \* [Segment -> Nat]: tasks that wait in the queue
  working,   \* [Segment -> Nat]: handlers in updateTask whose task is in the queue
  orphans,   \* [Segment -> Nat]: handlers in updateTask whose task was purged
  ending,    \* [Segment -> Nat]: handlers that have queued again but not answered
  restart,   \* [Restart -> STRING]: restartFetchTasks
  crashes,
  unpurged,  \* the restarts whose purge is still to take effect after their sleep
  refused,   \* how many Add and AddMulti calls returned an error
  starts     \* how many restarts have queued their tasks since the queue was emptied last

vars == <<queued, working, orphans, ending, restart, unpurged, crashes, refused, starts>>

TypeOK ==
  /\ queued \in [Segment -> Nat]
  /\ working \in [Segment -> Nat]
  /\ orphans \in [Segment -> Nat]
  /\ ending \in [Segment -> Nat]
  /\ restart \in [Restart -> {"new", "purging", "adding", "done", "dead"}]
  /\ unpurged \subseteq Restart
  /\ crashes \in 0..MaxCrashes
  /\ refused \in 0..MaxRefused
  /\ starts \in Nat

none == [s \in Segment |-> 0]

Init ==
  /\ queued = none
  /\ working = none
  /\ orphans = none
  /\ ending = none
  /\ restart = [r \in Restart |-> "new"]
  /\ unpurged = {}
  /\ crashes = 0
  /\ refused = 0
  /\ starts = 0
-----------------------------------------------------------------------------
(* updateTaskHandler.                                                      *)

\* The queue hands a task to the handler, after UPDATE_INTERVAL or at once.
Run(s) ==
  /\ queued[s] > 0
  /\ working[s] + orphans[s] + ending[s] < MaxHandlers
  /\ queued' = [queued EXCEPT ![s] = @ - 1]
  /\ working' = [working EXCEPT ![s] = @ + 1]
  /\ UNCHANGED <<orphans, ending, restart, unpurged, crashes, refused, starts>>

\* Mutants of Requeue: the task is not queued again, or twice.
RequeueForgotten(s, counter) ==
  /\ counter[s] > 0
  /\ UNCHANGED <<queued, restart, unpurged, crashes, refused, starts>>

RequeueTwice(s, counter) ==
  /\ counter[s] > 0
  /\ queued' = [queued EXCEPT ![s] = @ + 2]
  /\ UNCHANGED <<restart, unpurged, crashes, refused, starts>>

\* updateTask has returned and the handler queues the task again.  The error of
\* Add is not looked at.
Requeue(s, counter) ==
  /\ counter[s] > 0
  /\ \/ /\ queued' = [queued EXCEPT ![s] = @ + 1]
        /\ UNCHANGED refused
     \/ /\ refused < MaxRefused
        /\ refused' = refused + 1
        /\ UNCHANGED queued
  /\ UNCHANGED <<restart, unpurged, crashes, starts>>

\* A handler whose task is still in the queue has yet to answer.
WorkDone(s) ==
  /\ Requeue(s, working)
  /\ working' = [working EXCEPT ![s] = @ - 1]
  /\ ending' = [ending EXCEPT ![s] = @ + 1]
  /\ UNCHANGED orphans

\* A handler whose task was purged goes on all the same; what it answers, and
\* whether it does, no longer matters.
OrphanDone(s) ==
  /\ Requeue(s, orphans)
  /\ orphans' = [orphans EXCEPT ![s] = @ - 1]
  /\ UNCHANGED <<working, ending>>

\* The handler answers "ok!", which removes its task.
Answer(s) ==
  /\ ending[s] > 0
  /\ ending' = [ending EXCEPT ![s] = @ - 1]
  /\ UNCHANGED <<queued, working, orphans, restart, unpurged, crashes, refused, starts>>

\* The handler dies before it answers: its task goes back to the queue, even when
\* it has already queued its successor.  A purged task does not come back.
Crash(s) ==
  /\ crashes < MaxCrashes
  /\ crashes' = crashes + 1
  /\ \/ /\ working[s] > 0
        /\ working' = [working EXCEPT ![s] = @ - 1]
        /\ queued' = [queued EXCEPT ![s] = @ + 1]
        /\ UNCHANGED <<orphans, ending>>
     \/ /\ ending[s] > 0
        /\ ending' = [ending EXCEPT ![s] = @ - 1]
        /\ queued' = [queued EXCEPT ![s] = @ + 1]
        /\ UNCHANGED <<working, orphans>>
     \/ /\ orphans[s] > 0
        /\ orphans' = [orphans EXCEPT ![s] = @ - 1]
        /\ UNCHANGED <<queued, working, ending>>
  /\ UNCHANGED <<restart, unpurged, refused, starts>>
-----------------------------------------------------------------------------
(* restartFetchTasks.                                                      *)

CallPurge(r) ==
  /\ restart[r] = "new"
  /\ restart' = [restart EXCEPT ![r] = "purging"]
  /\ UNCHANGED <<queued, working, orphans, ending, unpurged, crashes, refused, starts>>

\* The queue loses all its tasks, also those whose handlers are running.
EmptyQueue ==
  /\ queued' = none
  /\ orphans' = [s \in Segment |-> orphans[s] + working[s]]
  /\ working' = none
  /\ ending' = none
  /\ starts' = 0

\* The purge takes effect during the two seconds that the handler sleeps, or its
\* error is ignored.  Handlers that are running are not stopped.
Purge(r) ==
  /\ restart[r] = "purging"
  /\ restart' = [restart EXCEPT ![r] = "adding"]
  /\ \/ EmptyQueue
     \/ UNCHANGED <<queued, working, orphans, ending, starts>>
  /\ UNCHANGED <<unpurged, crashes, refused>>

\* Two seconds are too short: the handler goes on, and the purge takes effect at
\* some time later, before the new tasks are queued or when they have been.
Oversleep(r) ==
  /\ restart[r] = "purging"
  /\ restart' = [restart EXCEPT ![r] = "adding"]
  /\ unpurged' = unpurged \cup {r}
  /\ UNCHANGED <<queued, working, orphans, ending, crashes, refused, starts>>

LatePurge(r) ==
  /\ r \in unpurged
  /\ unpurged' = unpurged \ {r}
  /\ EmptyQueue
  /\ UNCHANGED <<restart, crashes, refused>>

\* AddMulti of one immediate task for each segment; an error is logged.
AddMulti(r) ==
  /\ restart[r] = "adding"
  /\ restart' = [restart EXCEPT ![r] = "done"]
  /\ \/ /\ queued' = [s \in Segment |-> queued[s] + 1]
        /\ starts' = starts + 1
        /\ UNCHANGED refused
     \/ /\ refused < MaxRefused
        /\ refused' = refused + 1
        /\ UNCHANGED <<queued, starts>>
  /\ UNCHANGED <<working, orphans, ending, unpurged, crashes>>

\* The request dies in its calls or its sleep.  It is no task: nobody repeats it, and a
\* purge that it has asked for may still come.
RestartDies(r) ==
  /\ \/ restart[r] = "purging" /\ unpurged' \in {unpurged, unpurged \cup {r}}
     \/ restart[r] = "adding" /\ UNCHANGED unpurged
  /\ restart' = [restart EXCEPT ![r] = "dead"]
  /\ UNCHANGED <<queued, working, orphans, ending, crashes, refused, starts>>
-----------------------------------------------------------------------------
Next ==
  \/ \E s \in Segment : Run(s) \/ WorkDone(s) \/ OrphanDone(s) \/ Answer(s) \/ Crash(s)
  \/ \E r \in Restart :
       \/ CallPurge(r) \/ Purge(r) \/ Oversleep(r) \/ LatePurge(r) \/ AddMulti(r)
       \/ RestartDies(r)

Spec == Init /\ [][Next]_vars

\* The task queue runs what it holds, updateTask returns (its calls have
\* deadlines), handlers go on, and a restart that was begun goes on until it dies.
Fairness ==
  /\ \A s \in Segment :
       WF_vars(Run(s)) /\ WF_vars(WorkDone(s)) /\ WF_vars(OrphanDone(s)) /\ WF_vars(Answer(s))
  /\ \A r \in Restart : WF_vars(Purge(r) \/ Oversleep(r)) /\ WF_vars(AddMulti(r))

FairSpec == Spec /\ Fairness
-----------------------------------------------------------------------------
(* Properties.                                                             *)

\* The chains of a segment: each is a waiting task or a handler that will queue
\* the next one, with a task to fall back on if it dies.
Chains(s) == queued[s] + working[s]

\* Once a restart has queued its tasks, and as long as no Add was refused, no segment
\* runs out of updates, whatever dies when, until the queue is emptied by the purge of
\* another restart or by one that comes too late.  The next restart that lives to queue
\* its tasks repairs that.
ChainAlive ==
  starts > 0 /\ refused = 0 => \A s \in Segment : Chains(s) >= 1

\* A step with which a purge, in time or not, may take effect.
Purging ==
  \/ \E r \in Restart : restart[r] = "purging" /\ restart'[r] = "adding"
  \/ unpurged \ unpurged' # {}

\* Chains are for ever: outside of a purge and of a refused Add their number never
\* decreases, so what a crash between Add and the answer, or a restart during a
\* handler, has doubled is never merged again.
ChainsNeverMerge ==
  [][\A s \in Segment : refused' = refused /\ ~Purging => Chains(s)' >= Chains(s)]_vars

Restarted == {r \in Restart : restart[r] = "done"}

\* Where extra chains come from: a restart adds at most one to a segment, even when
\* the handlers that its purge has orphaned queue again, and so does a crash.
ChainsAreExplained ==
  \A s \in Segment : Chains(s) + orphans[s] <= Cardinality(Restarted) + crashes

\* The chains were begun and not purged, or some restart is about to begin them.
Begun == starts > 0 \/ \E r \in Restart : restart[r] \in {"purging", "adding"}

\* Every segment is updated again and again from the restart on, and during the next
\* one.  It ends in three ways, and the code repairs none of them: an Add is refused, a
\* purge comes too late, or a restart dies between its purge and its AddMulti.
UpdatesGoOn ==
  \A s \in Segment :
    [](Begun /\ refused = 0 => <>(working[s] > 0 \/ refused > 0 \/ ~Begun))
=============================================================================
