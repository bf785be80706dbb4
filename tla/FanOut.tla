------------------------------- MODULE FanOut -------------------------------
(***************************************************************************)
(* What distributing articles promises its caller: a set of documents to   *)
(* write, found out one article at a time, each written or failed once, in *)
(* any order, and a return that reports success only when everything was   *)
(* written.  After a failure the caller may be answered while other writes *)
(* are still to come.                                                      *)
(***************************************************************************)
CONSTANTS Target   \* the documents that may have to be written

VARIABLES planned, written, failed, outcome

vars == <<planned, written, failed, outcome>>

Init ==
  /\ planned = {}
  /\ written = {}
  /\ failed = {}
  /\ outcome = "running"

\* Some more documents turn out to be needed, before the caller is told of success.
Plan ==
  \E more \in SUBSET (Target \ planned) :
    /\ more # {}
    /\ outcome # "success"
    /\ planned' = planned \cup more
    /\ UNCHANGED <<written, failed, outcome>>

Write ==
  \E t \in planned \ (written \cup failed) :
    /\ \/ written' = written \cup {t} /\ UNCHANGED failed
       \/ failed' = failed \cup {t} /\ UNCHANGED written
    /\ UNCHANGED <<planned, outcome>>

Return ==
  /\ outcome = "running"
  /\ \/ planned = written /\ outcome' = "success"
     \/ failed # {} /\ outcome' = "failure"
  /\ UNCHANGED <<planned, written, failed>>

Next == Plan \/ Write \/ Return

Spec == Init /\ [][Next]_vars
=============================================================================
