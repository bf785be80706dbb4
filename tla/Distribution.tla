---------------------------- MODULE Distribution ----------------------------
(***************************************************************************)
(* distributeArticles (a1-webapp/distribution.go): one goroutine for each  *)
(* article looks up the subscribers of its source and starts one goroutine *)
(* for each of them, which sets the article in that user's feed.  Results  *)
(* come back over unbuffered channels: a send is one step with the receive *)
(* that takes it.  readSuccessFromChannel evaluates success && (<-channel),*)
(* so it stops receiving at the first failure, and those who have not sent *)
(* yet block for ever.                                                     *)
(***************************************************************************)
EXTENDS Naturals, FiniteSets

CONSTANTS
  Article,      \* the articles to distribute, at least one (updateTask checks)
  User,
  subscribers   \* [Article -> SUBSET User]: who follows FirstSource in this segment

ASSUME DistributionAssumption ==
  /\ subscribers \in [Article -> SUBSET User]
  /\ IsFiniteSet(Article)
  /\ IsFiniteSet(User)

VARIABLES
  uids,      \* [Article -> SUBSET User]: what getSubscribers returned
  dist,      \* [Article -> STRING]: the state of the goroutine of the article
  ok,        \* [Article -> BOOLEAN]: success of its readSuccessFromChannel
  got,       \* [Article -> SUBSET User]: the users whose result it has received
  setter,    \* [Article \X User -> STRING]: the goroutine of distributeArticleToUser
  feeds,     \* the <<article, user>> whose document is in Firestore
  handler,   \* distributeArticles itself: "reading", then "success" or "failure"
  heard      \* the articles whose result the handler has received

vars == <<uids, dist, ok, got, setter, feeds, handler, heard>>

Pair == Article \X User

TypeOK ==
  /\ uids \in [Article -> SUBSET User]
  /\ dist \in [Article -> {"query", "reading", "done"}]
  /\ ok \in [Article -> BOOLEAN]
  /\ got \in [Article -> SUBSET User]
  /\ setter \in [Pair -> {"none", "set", "ok", "failed", "done"}]
  /\ feeds \subseteq Pair
  /\ handler \in {"reading", "success", "failure"}
  /\ heard \subseteq Article

Init ==
  /\ uids = [a \in Article |-> {}]
  /\ dist = [a \in Article |-> "query"]
  /\ ok = [a \in Article |-> TRUE]
  /\ got = [a \in Article |-> {}]
  /\ setter = [p \in Pair |-> "none"]
  /\ feeds = {}
  /\ handler = "reading"
  /\ heard = {}

\* What getSubscribers may return: if the query fails the list is empty, and a
\* subscription that cannot be decoded is skipped.
Found(a) == SUBSET subscribers[a]

\* getSubscribers, then one go statement for each user.
Query(a) ==
  /\ dist[a] = "query"
  /\ dist' = [dist EXCEPT ![a] = "reading"]
  /\ \E found \in Found(a) :
       /\ uids' = [uids EXCEPT ![a] = found]
       /\ setter' = [p \in Pair |-> IF p[1] = a /\ p[2] \in found THEN "set" ELSE setter[p]]
  /\ UNCHANGED <<ok, got, feeds, handler, heard>>

\* distributeArticleToUser up to its send: Set succeeds or returns an error.
Set(p) ==
  /\ setter[p] = "set"
  /\ \/ /\ feeds' = feeds \cup {p}
        /\ setter' = [setter EXCEPT ![p] = "ok"]
     \/ /\ setter' = [setter EXCEPT ![p] = "failed"]
        /\ UNCHANGED feeds
  /\ UNCHANGED <<uids, dist, ok, got, handler, heard>>

\* The result of user u is sent and received, while success is still true.
UserResult(a, u) ==
  /\ dist[a] = "reading"
  /\ ok[a]
  /\ setter[<<a, u>>] \in {"ok", "failed"}
  /\ got' = [got EXCEPT ![a] = @ \cup {u}]
  /\ ok' = [ok EXCEPT ![a] = setter[<<a, u>>] = "ok"]
  /\ setter' = [setter EXCEPT ![<<a, u>>] = "done"]
  /\ UNCHANGED <<uids, dist, feeds, handler, heard>>

\* Mutants of ReadAll: one receive too few; no return before all are received,
\* although a failure ends the receiving.
ReadTooFew(count, success, received) ==
  Cardinality(received) + 1 >= Cardinality(count) \/ ~success
ReadToTheEnd(count, success, received) == received = count

\* A readSuccessFromChannel returns after count receives or after a failure.
ReadAll(count, success, received) == received = count \/ ~success

\* The result of article a is sent and received, while success is still true.
\* A failure, or the last success, ends distributeArticles.
ArticleResult(a) ==
  /\ dist[a] = "reading"
  /\ ReadAll(uids[a], ok[a], got[a])
  /\ handler = "reading"
  /\ dist' = [dist EXCEPT ![a] = "done"]
  /\ heard' = heard \cup {a}
  /\ handler' = IF ~ok[a] THEN "failure"
                ELSE IF heard' = Article THEN "success" ELSE "reading"
  /\ UNCHANGED <<uids, ok, got, setter, feeds>>

Next ==
  \/ \E a \in Article : Query(a) \/ ArticleResult(a)
  \/ \E p \in Pair : Set(p) \/ UserResult(p[1], p[2])

Spec == Init /\ [][Next]_vars

\* Goroutines run, Firestore calls return, and a receiver takes from one of the
\* senders that wait for it.
Fairness ==
  /\ \A a \in Article : WF_vars(Query(a))
  /\ \A p \in Pair : WF_vars(Set(p))
  /\ \A a \in Article : WF_vars(\E u \in User : UserResult(a, u))
  /\ WF_vars(\E a \in Article : ArticleResult(a))

FairSpec == Spec /\ Fairness
-----------------------------------------------------------------------------
(* Properties.                                                             *)

\* The goroutines that wait for a receiver which will never come back to them: those
\* of distributeArticleToUser whose article has stopped receiving, and those of
\* distributeArticle that have a result when the handler has stopped.
LeakedSetters ==
  {p \in Pair : /\ setter[p] \in {"ok", "failed"}
                /\ ~ok[p[1]] \/ dist[p[1]] = "done"}
LeakedArticles ==
  {a \in Article : /\ dist[a] = "reading"
                   /\ ReadAll(uids[a], ok[a], got[a])
                   /\ handler # "reading"}

\* When no failure is logged, every subscriber that was found has the article,
\* and no goroutine is left behind.
SuccessMeansWritten ==
  handler = "success" =>
    /\ \A a \in Article, u \in User : u \in uids[a] => <<a, u>> \in feeds
    /\ \A p \in Pair : setter[p] \in {"none", "done"}

\* Goroutines are stranded only by a failure.  One that writes to a feed is stranded
\* only by a failed write of its own article: an article without one hears all of
\* its writers, also when another has failed and the handler is gone.  The goroutine of
\* an article itself, even of one that succeeded, is stranded only when the handler
\* has heard of another article that failed.
LeaksOnlyAfterFailure ==
  /\ \A p \in LeakedSetters : ~ok[p[1]]
  /\ \A a \in LeakedArticles : \E b \in heard : b # a /\ ~ok[b]

\* distributeArticles returns although senders may block for ever: a failure in
\* one article never leaves it waiting for another.
HandlerReturns == <>(handler # "reading")

\* The promise made to updateTask: the documents are planned article by article,
\* written or failed once, and success is reported only when all are written.
Planned == {p \in Pair : p[2] \in uids[p[1]]}
Failed == {p \in Planned : setter[p] # "set" /\ p \notin feeds}
Outcome == IF handler = "reading" THEN "running" ELSE handler

Promise == INSTANCE FanOut WITH
  Target <- Pair, planned <- Planned, written <- feeds, failed <- Failed, outcome <- Outcome

KeepsPromise == Promise!Spec
=============================================================================
