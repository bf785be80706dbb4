------------------------ MODULE Distribution_proofs ------------------------
(***************************************************************************)
(* Distribution implements FanOut, it strands goroutines only after a      *)
(* failure, and its handler never waits for goroutines that are blocked,   *)
(* for any articles, users and subscriptions.                              *)
(***************************************************************************)
EXTENDS Distribution, FiniteSetTheorems, TLAPS

\* A goroutine of distributeArticleToUser exists for each user that was found, and
\* its state says what is in the feed and what its article has received.
Setters ==
  \A a \in Article, u \in User :
    /\ setter[<<a, u>>] = "none" <=> u \notin uids[a]
    /\ setter[<<a, u>>] = "done" <=> u \in got[a]
    /\ setter[<<a, u>>] \in {"none", "set", "failed"} => <<a, u>> \notin feeds
    /\ setter[<<a, u>>] = "ok" => <<a, u>> \in feeds
    /\ ok[a] /\ setter[<<a, u>>] = "done" => <<a, u>> \in feeds

\* An article has found nobody before its query, has really met the failure that it
\* reports, and reports only when it has heard of all or of a failure.
Articles ==
  \A a \in Article :
    /\ dist[a] = "query" => uids[a] = {} /\ ok[a]
    /\ ~ok[a] => \E u \in got[a] : <<a, u>> \notin feeds
    /\ dist[a] = "done" => got[a] = uids[a] \/ ~ok[a]
    /\ a \in heard <=> dist[a] = "done"

\* The handler reads on while all that it has heard of succeeded, and gives up when it
\* has heard of a failure.
Handler ==
  /\ handler \in {"reading", "success"} => \A a \in heard : ok[a]
  /\ handler = "failure" => \E a \in heard : ~ok[a]
  /\ handler = "success" => heard = Article

IInv == TypeOK /\ Setters /\ Articles /\ Handler

\* Initially nothing is found, written or heard.
LEMMA InitIInv == Init => IInv
  BY DEF Init, IInv, TypeOK, Setters, Articles, Handler, Pair

\* getSubscribers and the go statements keep the invariant.
LEMMA QueryStep == ASSUME IInv, NEW a \in Article, Query(a) PROVE IInv'
<1> USE DistributionAssumption
<1>1. PICK found \in SUBSET User :
        /\ uids' = [uids EXCEPT ![a] = found]
        /\ setter' = [p \in Pair |-> IF p[1] = a /\ p[2] \in found THEN "set" ELSE setter[p]]
  BY DEF Query, Found
<1>2. TypeOK'
  BY <1>1 DEF IInv, TypeOK, Query
<1>3. \A b \in Article, u \in User :
        setter'[<<b, u>>] = IF b = a /\ u \in found THEN "set" ELSE setter[<<b, u>>]
  BY <1>1 DEF Pair
<1>4. Setters'
  <2> SUFFICES ASSUME NEW b \in Article, NEW u \in User
               PROVE  /\ setter'[<<b, u>>] = "none" <=> u \notin uids'[b]
                      /\ setter'[<<b, u>>] = "done" <=> u \in got[b]
                      /\ setter'[<<b, u>>] \in {"none", "set", "failed"} => <<b, u>> \notin feeds
                      /\ setter'[<<b, u>>] = "ok" => <<b, u>> \in feeds
                      /\ ok[b] /\ setter'[<<b, u>>] = "done" => <<b, u>> \in feeds
    BY DEF Setters, Query
  <2>1. CASE b # a
    <3>1. setter'[<<b, u>>] = setter[<<b, u>>] /\ uids'[b] = uids[b]
      BY <1>1, <1>3, <2>1 DEF IInv, TypeOK
    <3> QED BY <3>1 DEF IInv, Setters
  <2>2. CASE b = a
    <3>1. setter[<<a, u>>] = "none" /\ u \notin got[a] /\ <<a, u>> \notin feeds
      BY DEF IInv, Setters, Articles, Query
    <3>2. uids'[a] = found
      BY <1>1 DEF IInv, TypeOK
    <3> QED BY <1>3, <2>2, <3>1, <3>2
  <2> QED BY <2>1, <2>2
<1>5. Articles' /\ Handler'
  BY <1>1 DEF IInv, TypeOK, Articles, Handler, Query
<1> QED BY <1>2, <1>4, <1>5 DEF IInv

\* distributeArticleToUser keeps the invariant, whether Set fails or not.
LEMMA SetStep == ASSUME IInv, NEW p \in Pair, Set(p) PROVE IInv'
<1>1. PICK a \in Article, u \in User : p = <<a, u>>
  BY DEF Pair
<1>2. TypeOK'
  BY DEF IInv, TypeOK, Set
<1>3. \A b \in Article, v \in User : <<b, v>> \in Pair /\ (<<b, v>> = p <=> b = a /\ v = u)
  BY <1>1 DEF Pair
<1>4. Setters'
  <2> SUFFICES ASSUME NEW b \in Article, NEW v \in User
               PROVE  /\ setter'[<<b, v>>] = "none" <=> v \notin uids[b]
                      /\ setter'[<<b, v>>] = "done" <=> v \in got[b]
                      /\ setter'[<<b, v>>] \in {"none", "set", "failed"} => <<b, v>> \notin feeds'
                      /\ setter'[<<b, v>>] = "ok" => <<b, v>> \in feeds'
                      /\ ok[b] /\ setter'[<<b, v>>] = "done" => <<b, v>> \in feeds'
    BY DEF Setters, Set
  <2>1. CASE <<b, v>> # p
    <3>1. setter'[<<b, v>>] = setter[<<b, v>>] /\ (<<b, v>> \in feeds' <=> <<b, v>> \in feeds)
      BY <1>3, <2>1 DEF IInv, TypeOK, Set
    <3> QED BY <3>1 DEF IInv, Setters
  <2>2. CASE <<b, v>> = p
    <3>1. v \in uids[b] /\ v \notin got[b] /\ p \notin feeds
      BY <2>2 DEF IInv, Setters, Set
    <3>2. \/ setter'[p] = "ok" /\ p \in feeds'
          \/ setter'[p] = "failed" /\ p \notin feeds'
      BY <3>1 DEF IInv, TypeOK, Set
    <3> QED BY <2>2, <3>1, <3>2
  <2> QED BY <2>1, <2>2
<1>5. u \notin got[a]
  BY <1>1 DEF IInv, Setters, Set
<1>6. Articles'
  <2> SUFFICES ASSUME NEW b \in Article, ~ok[b]
               PROVE  \E v \in got[b] : <<b, v>> \notin feeds'
    BY DEF IInv, Articles, Set
  <2>1. PICK v \in got[b] : <<b, v>> \notin feeds
    BY DEF IInv, Articles
  <2>2. v \in User
    BY DEF IInv, TypeOK
  <2>3. <<b, v>> # p
    BY <1>3, <1>5, <2>2
  <2> QED BY <2>1, <2>3 DEF Set
<1>7. Handler'
  BY DEF IInv, Handler, Set
<1> QED BY <1>2, <1>4, <1>6, <1>7 DEF IInv

\* A receive of an article from one of its users keeps the invariant.
LEMMA UserResultStep ==
  ASSUME IInv, NEW a \in Article, NEW u \in User, UserResult(a, u) PROVE IInv'
<1>1. TypeOK'
  BY DEF IInv, TypeOK, UserResult, Pair
<1>2. \A b \in Article, v \in User : <<b, v>> \in Pair /\ (<<b, v>> = <<a, u>> <=> b = a /\ v = u)
  BY DEF Pair
<1>3. Setters'
  BY <1>2 DEF IInv, TypeOK, Setters, UserResult
<1>4. Articles'
  <2>1. u \in uids[a] /\ (setter[<<a, u>>] = "failed" => <<a, u>> \notin feeds)
    BY DEF IInv, Setters, UserResult
  <2>2. dist[a] = "reading" /\ dist' = dist /\ uids' = uids /\ heard' = heard /\ feeds' = feeds
    BY DEF UserResult
  <2>3. \A b \in Article : b # a => got'[b] = got[b] /\ ok'[b] = ok[b]
    BY DEF IInv, TypeOK, UserResult
  <2>4. ~ok'[a] => u \in got'[a] /\ <<a, u>> \notin feeds
    BY <2>1 DEF IInv, TypeOK, UserResult
  <2> QED BY <2>2, <2>3, <2>4 DEF IInv, Articles
<1>5. Handler'
  BY DEF IInv, TypeOK, Articles, Handler, UserResult
<1> QED BY <1>1, <1>3, <1>4, <1>5 DEF IInv

\* A receive of the handler from an article keeps the invariant.
LEMMA ArticleResultStep == ASSUME IInv, NEW a \in Article, ArticleResult(a) PROVE IInv'
<1>1. TypeOK'
  BY DEF IInv, TypeOK, ArticleResult
<1>2. Setters'
  BY DEF IInv, Setters, ArticleResult
<1>3. Articles'
  BY DEF IInv, TypeOK, Articles, ArticleResult, ReadAll
<1>4. Handler'
  BY DEF IInv, TypeOK, Handler, ArticleResult
<1> QED BY <1>1, <1>2, <1>3, <1>4 DEF IInv

\* The invariant holds in every reachable state.
LEMMA Invariant == Spec => []IInv
<1>1. IInv /\ [Next]_vars => IInv'
  <2> SUFFICES ASSUME IInv, [Next]_vars PROVE IInv'
    OBVIOUS
  <2>1. ASSUME NEW a \in Article, Query(a) PROVE IInv'
    BY <2>1, QueryStep
  <2>2. ASSUME NEW a \in Article, ArticleResult(a) PROVE IInv'
    BY <2>2, ArticleResultStep
  <2>3. ASSUME NEW p \in Pair, Set(p) PROVE IInv'
    BY <2>3, SetStep
  <2>4. ASSUME NEW p \in Pair, UserResult(p[1], p[2]) PROVE IInv'
    <3>1. p[1] \in Article /\ p[2] \in User
      BY DEF Pair
    <3> QED BY <2>4, <3>1, UserResultStep
  <2>5. CASE UNCHANGED vars
    BY <2>5 DEF vars, IInv, TypeOK, Setters, Articles, Handler
  <2> QED BY <2>1, <2>2, <2>3, <2>4, <2>5 DEF Next
<1> QED BY InitIInv, <1>1, PTL DEF Spec
-----------------------------------------------------------------------------
\* The goroutines, channels and results of distributeArticles are well typed.
THEOREM TypeCorrect == Spec => []TypeOK
<1>1. IInv => TypeOK
  BY DEF IInv
<1> QED BY Invariant, <1>1, PTL

\* When distributeArticles reports success all that was found is written and no
\* goroutine waits.
THEOREM SuccessMeansWrittenHolds == Spec => []SuccessMeansWritten
<1>1. IInv => SuccessMeansWritten
  <2> SUFFICES ASSUME IInv, handler = "success",
                      NEW a \in Article, NEW u \in User
               PROVE  /\ u \in uids[a] => <<a, u>> \in feeds
                      /\ setter[<<a, u>>] \in {"none", "done"}
    BY DEF SuccessMeansWritten, Pair
  <2>1. got[a] = uids[a] /\ ok[a]
    BY DEF IInv, Handler, Articles
  <2> QED BY <2>1 DEF IInv, Setters
<1> QED BY Invariant, <1>1, PTL

\* Only a failed write of its own article strands a goroutine of
\* distributeArticleToUser, and only another article that failed and was heard of
\* strands one of distributeArticle.
THEOREM LeaksOnlyAfterFailureHolds == Spec => []LeaksOnlyAfterFailure
<1>1. IInv => LeaksOnlyAfterFailure
  <2> SUFFICES ASSUME IInv PROVE LeaksOnlyAfterFailure
    OBVIOUS
  <2>1. ASSUME NEW a \in Article, NEW u \in User, ok[a], dist[a] = "done"
        PROVE  setter[<<a, u>>] \notin {"ok", "failed"}
    <3>1. got[a] = uids[a]
      BY <2>1 DEF IInv, Articles
    <3> QED BY <3>1 DEF IInv, Setters
  <2>2. \A p \in LeakedSetters : ~ok[p[1]]
    BY <2>1 DEF LeakedSetters, Pair
  <2>3. ASSUME NEW a \in LeakedArticles PROVE \E b \in heard : b # a /\ ~ok[b]
    <3>1. a \in Article /\ a \notin heard
      BY DEF LeakedArticles, IInv, Articles
    <3>2. handler = "failure"
      BY <3>1 DEF LeakedArticles, IInv, TypeOK, Handler
    <3> QED BY <3>1, <3>2 DEF IInv, Handler
  <2> QED BY <2>2, <2>3 DEF LeaksOnlyAfterFailure
<1> QED BY Invariant, <1>1, PTL
-----------------------------------------------------------------------------
(* The refinement: each step is one of FanOut's or changes nothing there.  *)

\* The go statements plan the documents of their article.
LEMMA QueryPlans == ASSUME IInv, NEW a \in Article, Query(a) PROVE [Promise!Next]_Promise!vars
<1> USE DistributionAssumption
<1>1. PICK found \in SUBSET User :
        /\ uids' = [uids EXCEPT ![a] = found]
        /\ setter' = [p \in Pair |-> IF p[1] = a /\ p[2] \in found THEN "set" ELSE setter[p]]
  BY DEF Query, Found
<1> DEFINE more == {p \in Pair : p[1] = a /\ p[2] \in found}
<1>2. uids[a] = {} /\ handler # "success"
  BY DEF IInv, Articles, Handler, Query
<1>3. Planned' = Planned \cup more /\ more \cap Planned = {}
  BY <1>1, <1>2 DEF Planned, IInv, TypeOK, Pair
<1>4. \A p \in Pair : setter'[p] = IF p \in more THEN "set" ELSE setter[p]
  BY <1>1
<1>5. Failed' = Failed
  BY <1>3, <1>4 DEF Failed, Planned, Query
<1>6. feeds' = feeds /\ Outcome' = Outcome /\ Outcome # "success"
  BY <1>2 DEF Query, Outcome
<1>7. CASE more = {}
  BY <1>3, <1>5, <1>6, <1>7 DEF Promise!vars
<1>8. CASE more # {}
  BY <1>3, <1>5, <1>6, <1>8 DEF Promise!Next, Promise!Plan
<1> QED BY <1>7, <1>8

\* Set writes or fails one document.
LEMMA SetWrites == ASSUME IInv, NEW p \in Pair, Set(p) PROVE [Promise!Next]_Promise!vars
<1>1. PICK a \in Article, u \in User : p = <<a, u>>
  BY DEF Pair
<1>2. p \in Planned \ (feeds \cup Failed)
  BY <1>1 DEF Planned, Failed, IInv, Setters, Set
<1>3. Planned' = Planned /\ Outcome' = Outcome
  BY DEF Planned, Outcome, Set
<1>4. \/ feeds' = feeds \cup {p} /\ Failed' = Failed
      \/ Failed' = Failed \cup {p} /\ feeds' = feeds
  BY <1>2, <1>3 DEF Failed, Planned, Set, IInv, TypeOK
<1> QED BY <1>2, <1>3, <1>4 DEF Promise!Next, Promise!Write

\* A receive of an article changes nothing that FanOut speaks of.
LEMMA UserResultStutters ==
  ASSUME IInv, NEW a \in Article, NEW u \in User, UserResult(a, u)
  PROVE  UNCHANGED Promise!vars
<1>1. Planned' = Planned /\ Outcome' = Outcome /\ feeds' = feeds
  BY DEF Planned, Outcome, UserResult
<1>2. \A p \in Pair : setter'[p] # "set" <=> setter[p] # "set"
  BY DEF IInv, TypeOK, UserResult
<1>3. Failed' = Failed
  BY <1>1, <1>2 DEF Failed, Planned
<1> QED BY <1>1, <1>3 DEF Promise!vars

\* The handler returns only as FanOut allows.
LEMMA ArticleResultReturns ==
  ASSUME IInv, NEW a \in Article, ArticleResult(a) PROVE [Promise!Next]_Promise!vars
<1>1. Planned' = Planned /\ feeds' = feeds /\ Failed' = Failed /\ Outcome = "running"
  BY DEF Planned, Failed, Outcome, ArticleResult
<1>2. CASE ~ok[a]
  <2>1. PICK u \in got[a] : <<a, u>> \notin feeds
    BY <1>2 DEF IInv, Articles
  <2>2. u \in User
    BY DEF IInv, TypeOK
  <2>3. <<a, u>> \in Failed
    BY <2>1, <2>2 DEF Failed, Planned, Pair, IInv, Setters
  <2>4. Outcome' = "failure"
    BY <1>2 DEF Outcome, ArticleResult
  <2> QED BY <1>1, <2>3, <2>4 DEF Promise!Next, Promise!Return
<1>3. CASE ok[a] /\ heard' # Article
  BY <1>1, <1>3 DEF ArticleResult, Outcome, Promise!vars
<1>4. CASE ok[a] /\ heard' = Article
  <2>1. \A b \in Article : ok[b] /\ got[b] = uids[b]
    BY <1>4 DEF IInv, Articles, Handler, ArticleResult, ReadAll
  <2>2. \A b \in Article, u \in User : u \in uids[b] <=> <<b, u>> \in feeds
    BY <2>1 DEF IInv, TypeOK, Setters, Pair
  <2>3. Planned = feeds
    BY <2>2 DEF Planned, IInv, TypeOK, Pair
  <2>4. Outcome' = "success"
    BY <1>4 DEF Outcome, ArticleResult
  <2> QED BY <1>1, <2>3, <2>4 DEF Promise!Next, Promise!Return
<1> QED BY <1>2, <1>3, <1>4

\* distributeArticles keeps the promise of FanOut: success is reported only when
\* every document that was planned is written, and failure only after one failed.
THEOREM ImplementsFanOut == Spec => KeepsPromise
<1>1. Init => Promise!Init
  BY DEF Init, Promise!Init, Planned, Failed, Outcome, Pair
<1>2. IInv /\ [Next]_vars => [Promise!Next]_Promise!vars
  <2> SUFFICES ASSUME IInv, [Next]_vars PROVE [Promise!Next]_Promise!vars
    OBVIOUS
  <2>1. ASSUME NEW a \in Article, Query(a) PROVE [Promise!Next]_Promise!vars
    BY <2>1, QueryPlans
  <2>2. ASSUME NEW a \in Article, ArticleResult(a) PROVE [Promise!Next]_Promise!vars
    BY <2>2, ArticleResultReturns
  <2>3. ASSUME NEW p \in Pair, Set(p) PROVE [Promise!Next]_Promise!vars
    BY <2>3, SetWrites
  <2>4. ASSUME NEW p \in Pair, UserResult(p[1], p[2]) PROVE [Promise!Next]_Promise!vars
    <3>1. p[1] \in Article /\ p[2] \in User
      BY DEF Pair
    <3> QED BY <2>4, <3>1, UserResultStutters
  <2>5. CASE UNCHANGED vars
    BY <2>5 DEF vars, Promise!vars, Planned, Failed, Outcome
  <2> QED BY <2>1, <2>2, <2>3, <2>4, <2>5 DEF Next
<1> QED BY Invariant, <1>1, <1>2, PTL DEF Spec, KeepsPromise, Promise!Spec
-----------------------------------------------------------------------------
(***************************************************************************)
(* The handler returns, as far as this can be said without fairness: while *)
(* it reads some goroutine can take a step, and there is an end to steps.  *)
(***************************************************************************)

\* A goroutine of article a has a step to take: its query, a Set, a result of a user
\* that is received, or its own result, for which the handler waits.
CanGoOn(a) ==
  \/ dist[a] = "query"
  \/ dist[a] = "reading" /\ ReadAll(uids[a], ok[a], got[a])
  \/ dist[a] = "reading" /\ ok[a] /\ \E u \in User : setter[<<a, u>>] \in {"set", "ok", "failed"}

\* The handler reads only while there is an article that it has not heard of.
Unheard == handler = "reading" => heard # Article

\* It returns when it has heard of the last one.
LEMMA UnheardStep == Unheard /\ [Next]_vars => Unheard'
<1> SUFFICES ASSUME Unheard, [Next]_vars PROVE Unheard'
  OBVIOUS
<1>1. ASSUME NEW a \in Article, Query(a) PROVE Unheard'
  BY <1>1 DEF Unheard, Query
<1>2. ASSUME NEW a \in Article, ArticleResult(a) PROVE Unheard'
  BY <1>2 DEF Unheard, ArticleResult
<1>3. ASSUME NEW p \in Pair, Set(p) \/ UserResult(p[1], p[2]) PROVE Unheard'
  BY <1>3 DEF Unheard, Set, UserResult
<1>4. CASE UNCHANGED vars
  BY <1>4 DEF Unheard, vars
<1> QED BY <1>1, <1>2, <1>3, <1>4 DEF Next

\* Although readSuccessFromChannel leaves senders blocked for ever, distributeArticles
\* never waits for goroutines that are all blocked: each article that it has not heard
\* of has a step to take.
THEOREM HandlerIsNeverStuck ==
  ASSUME Article # {}
  PROVE  Spec => [](handler = "reading" =>
                      /\ \E a \in Article : dist[a] # "done"
                      /\ \A a \in Article : dist[a] # "done" => CanGoOn(a))
<1>1. Init => Unheard
  BY DEF Init, Unheard
<1>2. ASSUME IInv, NEW a \in Article, dist[a] # "done" PROVE CanGoOn(a)
  <2>1. CASE dist[a] # "query" /\ ok[a] /\ got[a] # uids[a]
    <3>1. got[a] \subseteq uids[a]
      BY <1>2 DEF IInv, TypeOK, Setters
    <3>2. PICK u \in User : u \in uids[a] /\ u \notin got[a]
      BY <1>2, <2>1, <3>1 DEF IInv, TypeOK
    <3>3. setter[<<a, u>>] \in {"set", "ok", "failed"}
      BY <1>2, <3>2 DEF IInv, TypeOK, Setters, Pair
    <3> QED BY <1>2, <2>1, <3>3 DEF CanGoOn, IInv, TypeOK
  <2> QED BY <1>2, <2>1 DEF CanGoOn, ReadAll, IInv, TypeOK
<1>3. IInv /\ Unheard => (handler = "reading" =>
                            /\ \E a \in Article : dist[a] # "done"
                            /\ \A a \in Article : dist[a] # "done" => CanGoOn(a))
  <2> SUFFICES ASSUME IInv, Unheard, handler = "reading" PROVE \E a \in Article : dist[a] # "done"
    BY <1>2
  <2> QED BY DEF IInv, TypeOK, Articles, Unheard
<1> QED BY Invariant, UnheardStep, <1>1, <1>3, PTL DEF Spec

\* What goroutines do for good: query, report an article, call Set, report a user.
Events == ({"query", "result"} \X Article) \cup ({"set", "taken"} \X Pair)
Done ==
  {<<"query", a>> : a \in {b \in Article : dist[b] # "query"}}
  \cup {<<"result", a>> : a \in {b \in Article : dist[b] = "done"}}
  \cup {<<"set", p>> : p \in {q \in Pair : setter[q] \in {"ok", "failed", "done"}}}
  \cup {<<"taken", p>> : p \in {q \in Pair : setter[q] = "done"}}

\* There are finitely many of these.
LEMMA EventsAreFinite == IsFiniteSet(Events)
<1>1. IsFiniteSet(Pair)
  BY DistributionAssumption, FS_Product DEF Pair
<1>2. \A x, y : IsFiniteSet({x} \cup {y})
  BY FS_Singleton, FS_Union
<1>3. {"query", "result"} = {"query"} \cup {"result"} /\ {"set", "taken"} = {"set"} \cup {"taken"}
  OBVIOUS
<1>4. IsFiniteSet({"query", "result"} \X Article) /\ IsFiniteSet({"set", "taken"} \X Pair)
  BY <1>1, <1>2, <1>3, DistributionAssumption, FS_Product
<1> QED BY <1>4, FS_Union DEF Events

\* A step that finishes something and undoes nothing adds to Done.
LEMMA DoneGrows ==
  ASSUME \A a \in Article : /\ dist[a] # "query" => dist'[a] # "query"
                            /\ dist[a] = "done" => dist'[a] = "done",
         \A p \in Pair : /\ setter[p] \in {"ok", "failed", "done"} => setter'[p] \in {"ok", "failed", "done"}
                         /\ setter[p] = "done" => setter'[p] = "done",
         \/ \E a \in Article : \/ dist[a] = "query" /\ dist'[a] # "query"
                               \/ dist[a] # "done" /\ dist'[a] = "done"
         \/ \E p \in Pair : \/ setter[p] = "set" /\ setter'[p] \in {"ok", "failed"}
                            \/ setter[p] # "done" /\ setter'[p] = "done"
  PROVE  Done \subseteq Done' /\ Done' # Done
<1>1. Done \subseteq Done'
  BY DEF Done
<1>2. ASSUME NEW a \in Article, dist[a] = "query", dist'[a] # "query" PROVE Done' # Done
  <2>1. <<"query", a>> \in Done' /\ <<"query", a>> \notin Done
    BY <1>2 DEF Done
  <2> QED BY <2>1
<1>3. ASSUME NEW a \in Article, dist[a] # "done", dist'[a] = "done" PROVE Done' # Done
  <2>1. <<"result", a>> \in Done' /\ <<"result", a>> \notin Done
    BY <1>3 DEF Done
  <2> QED BY <2>1
<1>4. ASSUME NEW p \in Pair, setter[p] = "set", setter'[p] \in {"ok", "failed"} PROVE Done' # Done
  <2>1. <<"set", p>> \in Done' /\ <<"set", p>> \notin Done
    BY <1>4 DEF Done
  <2> QED BY <2>1
<1>5. ASSUME NEW p \in Pair, setter[p] # "done", setter'[p] = "done" PROVE Done' # Done
  <2>1. <<"taken", p>> \in Done' /\ <<"taken", p>> \notin Done
    BY <1>5 DEF Done
  <2> QED BY <2>1
<1> QED BY <1>1, <1>2, <1>3, <1>4, <1>5

\* Every step of every goroutine does one of finitely many things for good.  With
\* HandlerIsNeverStuck this is why the handler returns if goroutines run: blocked
\* senders do not keep the others busy, and nothing is tried again.
THEOREM StepsComeToAnEnd ==
  Spec => /\ [](IsFiniteSet(Events) /\ Done \subseteq Events)
          /\ [][Done \subseteq Done' /\ Done' # Done]_vars
<1>1. IsFiniteSet(Events) /\ Done \subseteq Events
  BY EventsAreFinite DEF Events, Done
<1>2. ASSUME IInv, [Next]_vars PROVE [Done \subseteq Done' /\ Done' # Done]_vars
  <2>1. ASSUME NEW a \in Article, Query(a) PROVE Done \subseteq Done' /\ Done' # Done
    <3>1. dist' = [dist EXCEPT ![a] = "reading"] /\ dist[a] = "query"
      BY <2>1 DEF Query
    <3>2. \A p \in Pair : setter[p] \in {"ok", "failed", "done"} => setter'[p] = setter[p]
      <4>1. \A u \in User : setter[<<a, u>>] = "none"
        BY <1>2, <3>1 DEF IInv, Setters, Articles
      <4>2. \A p \in Pair : setter[p] # "none" => p[1] # a
        BY <4>1 DEF Pair
      <4> QED BY <2>1, <4>2 DEF Query
    <3> QED BY <1>2, <3>1, <3>2, DoneGrows DEF IInv, TypeOK
  <2>2. ASSUME NEW a \in Article, ArticleResult(a) PROVE Done \subseteq Done' /\ Done' # Done
    BY <1>2, <2>2, DoneGrows DEF ArticleResult, IInv, TypeOK
  <2>3. ASSUME NEW p \in Pair, Set(p) PROVE Done \subseteq Done' /\ Done' # Done
    BY <1>2, <2>3, DoneGrows DEF Set, IInv, TypeOK
  <2>4. ASSUME NEW p \in Pair, UserResult(p[1], p[2]) PROVE Done \subseteq Done' /\ Done' # Done
    <3>1. p = <<p[1], p[2]>>
      BY DEF Pair
    <3>2. setter[p] \in {"ok", "failed"} /\ setter' = [setter EXCEPT ![p] = "done"] /\ UNCHANGED dist
      BY <2>4, <3>1 DEF UserResult
    <3> QED BY <1>2, <3>2, DoneGrows DEF IInv, TypeOK
  <2> QED BY <1>2, <2>1, <2>2, <2>3, <2>4 DEF Next
<1> QED BY Invariant, <1>1, <1>2, PTL DEF Spec
=============================================================================
