--------------------------- MODULE Pipeline_proofs ---------------------------
(***************************************************************************)
(* What updates hand on has its content, an update without failures gives  *)
(* all it returns to all subscribers, nobody gets what he did not ask for, *)
(* and without failures nobody misses what an update has ingested, for any *)
(* sources, users, links, requests and tweets.                             *)
(***************************************************************************)
EXTENDS Pipeline, FiniteSetTheorems, TLAPS

\* The map that a request starts with is a map, and empty.
LEMMA NoArticles == noArticles \in ArticleMap /\ Keys(noArticles) = {}
BY DEF noArticles, ArticleMap, Keys

\* A request begins in a well-typed state.
LEMMA NewJobType ==
  ASSUME NEW pc \in {"idle", "follow", "timeline", "find", "create", "distribute", "done"},
         NEW runs \in 0..MaxRuns
  PROVE  NewJob(pc, runs) \in JobState
BY NoArticles DEF NewJob, JobState

\* normalizeUrl gives every stub an URL.
LEMMA UrlType == ASSUME NEW stub \in Stub PROVE UrlOf(stub) \in Url /\ stub.source \in Source
BY PipelineAssumption DEF UrlOf, Stub

\* The tweets with a link that there have been.
Tweeted == articleStubsFromTweets(Range(tweets))

\* Tweets that have a link are stubs.
LEMMA TweetedType == ASSUME tweets \in Seq(Status) PROVE Tweeted \subseteq Stub
<1>1. Range(tweets) \subseteq Status
  BY DEF Range
<1> QED
  BY <1>1, PipelineAssumption DEF Tweeted, articleStubsFromTweets, Stub

\* A timeline has only tweets that there have been, of the sources asked for.
LEMMA NewestTweeted ==
  ASSUME NEW sources, NEW count
  PROVE  /\ articleStubsFromTweets(Newest(sources, count)) \subseteq Tweeted
         /\ \A stub \in articleStubsFromTweets(Newest(sources, count)) : stub.source \in sources
BY DEF Newest, Tweeted, articleStubsFromTweets, Range
-----------------------------------------------------------------------------
(* The inductive invariant.                                                *)

\* Only subscriptions follow.  The stubs of a request are from tweets, unless they were
\* typed; those of a subscription are from its source.
Stubs(j) ==
  /\ job[j].pc = "follow" => j \in Subscribe
  /\ j \notin Test => job[j].stubs \subseteq Tweeted
  /\ j \in Subscribe => \A stub \in job[j].stubs : stub.source = handle[j]

\* Goroutines work on the stubs of their request.
Working(j) ==
  /\ job[j].finding \subseteq job[j].stubs
  /\ job[j].saving \subseteq job[j].stubs
  /\ job[j].storing \subseteq job[j].stubs

\* What a request has found or made is of its stubs, and what it has made has the
\* source of one.
Results(j) ==
  /\ \A url \in Keys(job[j].existing) : \E stub \in job[j].stubs : UrlOf(stub) = url
  /\ \A url \in Keys(job[j].result) : \E stub \in job[j].stubs :
       UrlOf(stub) = url /\ (j \in Update => job[j].result[url] = stub.source)

\* Only while it distributes has a request deliveries to make: an update to
\* subscribers of the source of an article, a subscription to its user.
Deliveries(j) ==
  /\ job[j].pc # "distribute" => job[j].todo = {} /\ job[j].asking = {}
  /\ job[j].asking # {} => j \in Update
  /\ job[j].asking \subseteq Keys(job[j].result)
  /\ job[j].todo \subseteq User \X Keys(job[j].result)
  /\ j \in Update => \A d \in job[j].todo : <<d[1], job[j].result[d[2]]>> \in subs
  /\ j \notin Update => j \in Subscribe \/ job[j].todo = {}
  /\ j \in Subscribe => \A d \in job[j].todo : d[1] = user[j]

\* A request that has nothing yet.
Fresh(r) ==
  /\ r.stubs = {} /\ r.finding = {} /\ r.saving = {} /\ r.storing = {}
  /\ r.existing = noArticles /\ r.result = noArticles
  /\ r.asking = {} /\ r.todo = {} /\ r.failed = FALSE

\* So is one that has not read its timeline.
Early(j) == job[j].pc \in {"idle", "follow", "timeline"} => Fresh(job[j])

Sound(j) == Early(j) /\ Stubs(j) /\ Working(j) /\ Results(j) /\ Deliveries(j)

\* An update that distributes has no article left out so far.
Complete(j) ==
  /\ job[j].failed => ~job[j].clean
  /\ job[j].pc \in {"distribute", "done"} /\ job[j].clean =>
       \A url \in Keys(job[j].result) \ job[j].asking, u \in User :
         <<u, job[j].result[url]>> \in Subscribed =>
           <<u, url>> \in job[j].todo \/ feeds[<<u, url>>] # None

IInv ==
  /\ TypeOK
  /\ Subscribed \subseteq subs
  /\ \A j \in Job : Sound(j)
  /\ \A j \in Update : Complete(j)
  /\ UpdatesDeliverContent
  /\ FeedsAreWanted
-----------------------------------------------------------------------------
(* What all steps have in common.                                          *)

\* Request j takes a step that leaves it in state r.
LEMMA JobStep ==
  ASSUME TypeOK, NEW j \in Job, NEW r \in JobState, job' = [job EXCEPT ![j] = r]
  PROVE  /\ job' \in [Job -> JobState]
         /\ job'[j] = r
         /\ \A i \in Job \ {j} : job'[i] = job[i]
BY DEF TypeOK

\* The stores that only grow.
Grows ==
  /\ Tweeted \subseteq Tweeted'
  /\ subs \subseteq subs'
  /\ contents \subseteq contents'
  /\ \A u \in User, url \in Url : feeds[<<u, url>>] # None => feeds'[<<u, url>>] # None

\* That a user has asked for an article.
Wanted(u, url) ==
  \E s \in TweetedBy(url) :
    \/ <<u, s>> \in subs
    \/ \E j \in Subscribe : user[j] = u /\ handle[j] = s /\ ~At(j, "idle")

\* No request becomes idle.
Started == \A i \in Job : job[i].pc # "idle" => job'[i].pc # "idle"

\* What a user has asked for he has asked for later on too.
LEMMA WantedGrows ==
  ASSUME Grows, Started, NEW u, NEW url, Wanted(u, url)
  PROVE  Wanted(u, url)'
<1>1. TweetedBy(url) \subseteq TweetedBy(url)'
  BY DEF Grows, TweetedBy, Tweeted, UrlOf
<1>2. subs \subseteq subs' /\ \A j \in Subscribe : ~At(j, "idle") => ~At(j, "idle")'
  BY DEF Grows, Started, At, Job
<1> QED
  BY <1>1, <1>2 DEF Wanted

\* A request that takes no step is as it was.
LEMMA OthersKeep ==
  ASSUME IInv, Grows, NEW i \in Job, job'[i] = job[i]
  PROVE  Sound(i)' /\ (i \in Update => Complete(i)')
<1>1. Sound(i) /\ (i \in Update => Complete(i))
  BY DEF IInv
<1>2. Stubs(i)'
  BY <1>1 DEF Sound, Stubs, Grows
<1>3. Working(i)' /\ Early(i)'
  BY <1>1 DEF Sound, Working, Early, Fresh
<1>4. Results(i)'
  BY <1>1 DEF Sound, Results, Keys, UrlOf
<1>5. Deliveries(i)'
  BY <1>1 DEF Sound, Deliveries, Keys, Grows
<1>6. ASSUME i \in Update PROVE Complete(i)'
  <2>1. \A url \in Keys(job[i].result) : url \in Url
    BY DEF Keys
  <2> QED
    BY <1>1, <1>6, <2>1 DEF Complete, Keys, Grows
<1> QED
  BY <1>2, <1>3, <1>4, <1>5, <1>6 DEF Sound

\* A step of request j keeps the invariant if it does so for j and delivers only what
\* is wanted.
LEMMA StepKeeps ==
  ASSUME IInv, TypeOK', Grows, Started, NEW j \in Job,
         \A i \in Job \ {j} : job'[i] = job[i],
         Sound(j)',
         j \in Update => Complete(j)' /\ Keys(job'[j].result) \subseteq contents',
         \A u \in User, url \in Url : feeds'[<<u, url>>] = feeds[<<u, url>>] \/ Wanted(u, url)
  PROVE  IInv'
<1>1. \A i \in Job : Sound(i)' /\ (i \in Update => Complete(i)')
  BY OthersKeep
<1>2. Subscribed \subseteq subs'
  BY DEF IInv, Grows
<1>3. UpdatesDeliverContent'
  BY DEF IInv, UpdatesDeliverContent, Grows, Keys, Job
<1>4. ASSUME NEW u \in User, NEW url \in Url, feeds'[<<u, url>>] # None PROVE Wanted(u, url)'
  <2>1. Wanted(u, url)
    BY <1>4 DEF IInv, FeedsAreWanted, Wanted
  <2> QED
    BY <2>1, WantedGrows
<1>5. FeedsAreWanted'
  BY <1>4 DEF FeedsAreWanted, Wanted
<1>6. \A i \in Update : i \in Job
  BY DEF Job
<1> QED
  BY <1>1, <1>2, <1>3, <1>5, <1>6 DEF IInv

\* Tweets, subscriptions, contents and feeds are as they were.
LEMMA NothingGrows ==
  ASSUME UNCHANGED <<tweets, subs, contents, feeds>>
  PROVE  /\ Grows
         /\ \A u \in User, url \in Url : feeds'[<<u, url>>] = feeds[<<u, url>>] \/ Wanted(u, url)
BY DEF Grows, Tweeted, articleStubsFromTweets, Range
-----------------------------------------------------------------------------
(* One lemma for each action.                                              *)

\* A request that has only just begun, or begun anew, is sound.
LEMMA FreshIsSound ==
  ASSUME NEW j \in Job, Fresh(job[j]), job[j].pc = "follow" => j \in Subscribe
  PROVE  Sound(j) /\ Complete(j) /\ Keys(job[j].result) = {}
<1>1. Keys(job[j].existing) = {} /\ Keys(job[j].result) = {}
  BY NoArticles DEF Fresh
<1>2. Early(j) /\ Stubs(j) /\ Working(j) /\ Results(j) /\ Deliveries(j) /\ Complete(j)
  BY <1>1 DEF Early, Fresh, Stubs, Working, Results, Deliveries, Complete
<1> QED
  BY <1>1, <1>2 DEF Sound

\* The same of a request that a step has begun.
LEMMA BegunIsSound ==
  ASSUME NEW j \in Job, Fresh(job'[j]), job'[j].pc = "follow" => j \in Subscribe
  PROVE  Sound(j)' /\ Complete(j)' /\ Keys(job'[j].result) = {}
<1>1. Keys(job'[j].existing) = {} /\ Keys(job'[j].result) = {}
  BY NoArticles DEF Fresh
<1>2. Early(j)' /\ Stubs(j)' /\ Working(j)' /\ Results(j)' /\ Deliveries(j)' /\ Complete(j)'
  BY <1>1 DEF Early, Fresh, Stubs, Working, Results, Deliveries, Complete, Keys
<1> QED
  BY <1>1, <1>2 DEF Sound

\* The actions that begin a request, and Crash.
LEMMA BeginKeeps ==
  ASSUME IInv, NEW j \in Job, NEW pc \in {"follow", "timeline", "done"}, NEW runs \in 0..MaxRuns,
         pc = "follow" => j \in Subscribe,
         NEW r \in {NewJob(pc, runs), [NewJob(pc, runs) EXCEPT !.clean = FALSE]},
         job' = [job EXCEPT ![j] = r],
         subs' \subseteq User \X Source, subs \subseteq subs', faults' \in 0..MaxFaults,
         UNCHANGED <<tweets, followed, articles, contents, feeds, warm, ingested>>
  PROVE  IInv'
<1>1. r \in JobState /\ Fresh(r) /\ r.pc = pc
  <2>1. NewJob(pc, runs) \in JobState
    BY NewJobType
  <2>2. Fresh(NewJob(pc, runs)) /\ NewJob(pc, runs).pc = pc
    BY DEF NewJob, Fresh
  <2> QED
    BY <2>1, <2>2 DEF JobState, Fresh
<1>2. job' \in [Job -> JobState] /\ job'[j] = r /\ \A i \in Job \ {j} : job'[i] = job[i]
  BY <1>1, JobStep DEF IInv
<1>3. TypeOK'
  BY <1>2 DEF IInv, TypeOK
<1>4. Grows
  BY DEF Grows, Tweeted, articleStubsFromTweets, Range
<1>5. Sound(j)' /\ Complete(j)' /\ Keys(job'[j].result) = {}
  <2>1. Fresh(job'[j]) /\ (job'[j].pc = "follow" => j \in Subscribe)
    BY <1>1, <1>2
  <2> QED
    BY <2>1, BegunIsSound
<1>6. Started
  BY <1>1, <1>2 DEF Started
<1> QED
  BY <1>2, <1>3, <1>4, <1>5, <1>6, StepKeeps

\* Requests begin, and crash, with nothing.
LEMMA StartKeeps ==
  ASSUME IInv, NEW j \in Job, StartUpdate(j) \/ StartSubscribe(j) \/ StartSourceTest(j) \/ Crash(j)
  PROVE  IInv'
<1>1. 1 \in 0..MaxRuns
  BY PipelineAssumption
<1>2. job[j].runs \in 0..MaxRuns /\ subs \subseteq User \X Source /\ faults \in 0..MaxFaults
  <2>1. job[j] \in JobState /\ subs \subseteq User \X Source /\ faults \in 0..MaxFaults
    BY DEF IInv, TypeOK
  <2> QED
    BY <2>1 DEF JobState
<1>3. CASE StartUpdate(j)
  <2>1. job[j].runs + 1 \in 0..MaxRuns
    BY <1>2, <1>3, PipelineAssumption DEF StartUpdate
  <2>2. job' = [job EXCEPT ![j] = NewJob("timeline", job[j].runs + 1)]
    BY <1>3 DEF StartUpdate
  <2>3. UNCHANGED <<subs, faults, tweets, followed, articles, contents, feeds, warm, ingested>>
    BY <1>3 DEF StartUpdate, store
  <2> QED
    BY <1>2, <2>1, <2>2, <2>3, BeginKeeps
<1>4. CASE StartSubscribe(j)
  <2>1. PICK r \in {NewJob("follow", 1), [NewJob("follow", 1) EXCEPT !.clean = FALSE]} :
          job' = [job EXCEPT ![j] = r]
    BY <1>4 DEF StartSubscribe
  <2>2. subs' \subseteq User \X Source /\ subs \subseteq subs'
    BY <1>2, <1>4, PipelineAssumption DEF StartSubscribe
  <2>3. faults' \in 0..MaxFaults
    BY <1>2, <1>4, PipelineAssumption DEF StartSubscribe, Fault, NoFault
  <2>4. j \in Subscribe /\ UNCHANGED <<tweets, followed, articles, contents, feeds, warm, ingested>>
    BY <1>4 DEF StartSubscribe
  <2> QED
    BY <1>1, <2>1, <2>2, <2>3, <2>4, BeginKeeps
<1>5. CASE StartSourceTest(j)
  <2>1. job' = [job EXCEPT ![j] = NewJob("timeline", 1)]
    BY <1>5 DEF StartSourceTest
  <2>2. UNCHANGED <<subs, faults, tweets, followed, articles, contents, feeds, warm, ingested>>
    BY <1>5 DEF StartSourceTest, store
  <2> QED
    BY <1>1, <1>2, <2>1, <2>2, BeginKeeps
<1>6. CASE Crash(j)
  <2>1. faults' \in 0..MaxFaults
    BY <1>2, <1>6, PipelineAssumption DEF Crash, Fault
  <2>2. UNCHANGED <<subs, tweets, followed, articles, contents, feeds, warm, ingested>>
    BY <1>6 DEF Crash, store
  <2>3. CASE j \in Update
    <3>1. job' = [job EXCEPT ![j] = NewJob("timeline", job[j].runs)]
      BY <1>6, <2>3 DEF Crash
    <3> QED
      BY <1>2, <2>1, <2>2, <3>1, BeginKeeps
  <2>4. CASE j \notin Update
    <3>1. job' = [job EXCEPT ![j] = [NewJob("done", 1) EXCEPT !.clean = FALSE]]
      BY <1>6, <2>4 DEF Crash
    <3> QED
      BY <1>1, <1>2, <2>1, <2>2, <3>1, BeginKeeps
  <2> QED
    BY <2>3, <2>4
<1> QED
  BY <1>3, <1>4, <1>5, <1>6

\* The state r of a request that has nothing to deliver yet.
Collecting(j, r) ==
  /\ r \in JobState
  /\ r.pc = "timeline" => Fresh(r)
  /\ r.pc \in {"timeline", "find", "create"} \/ (r.pc = "done" /\ (j \in Update => ~r.clean))
  /\ r.todo = {} /\ r.asking = {}
  /\ j \in Update => (r.failed => ~r.clean)
  /\ j \notin Test => r.stubs \subseteq Tweeted
  /\ j \in Subscribe => \A stub \in r.stubs : stub.source = handle[j]
  /\ r.finding \subseteq r.stubs /\ r.saving \subseteq r.stubs /\ r.storing \subseteq r.stubs
  /\ \A url \in Keys(r.existing) : \E stub \in r.stubs : UrlOf(stub) = url
  /\ \A url \in Keys(r.result) : \E stub \in r.stubs :
       UrlOf(stub) = url /\ (j \in Update => r.result[url] = stub.source)

\* Follow, Timeline, StartIngestTest and what ingestArticles does.
LEMMA CollectKeeps ==
  ASSUME IInv, NEW j \in Job, NEW r, Collecting(j, r), job' = [job EXCEPT ![j] = r],
         j \in Update => Keys(r.result) \subseteq contents',
         articles' \in ArticleMap, contents \subseteq contents', contents' \subseteq Url,
         followed' \subseteq Source, faults' \in 0..MaxFaults, ingested' \subseteq Job \X Url,
         UNCHANGED <<tweets, subs, feeds, warm>>
  PROVE  IInv'
<1>1. job' \in [Job -> JobState] /\ job'[j] = r /\ \A i \in Job \ {j} : job'[i] = job[i]
  BY JobStep DEF IInv, Collecting
<1>2. TypeOK'
  BY <1>1 DEF IInv, TypeOK
<1>3. Grows /\ Tweeted' = Tweeted
  BY DEF Grows, Tweeted, articleStubsFromTweets, Range
<1>4. Early(j)' /\ Stubs(j)' /\ Working(j)'
  BY <1>1, <1>3 DEF Collecting, Early, Fresh, Stubs, Working
<1>5. Results(j)'
  BY <1>1 DEF Collecting, Results, Keys, UrlOf
<1>6. Deliveries(j)' /\ (j \in Update => Complete(j)')
  BY <1>1 DEF Collecting, Deliveries, Complete
<1>7. Started
  BY <1>1 DEF Started, Collecting
<1>8. Sound(j)'
  BY <1>4, <1>5, <1>6 DEF Sound
<1> QED
  BY <1>1, <1>2, <1>3, <1>6, <1>7, <1>8, StepKeeps

\* What is known of a request that has nothing to deliver yet.
Collected(j) ==
  /\ job[j] \in JobState
  /\ job[j].todo = {} /\ job[j].asking = {}
  /\ j \in Update => (job[j].failed => ~job[j].clean)
  /\ j \in Update => Keys(job[j].result) \subseteq contents
  /\ Early(j) /\ Stubs(j) /\ Working(j) /\ Results(j)

\* A request before its distribution has nothing to deliver and satisfies the
\* invariant.
LEMMA Collects ==
  ASSUME IInv, NEW j \in Job, job[j].pc \in {"follow", "timeline", "find", "create"}
  PROVE  Collected(j)
<1>1. Sound(j) /\ (j \in Update => Complete(j)) /\ UpdatesDeliverContent
  BY DEF IInv
<1>2. job[j].todo = {} /\ job[j].asking = {}
  BY <1>1 DEF Sound, Deliveries
<1> QED
  BY <1>1, <1>2 DEF IInv, TypeOK, Sound, Complete, UpdatesDeliverContent, Collected

\* The types of what is in Firestore.
LEMMA StoreTypes ==
  ASSUME IInv
  PROVE  /\ articles \in ArticleMap /\ contents \subseteq Url /\ followed \subseteq Source
         /\ ingested \subseteq Job \X Url
BY DEF IInv, TypeOK

\* Faults are counted up to their bound.
LEMMA FaultType == ASSUME IInv, Fault \/ NoFault PROVE faults' \in 0..MaxFaults
<1>1. faults \in 0..MaxFaults
  BY DEF IInv, TypeOK
<1> QED
  BY <1>1, PipelineAssumption DEF Fault, NoFault

\* twitterFollow changes whom a1 follows.
LEMMA FollowKeeps == ASSUME IInv, NEW j \in Job, Follow(j) PROVE IInv'
<1>1. job[j].pc = "follow" /\ (Fault \/ NoFault)
  BY DEF Follow, At
<1>2. Collected(j)
  BY <1>1, Collects
<1>3. /\ followed' \subseteq Source
      /\ UNCHANGED <<articles, contents, ingested, tweets, subs, feeds, warm>>
  BY <1>1, <1>2, StoreTypes, PipelineAssumption DEF Follow, store, Collected, Stubs
<1>4. faults' \in 0..MaxFaults
  BY <1>1, FaultType
<1>5. PICK r : /\ job' = [job EXCEPT ![j] = r]
               /\ \/ r = [job[j] EXCEPT !.pc = "timeline"]
                  \/ r = [job[j] EXCEPT !.pc = "timeline", !.clean = FALSE]
  BY DEF Follow
<1>6. /\ r \in JobState /\ r.pc = "timeline" /\ (r.clean => job[j].clean)
      /\ r.todo = {} /\ r.asking = {} /\ r.failed = job[j].failed
      /\ r.stubs = job[j].stubs /\ r.finding = job[j].finding
      /\ r.saving = job[j].saving /\ r.storing = job[j].storing
      /\ r.existing = job[j].existing /\ r.result = job[j].result
  BY <1>2, <1>5 DEF JobState, Collected
<1>7. Collecting(j, r)
  BY <1>1, <1>2, <1>6 DEF Collecting, Collected, Early, Fresh, Stubs, Working, Results
<1> QED
  BY <1>2, <1>3, <1>4, <1>5, <1>6, <1>7, StoreTypes, CollectKeeps DEF Collected

\* The stubs of a timeline are of tweets, those of a user timeline are of its source.
LEMMA TimelineKeeps == ASSUME IInv, NEW j \in Job, Timeline(j) PROVE IInv'
<1> DEFINE statuses == IF j \in Update THEN Newest(followed, HomeCount)
                                       ELSE Newest({handle[j]}, UserCount)
           stubs == articleStubsFromTweets(statuses)
<1>1. job[j].pc = "timeline" /\ (Fault \/ NoFault)
  BY DEF Timeline, At
<1>2. Collected(j)
  BY <1>1, Collects
<1>3. UNCHANGED <<articles, contents, ingested, tweets, subs, feeds, warm, followed>>
  BY DEF Timeline, store
<1>4. faults' \in 0..MaxFaults
  BY <1>1, FaultType
<1>5. stubs \subseteq Tweeted /\ (j \in Subscribe => \A stub \in stubs : stub.source = handle[j])
  <2>1. CASE j \in Update
    <3>1. j \notin Subscribe
      BY <2>1, PipelineAssumption
    <3> QED
      BY <2>1, <3>1, NewestTweeted
  <2>2. CASE j \notin Update
    BY <2>2, NewestTweeted
  <2> QED
    BY <2>1, <2>2
<1>6. stubs \subseteq Stub
  BY <1>5, TweetedType DEF IInv, TypeOK
<1>7. \/ job' = [job EXCEPT ![j].pc = "find", ![j].stubs = stubs, ![j].finding = stubs]
      \/ job' = [job EXCEPT ![j].pc = "done", ![j].clean = FALSE]
  BY DEF Timeline
<1> HIDE DEF stubs
<1>8. PICK r : /\ job' = [job EXCEPT ![j] = r]
               /\ \/ r = [job[j] EXCEPT !.pc = "find", !.stubs = stubs, !.finding = stubs]
                  \/ r = [job[j] EXCEPT !.pc = "done", !.clean = FALSE]
  BY <1>7
<1>9. /\ r \in JobState /\ r.pc \in {"find", "done"} /\ (r.pc = "done" => ~r.clean)
      /\ r.todo = {} /\ r.asking = {} /\ r.failed = FALSE
      /\ r.stubs \subseteq stubs /\ r.finding = r.stubs
      /\ r.saving = {} /\ r.storing = {}
      /\ r.existing = noArticles /\ r.result = noArticles
  <2>1. job[j] \in JobState /\ Fresh(job[j])
    BY <1>1, <1>2 DEF Collected, Early
  <2>2. CASE r = [job[j] EXCEPT !.pc = "find", !.stubs = stubs, !.finding = stubs]
    BY <1>6, <2>1, <2>2 DEF JobState, Fresh
  <2>3. CASE r = [job[j] EXCEPT !.pc = "done", !.clean = FALSE]
    BY <2>1, <2>3 DEF JobState, Fresh
  <2> QED
    BY <1>8, <2>2, <2>3
<1>10. Keys(r.existing) = {} /\ Keys(r.result) = {}
  BY <1>9, NoArticles
<1>11. Collecting(j, r)
  BY <1>5, <1>9, <1>10 DEF Collecting
<1> QED
  BY <1>3, <1>4, <1>8, <1>10, <1>11, StoreTypes, CollectKeeps

\* The links of the test page are typed, not tweeted.
LEMMA StartIngestTestKeeps == ASSUME IInv, NEW j \in Job, StartIngestTest(j) PROVE IInv'
<1> DEFINE stubs == {[link |-> link, source |-> "test"] : link \in typed[j]}
           r == [NewJob("find", 1) EXCEPT !.stubs = stubs, !.finding = stubs]
<1>1. j \in Test /\ j \notin Update /\ j \notin Subscribe
  BY PipelineAssumption DEF StartIngestTest
<1>2. stubs \subseteq Stub
  <2>1. "test" \in Source /\ typed[j] \subseteq Link
    BY <1>1, PipelineAssumption
  <2> QED
    BY <2>1 DEF Stub
<1>3. job' = [job EXCEPT ![j] = r]
  BY DEF StartIngestTest
<1>4. UNCHANGED <<articles, contents, ingested, tweets, subs, feeds, warm, followed, faults>>
  BY DEF StartIngestTest, store
<1>5. NewJob("find", 1) \in JobState
  BY NewJobType, PipelineAssumption
<1> HIDE DEF stubs
<1>6. /\ r \in JobState /\ r.pc = "find" /\ r.todo = {} /\ r.asking = {}
      /\ r.stubs = stubs /\ r.finding = stubs /\ r.saving = {} /\ r.storing = {}
      /\ r.existing = noArticles /\ r.result = noArticles
  BY <1>2, <1>5 DEF JobState, NewJob
<1> HIDE DEF r
<1>7. Keys(r.existing) = {} /\ Keys(r.result) = {}
  BY <1>6, NoArticles
<1>8. Collecting(j, r)
  BY <1>1, <1>6, <1>7 DEF Collecting
<1>9. faults' \in 0..MaxFaults
  BY <1>4 DEF IInv, TypeOK
<1> QED
  BY <1>1, <1>3, <1>4, <1>8, <1>9, StoreTypes, CollectKeeps

\* A step of a request from one collecting state to another, r.
Continues(j, r) ==
  /\ r \in JobState
  /\ r.pc \in {"find", "create"}
  /\ r.todo = {} /\ r.asking = {}
  /\ r.failed = job[j].failed /\ (r.clean => job[j].clean)
  /\ r.stubs = job[j].stubs
  /\ r.finding \subseteq r.stubs /\ r.saving \subseteq r.stubs /\ r.storing \subseteq r.stubs

\* A goroutine of ingestArticles reports on one stub.
LEMMA ContinueKeeps ==
  ASSUME IInv, NEW j \in Job, NEW r, Collected(j), Continues(j, r), job' = [job EXCEPT ![j] = r],
         NEW stub \in job[j].stubs,
         \A url \in Url : r.existing[url] = job[j].existing[url] \/ url = UrlOf(stub),
         \A url \in Url : \/ r.result[url] = job[j].result[url]
                          \/ /\ url = UrlOf(stub) /\ url \in contents'
                             /\ r.result[url] = stub.source,
         articles' \in ArticleMap, contents \subseteq contents', contents' \subseteq Url,
         Fault \/ NoFault, ingested' \subseteq Job \X Url,
         UNCHANGED <<tweets, subs, feeds, warm, followed>>
  PROVE  IInv'
<1>1. faults' \in 0..MaxFaults
  BY FaultType
<1>2. /\ \A url \in Keys(r.existing) : \E s \in r.stubs : UrlOf(s) = url
      /\ \A url \in Keys(r.result) : \E s \in r.stubs :
           UrlOf(s) = url /\ (j \in Update => r.result[url] = s.source)
  BY DEF Continues, Collected, Results, Keys
<1>3. Collecting(j, r)
  BY <1>2 DEF Continues, Collecting, Collected, Stubs
<1>4. j \in Update => Keys(r.result) \subseteq contents'
  BY DEF Collected, Keys
<1> QED
  BY <1>1, <1>3, <1>4, StoreTypes, CollectKeeps

\* What findArticle has found is of a stub.
LEMMA FindKeeps ==
  ASSUME IInv, NEW j \in Job, NEW stub \in job[j].stubs, Find(j, stub) PROVE IInv'
<1> DEFINE url == UrlOf(stub)
           found == IF articles[url] # None THEN articles[url] ELSE job[j].existing[url]
<1>1. job[j].pc = "find" /\ (Fault \/ NoFault)
  BY DEF Find, At
<1>2. Collected(j)
  BY <1>1, Collects
<1>3. UNCHANGED <<articles, contents, ingested, tweets, subs, feeds, warm, followed>>
  BY DEF Find, store
<1>4. url \in Url
  BY <1>2, UrlType DEF Collected, JobState
<1>5. found \in Source \cup {None}
  <2>1. articles \in ArticleMap /\ job[j].existing \in ArticleMap
    BY <1>2, StoreTypes DEF Collected, JobState
  <2> QED
    BY <1>4, <2>1 DEF ArticleMap
<1>6. \/ job' = [job EXCEPT ![j].finding = @ \ {stub}, ![j].existing[url] = found]
      \/ job' = [job EXCEPT ![j].finding = @ \ {stub}, ![j].clean = FALSE]
  BY DEF Find
<1> DEFINE map == [job[j].existing EXCEPT ![url] = found]
<1>7. job[j].existing \in [Url -> Source \cup {None}]
  BY <1>2 DEF Collected, JobState, ArticleMap
<1>8. map \in ArticleMap /\ \A x \in Url : map[x] = job[j].existing[x] \/ x = url
  BY <1>5, <1>7 DEF ArticleMap
<1>9. PICK r : /\ job' = [job EXCEPT ![j] = r]
               /\ \/ r = [job[j] EXCEPT !.finding = @ \ {stub}, !.existing = map]
                  \/ r = [job[j] EXCEPT !.finding = @ \ {stub}, !.clean = FALSE]
  <2>1. job \in [Job -> JobState]
    BY DEF IInv, TypeOK
  <2>2. CASE job' = [job EXCEPT ![j].finding = @ \ {stub}, ![j].existing[url] = found]
    <3>1. job' = [job EXCEPT ![j] = [job[j] EXCEPT !.finding = @ \ {stub}, !.existing = map]]
      BY <2>1, <2>2
    <3> QED
      BY <3>1
  <2>3. CASE job' = [job EXCEPT ![j].finding = @ \ {stub}, ![j].clean = FALSE]
    BY <2>3
  <2> QED
    BY <1>6, <2>2, <2>3
<1> HIDE DEF url, found, map
<1>10. /\ Continues(j, r) /\ r.result = job[j].result
       /\ r.existing = map \/ r.existing = job[j].existing
  <2>1. CASE r = [job[j] EXCEPT !.finding = @ \ {stub}, !.existing = map]
    BY <1>1, <1>2, <1>8, <2>1 DEF Collected, Working, JobState, Continues
  <2>2. CASE r = [job[j] EXCEPT !.finding = @ \ {stub}, !.clean = FALSE]
    BY <1>1, <1>2, <2>2 DEF Collected, Working, JobState, Continues
  <2> QED
    BY <1>9, <2>1, <2>2
<1>11. \A x \in Url : r.existing[x] = job[j].existing[x] \/ x = UrlOf(stub)
  BY <1>8, <1>10 DEF url
<1> QED
  BY <1>1, <1>2, <1>3, <1>9, <1>10, <1>11, StoreTypes, ContinueKeeps

\* Goroutines are started for stubs only.
LEMMA FetchKeeps == ASSUME IInv, NEW j \in Job, Fetch(j) PROVE IInv'
<1> DEFINE new == {s \in job[j].stubs : job[j].existing[UrlOf(s)] = None}
           urls == {UrlOf(s) : s \in new}
<1>1. job[j].pc = "find"
  BY DEF Fetch, At
<1>2. Collected(j)
  BY <1>1, Collects
<1>3. UNCHANGED <<articles, contents, ingested, tweets, subs, feeds, warm, followed>>
  BY DEF Fetch, store
<1>4. PICK fetched :
        /\ IF fetched = urls THEN NoFault ELSE Fault
        /\ job' = [job EXCEPT ![j].pc = "create",
                              ![j].saving = {s \in new : UrlOf(s) \in fetched},
                              ![j].clean = @ /\ fetched = urls]
  BY DEF Fetch
<1> DEFINE saving == {s \in new : UrlOf(s) \in fetched}
           clean == job[j].clean /\ fetched = urls
           r == [job[j] EXCEPT !.pc = "create", !.saving = saving, !.clean = clean]
<1>5. job' = [job EXCEPT ![j] = r]
  BY <1>4
<1>6. faults' \in 0..MaxFaults
  BY <1>4, FaultType
<1>7. saving \subseteq job[j].stubs /\ clean \in BOOLEAN /\ (clean => job[j].clean)
  <2>1. job[j].clean \in BOOLEAN
    BY <1>2 DEF Collected, JobState
  <2> QED
    BY <2>1
<1> HIDE DEF saving, clean
<1>8. job[j] \in JobState
  BY <1>2 DEF Collected
<1>9. /\ r \in JobState /\ r.pc = "create" /\ (r.clean => job[j].clean)
      /\ r.failed = job[j].failed /\ r.stubs = job[j].stubs
      /\ r.finding = job[j].finding /\ r.saving = saving /\ r.storing = job[j].storing
      /\ r.todo = job[j].todo /\ r.asking = job[j].asking
      /\ r.existing = job[j].existing /\ r.result = job[j].result
  BY <1>7, <1>8 DEF JobState
<1> HIDE DEF r
<1>10. Collecting(j, r)
  BY <1>2, <1>7, <1>9 DEF Collected, Working, Results, Stubs, Collecting
<1> QED
  BY <1>2, <1>3, <1>5, <1>6, <1>9, <1>10, StoreTypes, CollectKeeps DEF Collected

\* createArticle sets the article of a stub.
LEMMA SaveKeeps ==
  ASSUME IInv, NEW j \in Job, NEW stub \in job[j].stubs, Save(j, stub) PROVE IInv'
<1>1. job[j].pc = "create" /\ (Fault \/ NoFault) /\ stub \in job[j].saving
  BY DEF Save, At
<1>2. Collected(j)
  BY <1>1, Collects
<1>3. UNCHANGED <<contents, tweets, subs, feeds, warm, followed>>
  BY DEF Save
<1>4. UrlOf(stub) \in Url /\ stub.source \in Source
  BY <1>2, UrlType DEF Collected, JobState
<1>5. articles' \in ArticleMap /\ ingested' \subseteq Job \X Url
  BY <1>4, StoreTypes DEF Save, ArticleMap
<1>6. PICK r : /\ job' = [job EXCEPT ![j] = r]
               /\ \/ r = [job[j] EXCEPT !.saving = @ \ {stub}, !.storing = @ \cup {stub}]
                  \/ r = [job[j] EXCEPT !.saving = @ \ {stub}, !.clean = FALSE]
  BY DEF Save
<1>7. Continues(j, r) /\ r.result = job[j].result /\ r.existing = job[j].existing
  <2>1. CASE r = [job[j] EXCEPT !.saving = @ \ {stub}, !.storing = @ \cup {stub}]
    BY <1>1, <1>2, <2>1 DEF Collected, Working, JobState, Continues
  <2>2. CASE r = [job[j] EXCEPT !.saving = @ \ {stub}, !.clean = FALSE]
    BY <1>1, <1>2, <2>2 DEF Collected, Working, JobState, Continues
  <2> QED
    BY <1>6, <2>1, <2>2
<1> QED
  BY <1>1, <1>2, <1>3, <1>5, <1>6, <1>7, StoreTypes, ContinueKeeps

\* createArticle returns the article once its content is set.
LEMMA StoreKeeps ==
  ASSUME IInv, NEW j \in Job, NEW stub \in job[j].stubs, Store(j, stub) PROVE IInv'
<1> DEFINE url == UrlOf(stub)
           map == [job[j].result EXCEPT ![url] = stub.source]
<1>1. job[j].pc = "create" /\ (Fault \/ NoFault) /\ stub \in job[j].storing
  BY DEF Store, At
<1>2. Collected(j)
  BY <1>1, Collects
<1>3. UNCHANGED <<articles, ingested, tweets, subs, feeds, warm, followed>>
  BY DEF Store
<1>4. url \in Url /\ stub.source \in Source
  BY <1>2, UrlType DEF Collected, JobState
<1>5. contents \subseteq contents' /\ contents' \subseteq Url
  BY <1>4, StoreTypes DEF Store
<1>6. job[j].result \in [Url -> Source \cup {None}]
  BY <1>2 DEF Collected, JobState, ArticleMap
<1>7. map \in ArticleMap /\ \A x \in Url : IF x = url THEN map[x] = stub.source
                                                      ELSE map[x] = job[j].result[x]
  BY <1>4, <1>6 DEF ArticleMap
<1>8. PICK r : /\ job' = [job EXCEPT ![j] = r]
               /\ \/ r = [job[j] EXCEPT !.storing = @ \ {stub}, !.result = map] /\ url \in contents'
                  \/ r = [job[j] EXCEPT !.storing = @ \ {stub}, !.clean = FALSE]
  <2>1. job \in [Job -> JobState]
    BY DEF IInv, TypeOK
  <2>2. CASE job' = [job EXCEPT ![j].storing = @ \ {stub}, ![j].result[url] = stub.source]
    <3>1. job' = [job EXCEPT ![j] = [job[j] EXCEPT !.storing = @ \ {stub}, !.result = map]]
      BY <2>1, <2>2
    <3>2. CASE url \in contents'
      BY <3>1, <3>2
    <3>3. CASE url \notin contents'
      BY <2>2, <3>3 DEF Store
    <3> QED
      BY <3>2, <3>3
  <2>3. CASE job' = [job EXCEPT ![j].storing = @ \ {stub}, ![j].clean = FALSE]
    BY <2>3
  <2> QED
    BY <2>2, <2>3 DEF Store
<1> HIDE DEF url, map
<1>9. /\ Continues(j, r) /\ r.existing = job[j].existing
      /\ (r.result = map /\ url \in contents') \/ r.result = job[j].result
  <2>1. CASE r = [job[j] EXCEPT !.storing = @ \ {stub}, !.result = map] /\ url \in contents'
    BY <1>1, <1>2, <1>7, <2>1 DEF Collected, Working, JobState, Continues
  <2>2. CASE r = [job[j] EXCEPT !.storing = @ \ {stub}, !.clean = FALSE]
    BY <1>1, <1>2, <2>2 DEF Collected, Working, JobState, Continues
  <2> QED
    BY <1>8, <2>1, <2>2
<1>10. \A x \in Url : \/ r.result[x] = job[j].result[x]
                      \/ x = UrlOf(stub) /\ x \in contents' /\ r.result[x] = stub.source
  BY <1>7, <1>9 DEF url
<1> QED
  BY <1>1, <1>2, <1>3, <1>5, <1>8, <1>9, <1>10, StoreTypes, ContinueKeeps

\* The state r of a request that distributes what it has collected.
Distributing(j, r) ==
  /\ r \in JobState
  /\ r.pc \in {"distribute", "done"}
  /\ r.stubs = job[j].stubs /\ r.existing = job[j].existing
  /\ r.finding = job[j].finding /\ r.saving = job[j].saving /\ r.storing = job[j].storing
  /\ \A url \in Keys(r.result) : \E stub \in r.stubs :
       UrlOf(stub) = url /\ (j \in Update => r.result[url] = stub.source)
  /\ r.pc # "distribute" => r.todo = {} /\ r.asking = {}
  /\ r.asking # {} => j \in Update
  /\ r.asking \subseteq Keys(r.result)
  /\ r.todo \subseteq User \X Keys(r.result)
  /\ j \in Update => \A d \in r.todo : <<d[1], r.result[d[2]]>> \in subs
  /\ j \notin Update => j \in Subscribe \/ r.todo = {}
  /\ j \in Subscribe => \A d \in r.todo : d[1] = user[j]

\* A step of the distribution keeps the invariant if it leaves nobody out.
LEMMA DistributeKeeps ==
  ASSUME IInv, NEW j \in Job, NEW r, Distributing(j, r), job' = [job EXCEPT ![j] = r],
         j \in Update => /\ Keys(r.result) \subseteq contents
                         /\ r.failed => ~r.clean
                         /\ r.clean => \A url \in Keys(r.result) \ r.asking, u \in User :
                             <<u, r.result[url]>> \in Subscribed =>
                               <<u, url>> \in r.todo \/ feeds'[<<u, url>>] # None,
         feeds' \in [User \X Url -> Source \cup {None}],
         \A u \in User, url \in Url : feeds[<<u, url>>] # None => feeds'[<<u, url>>] # None,
         \A u \in User, url \in Url : feeds'[<<u, url>>] = feeds[<<u, url>>] \/ Wanted(u, url),
         warm' \subseteq Url, Fault \/ NoFault,
         UNCHANGED <<tweets, followed, subs, articles, contents, ingested>>
  PROVE  IInv'
<1>1. job' \in [Job -> JobState] /\ job'[j] = r /\ \A i \in Job \ {j} : job'[i] = job[i]
  BY JobStep DEF IInv, Distributing
<1>2. faults' \in 0..MaxFaults
  BY FaultType
<1>3. TypeOK'
  BY <1>1, <1>2 DEF IInv, TypeOK
<1>4. Grows /\ Tweeted' = Tweeted
  BY DEF Grows, Tweeted, articleStubsFromTweets, Range
<1>5. Sound(j)
  BY DEF IInv
<1>6. Early(j)' /\ Stubs(j)' /\ Working(j)'
  <2>1. job'[j].pc \in {"distribute", "done"} /\ job'[j].stubs = job[j].stubs
    BY <1>1 DEF Distributing
  <2>2. Early(j)'
    BY <2>1 DEF Early
  <2>3. Stubs(j)'
    BY <1>4, <1>5, <2>1 DEF Sound, Stubs
  <2>4. Working(j)'
    BY <1>1, <1>5 DEF Sound, Distributing, Working
  <2> QED
    BY <2>2, <2>3, <2>4
<1>7. Results(j)'
  BY <1>1, <1>5 DEF Sound, Distributing, Results, Keys, UrlOf
<1>8. Deliveries(j)'
  BY <1>1 DEF Distributing, Deliveries, Keys
<1>9. ASSUME j \in Update PROVE Complete(j)'
  <2>1. Keys(job'[j].result) = Keys(job[j].result)'
    BY DEF Keys
  <2>2. job'[j].failed => ~job'[j].clean
    BY <1>1, <1>9
  <2>3. job'[j].clean =>
          \A url \in Keys(job'[j].result) \ job'[j].asking, u \in User :
            <<u, job'[j].result[url]>> \in Subscribed =>
              <<u, url>> \in job'[j].todo \/ feeds'[<<u, url>>] # None
    BY <1>1, <1>9
  <2> QED
    BY <2>1, <2>2, <2>3 DEF Complete
<1>10. Started
  BY <1>1 DEF Started, Distributing
<1>11. Sound(j)'
  BY <1>6, <1>7, <1>8 DEF Sound
<1>12. j \in Update => Complete(j)' /\ Keys(job'[j].result) \subseteq contents'
  BY <1>1, <1>9
<1> QED
  BY <1>1, <1>3, <1>4, <1>10, <1>11, <1>12, StepKeeps

\* A subscription distributes what it has found and what it has made.
LEMMA MergedType ==
  ASSUME NEW j, job[j] \in JobState
  PROVE  /\ Merged(j) \in ArticleMap
         /\ Keys(Merged(j)) \subseteq Keys(job[j].existing) \cup Keys(job[j].result)
BY DEF Merged, JobState, ArticleMap, Keys

\* The types of feeds and warmed pages.
LEMMA FeedsType == ASSUME IInv PROVE feeds \in [User \X Url -> Source \cup {None}] /\ warm \subseteq Url
BY DEF IInv, TypeOK

\* An update has all its articles to look up subscribers for, a subscription all to
\* deliver.
LEMMA IngestedKeeps == ASSUME IInv, NEW j \in Job, Ingested(j) PROVE IInv'
<1>1. job[j].pc = "create" /\ NoFault
  BY DEF Ingested, At, NoFault
<1>2. Collected(j)
  BY <1>1, Collects
<1>3. UNCHANGED <<tweets, followed, subs, articles, contents, feeds, warm, ingested>>
  BY DEF Ingested, store
<1>4. job[j] \in JobState /\ Keys(job[j].result) \subseteq Url
  BY <1>2 DEF Collected, Keys
<1>5. CASE j \in Update
  <2> DEFINE keys == Keys(job[j].result)
             r == [job[j] EXCEPT !.pc = "distribute", !.asking = keys]
  <2>1. j \notin Subscribe
    BY <1>5, PipelineAssumption
  <2>2. job' = [job EXCEPT ![j] = r]
    BY <1>5 DEF Ingested
  <2> HIDE DEF keys
  <2>3. keys \subseteq Url
    BY <1>4 DEF keys
  <2>4. /\ r \in JobState /\ r.pc = "distribute" /\ r.stubs = job[j].stubs
        /\ r.existing = job[j].existing /\ r.finding = job[j].finding
        /\ r.saving = job[j].saving /\ r.storing = job[j].storing
        /\ r.result = job[j].result /\ r.asking = keys /\ r.todo = job[j].todo
        /\ r.failed = job[j].failed /\ r.clean = job[j].clean
    BY <1>4, <2>3 DEF JobState
  <2> HIDE DEF r
  <2>5. Distributing(j, r)
    BY <1>2, <1>5, <2>1, <2>4 DEF Distributing, Collected, Results, keys
  <2>6. Keys(r.result) \subseteq contents /\ (r.failed => ~r.clean) /\ Keys(r.result) \ r.asking = {}
    BY <1>2, <1>5, <2>4 DEF Collected, keys
  <2> QED
    BY <1>1, <1>3, <2>2, <2>5, <2>6, FeedsType, DistributeKeeps
<1>6. CASE j \notin Update
  <2> DEFINE map == Merged(j)
             pairs == IF j \in Subscribe THEN {user[j]} \X Keys(map) ELSE {}
             pc == IF j \in Subscribe THEN "distribute" ELSE "done"
  <2>1. map \in ArticleMap /\ Keys(map) \subseteq Keys(job[j].existing) \cup Keys(job[j].result)
    BY <1>4, MergedType
  <2>2. pairs \subseteq User \X Keys(map) /\ Keys(map) \subseteq Url
    BY PipelineAssumption DEF Keys
  <2>3. /\ pc \in {"distribute", "done"} /\ (pc # "distribute" => pairs = {})
        /\ (j \notin Subscribe => pairs = {})
        /\ (j \in Subscribe => \A d \in pairs : d[1] = user[j])
    OBVIOUS
  <2>4. PICK r : /\ job' = [job EXCEPT ![j] = r]
                 /\ \/ r = [job[j] EXCEPT !.pc = pc, !.result = map, !.todo = pairs]
                    \/ r = [job[j] EXCEPT !.pc = pc, !.result = map] /\ pairs = {}
    BY <1>6 DEF Ingested
  <2> HIDE DEF map, pairs, pc
  <2>5. /\ r \in JobState /\ r.pc = pc /\ r.stubs = job[j].stubs
        /\ r.existing = job[j].existing /\ r.finding = job[j].finding
        /\ r.saving = job[j].saving /\ r.storing = job[j].storing
        /\ r.result = map /\ r.asking = job[j].asking /\ r.todo = pairs
    <3>1. pairs \subseteq User \X Url /\ job[j].todo = {}
      BY <1>2, <2>2 DEF Collected
    <3>2. CASE r = [job[j] EXCEPT !.pc = pc, !.result = map, !.todo = pairs]
      BY <1>4, <2>1, <2>3, <3>1, <3>2 DEF JobState
    <3>3. CASE r = [job[j] EXCEPT !.pc = pc, !.result = map] /\ pairs = {}
      BY <1>4, <2>1, <2>3, <3>1, <3>3 DEF JobState
    <3> QED
      BY <2>4, <3>2, <3>3
  <2>6. \A url \in Keys(r.result) : \E stub \in r.stubs : UrlOf(stub) = url
    BY <1>2, <2>1, <2>5 DEF Collected, Results
  <2>7. Distributing(j, r)
    BY <1>2, <1>6, <2>2, <2>3, <2>5, <2>6 DEF Distributing, Collected
  <2> QED
    BY <1>1, <1>3, <1>6, <2>4, <2>7, FeedsType, DistributeKeeps
<1> QED
  BY <1>5, <1>6

\* What is known of a request that distributes.
LEMMA Distributes ==
  ASSUME IInv, NEW j \in Job
  PROVE  /\ job[j] \in JobState
         /\ Stubs(j) /\ Results(j) /\ Deliveries(j)
         /\ j \in Update => Complete(j) /\ Keys(job[j].result) \subseteq contents
BY DEF IInv, TypeOK, Sound, UpdatesDeliverContent

\* The subscribers that are looked up include the earlier ones, or the update is not
\* clean.
LEMMA GetSubscribersKeeps ==
  ASSUME IInv, NEW j \in Job, NEW url \in Url, GetSubscribers(j, url) PROVE IInv'
<1>0. PICK found \in SUBSET Subscribers(job[j].result[url]) :
        /\ IF found = Subscribers(job[j].result[url]) THEN NoFault ELSE Fault
        /\ job' = [job EXCEPT ![j].asking = @ \ {url}, ![j].todo = @ \cup (found \X {url}),
                   ![j].clean = @ /\ found = Subscribers(job[j].result[url])]
  BY DEF GetSubscribers
<1> DEFINE pairs == found \X {url}
           asking == job[j].asking \ {url}
           todo == job[j].todo \cup pairs
           all == found = Subscribers(job[j].result[url])
<1>1. job[j].pc = "distribute" /\ url \in job[j].asking /\ (Fault \/ NoFault)
  BY <1>0 DEF GetSubscribers, At
<1>2. /\ job[j] \in JobState /\ Results(j) /\ Deliveries(j)
      /\ j \in Update /\ Complete(j) /\ Keys(job[j].result) \subseteq contents
  BY <1>1, Distributes DEF Deliveries
<1>3. j \notin Subscribe
  BY <1>2, PipelineAssumption
<1>4. UNCHANGED <<tweets, followed, subs, articles, contents, feeds, warm, ingested>>
  BY DEF GetSubscribers, store
<1>5. PICK r : /\ job' = [job EXCEPT ![j] = r]
               /\ r = [job[j] EXCEPT !.asking = asking, !.todo = todo, !.clean = @ /\ all]
  BY <1>0
<1>6. /\ pairs \subseteq User \X {url}
      /\ \A d \in pairs : <<d[1], job[j].result[d[2]]>> \in subs
      /\ all => \A u \in User : <<u, job[j].result[url]>> \in subs => <<u, url>> \in pairs
  BY <1>0 DEF Subscribers
<1> HIDE DEF pairs, all
<1>7. asking \subseteq Keys(job[j].result) /\ todo \subseteq User \X Keys(job[j].result)
  BY <1>1, <1>2, <1>6 DEF Deliveries
<1>8. asking \subseteq Url /\ todo \subseteq User \X Url
  BY <1>7 DEF Keys
<1>9. \A d \in todo : <<d[1], job[j].result[d[2]]>> \in subs
  BY <1>2, <1>6 DEF Deliveries
<1> HIDE DEF asking, todo
<1>10. /\ r \in JobState /\ r.pc = "distribute" /\ r.stubs = job[j].stubs
       /\ r.existing = job[j].existing /\ r.finding = job[j].finding
       /\ r.saving = job[j].saving /\ r.storing = job[j].storing
       /\ r.result = job[j].result /\ r.asking = asking
       /\ r.failed = job[j].failed /\ (r.clean => job[j].clean /\ all) /\ r.todo = todo
  <2>1. all \in BOOLEAN /\ job[j].clean \in BOOLEAN
    BY <1>2 DEF JobState, all
  <2> QED
    BY <1>1, <1>2, <1>5, <1>8, <2>1 DEF JobState
<1>11. Distributing(j, r)
  BY <1>2, <1>3, <1>7, <1>9, <1>10 DEF Distributing, Results
<1>12. r.failed => ~r.clean
  BY <1>2, <1>10 DEF Complete
<1>13. ASSUME r.clean, NEW x \in Keys(r.result) \ r.asking, NEW u \in User,
              <<u, r.result[x]>> \in Subscribed
       PROVE  <<u, x>> \in r.todo \/ feeds'[<<u, x>>] # None
  <2>1. CASE x = url
    <3>1. <<u, job[j].result[url]>> \in subs
      BY <1>10, <1>13, <2>1 DEF IInv
    <3> QED
      BY <1>6, <1>10, <1>13, <2>1, <3>1 DEF todo
  <2>2. CASE x # url
    BY <1>1, <1>2, <1>4, <1>10, <1>13, <2>2 DEF Complete, asking, todo
  <2> QED
    BY <2>1, <2>2
<1> QED
  BY <1>1, <1>2, <1>4, <1>5, <1>10, <1>11, <1>12, <1>13, FeedsType, DistributeKeeps

\* A delivery is made, or the update is not clean.
LEMMA DeliverKeeps ==
  ASSUME IInv, NEW j \in Job, NEW u \in User, NEW url \in Url, Deliver(j, u, url) PROVE IInv'
<1> DEFINE d == <<u, url>>
           todo == job[j].todo \ {d}
<1>1. job[j].pc = "distribute" /\ d \in job[j].todo /\ (Fault \/ NoFault)
  BY DEF Deliver, At
<1>2. /\ job[j] \in JobState /\ Stubs(j) /\ Results(j) /\ Deliveries(j)
      /\ (j \in Update => Complete(j) /\ Keys(job[j].result) \subseteq contents)
  BY Distributes
<1>3. UNCHANGED <<tweets, followed, subs, articles, contents, warm, ingested>>
  BY DEF Deliver
<1>4. url \in Keys(job[j].result)
  BY <1>1, <1>2 DEF Deliveries
<1>5. job[j].result[url] \in Source /\ job[j].result[url] # None
  <2>1. job[j].result \in ArticleMap
    BY <1>2 DEF JobState
  <2> QED
    BY <1>4, <2>1 DEF Keys, ArticleMap
<1>6. Wanted(u, url)
  <2>1. PICK stub \in job[j].stubs :
          UrlOf(stub) = url /\ (j \in Update => job[j].result[url] = stub.source)
    BY <1>2, <1>4 DEF Results
  <2>2. CASE j \in Update
    <3>1. <<u, stub.source>> \in subs
      BY <1>1, <1>2, <2>1, <2>2 DEF Deliveries
    <3>2. stub \in Tweeted
      BY <1>2, <2>2, PipelineAssumption DEF Stubs
    <3> QED
      BY <2>1, <3>1, <3>2 DEF Wanted, TweetedBy, Tweeted
  <2>3. CASE j \in Subscribe
    <3>1. u = user[j] /\ stub.source = handle[j] /\ ~At(j, "idle")
      BY <1>1, <1>2, <2>3 DEF Deliveries, Stubs, At
    <3>2. stub \in Tweeted
      BY <1>2, <2>3, PipelineAssumption DEF Stubs
    <3> QED
      BY <2>1, <2>3, <3>1, <3>2 DEF Wanted, TweetedBy, Tweeted
  <2> QED
    BY <1>1, <1>2, <2>2, <2>3 DEF Deliveries
<1>7. /\ feeds' \in [User \X Url -> Source \cup {None}]
      /\ \A x \in User \X Url : feeds'[x] = feeds[x] \/ (x = d /\ feeds'[x] # None)
  BY <1>5, FeedsType DEF Deliver
<1>8. PICK r : /\ job' = [job EXCEPT ![j] = r]
               /\ \/ r = [job[j] EXCEPT !.todo = todo] /\ feeds'[d] # None
                  \/ r = [job[j] EXCEPT !.todo = todo, !.failed = TRUE, !.clean = FALSE]
  BY <1>5, FeedsType DEF Deliver
<1> HIDE DEF d, todo
<1>9. todo \subseteq job[j].todo
  BY DEF todo
<1>10. /\ r \in JobState /\ r.pc = "distribute" /\ r.stubs = job[j].stubs
       /\ r.existing = job[j].existing /\ r.finding = job[j].finding
       /\ r.saving = job[j].saving /\ r.storing = job[j].storing
       /\ r.result = job[j].result /\ r.asking = job[j].asking /\ r.todo = todo
       /\ (r.clean => job[j].clean /\ ~r.failed = ~job[j].failed /\ feeds'[d] # None)
  <2>1. CASE r = [job[j] EXCEPT !.todo = todo] /\ feeds'[d] # None
    BY <1>1, <1>2, <1>9, <2>1 DEF JobState
  <2>2. CASE r = [job[j] EXCEPT !.todo = todo, !.failed = TRUE, !.clean = FALSE]
    BY <1>1, <1>2, <1>9, <2>2 DEF JobState
  <2> QED
    BY <1>8, <2>1, <2>2
<1>11. Distributing(j, r)
  BY <1>2, <1>9, <1>10 DEF Distributing, Results, Deliveries
<1>12. j \in Update => (r.failed => ~r.clean)
  BY <1>2, <1>10 DEF Complete
<1>13. ASSUME j \in Update, r.clean, NEW x \in Keys(r.result) \ r.asking, NEW v \in User,
              <<v, r.result[x]>> \in Subscribed
       PROVE  <<v, x>> \in r.todo \/ feeds'[<<v, x>>] # None
  <2>1. <<v, x>> \in job[j].todo \/ feeds[<<v, x>>] # None
    BY <1>1, <1>2, <1>10, <1>13 DEF Complete
  <2>2. <<v, x>> \in User \X Url
    BY <1>13 DEF Keys
  <2> QED
    BY <1>7, <1>10, <1>13, <2>1, <2>2 DEF todo
<1>14. \A v \in User, x \in Url :
         /\ feeds[<<v, x>>] # None => feeds'[<<v, x>>] # None
         /\ feeds'[<<v, x>>] = feeds[<<v, x>>] \/ Wanted(v, x)
  BY <1>6, <1>7 DEF d
<1> QED
  BY <1>1, <1>2, <1>3, <1>7, <1>8, <1>10, <1>11, <1>12, <1>13, <1>14, FeedsType, DistributeKeeps

\* A clean update ends only when nothing is left to deliver.
LEMMA FinishKeeps == ASSUME IInv, NEW j \in Job, Finish(j) PROVE IInv'
<1> DEFINE r == [job[j] EXCEPT !.pc = "done", !.asking = {}, !.todo = {}]
<1>1. job[j].pc = "distribute" /\ Delivered(j) /\ (Fault \/ NoFault)
  BY DEF Finish, At
<1>2. /\ job[j] \in JobState /\ Results(j)
      /\ (j \in Update => Complete(j) /\ Keys(job[j].result) \subseteq contents)
  BY Distributes
<1>3. UNCHANGED <<tweets, followed, subs, articles, contents, feeds, ingested>>
  BY DEF Finish
<1>4. warm' \subseteq Url
  BY FeedsType DEF Finish, Keys
<1>5. job' = [job EXCEPT ![j] = r]
  BY DEF Finish
<1>6. /\ r \in JobState /\ r.pc = "done" /\ r.stubs = job[j].stubs
      /\ r.existing = job[j].existing /\ r.finding = job[j].finding
      /\ r.saving = job[j].saving /\ r.storing = job[j].storing
      /\ r.result = job[j].result /\ r.asking = {} /\ r.todo = {}
      /\ r.failed = job[j].failed /\ r.clean = job[j].clean
  BY <1>2 DEF JobState
<1> HIDE DEF r
<1>7. Distributing(j, r)
  BY <1>2, <1>6 DEF Distributing, Results
<1>8. ASSUME j \in Update PROVE r.failed => ~r.clean
  BY <1>2, <1>6, <1>8 DEF Complete
<1>9. ASSUME j \in Update, r.clean, NEW x \in Keys(r.result) \ r.asking, NEW u \in User,
             <<u, r.result[x]>> \in Subscribed
      PROVE  <<u, x>> \in r.todo \/ feeds'[<<u, x>>] # None
  <2>1. job[j].asking = {} /\ job[j].todo = {}
    BY <1>1, <1>2, <1>6, <1>9 DEF Delivered, Complete
  <2> QED
    BY <1>1, <1>2, <1>3, <1>6, <1>9, <2>1 DEF Complete
<1> QED
  BY <1>1, <1>2, <1>3, <1>4, <1>5, <1>6, <1>7, <1>8, <1>9, FeedsType, DistributeKeeps

\* A tweet adds to what was tweeted.
LEMMA TweetKeeps == ASSUME IInv, NEW status \in Status, Tweet(status) PROVE IInv'
<1>1. tweets \in Seq(Status) /\ tweets' = <<status>> \o tweets
  BY DEF IInv, TypeOK, Tweet
<1>2. tweets' \in Seq(Status) /\ Range(tweets) \subseteq Range(tweets')
  <2>1. tweets' \in Seq(Status) /\ Len(tweets') = Len(tweets) + 1
    BY <1>1
  <2>2. ASSUME NEW i \in DOMAIN tweets PROVE tweets[i] \in Range(tweets')
    <3>1. i \in 1..Len(tweets) /\ i + 1 \in 1..Len(tweets')
      BY <1>1, <2>1
    <3>2. tweets'[i + 1] = tweets[i]
      BY <1>1, <3>1
    <3>3. i + 1 \in DOMAIN tweets'
      BY <2>1, <3>1
    <3> QED
      BY <3>2, <3>3 DEF Range
  <2> QED
    BY <2>1, <2>2 DEF Range
<1>3. UNCHANGED <<followed, subs, articles, contents, feeds, warm, job, faults, ingested>>
  BY DEF Tweet, store
<1>4. TypeOK'
  BY <1>2, <1>3 DEF IInv, TypeOK
<1>5. Grows /\ Started
  BY <1>2, <1>3 DEF Grows, Started, Tweeted, articleStubsFromTweets
<1>6. \A i \in Job : Sound(i)' /\ (i \in Update => Complete(i)')
  BY <1>3, <1>5, OthersKeep
<1>7. UpdatesDeliverContent'
  BY <1>3 DEF IInv, UpdatesDeliverContent, Keys
<1>8. ASSUME NEW u \in User, NEW url \in Url, feeds'[<<u, url>>] # None PROVE Wanted(u, url)'
  <2>1. Wanted(u, url)
    BY <1>3, <1>8 DEF IInv, FeedsAreWanted, Wanted
  <2> QED
    BY <1>5, <2>1, WantedGrows
<1>9. FeedsAreWanted'
  BY <1>8 DEF FeedsAreWanted, Wanted
<1>10. Subscribed \subseteq subs' /\ \A i \in Update : i \in Job
  BY <1>3 DEF IInv, Job
<1> QED
  BY <1>4, <1>6, <1>7, <1>9, <1>10 DEF IInv

\* Nothing happens.
LEMMA StutterKeeps == ASSUME IInv, UNCHANGED vars PROVE IInv'
<1>1. UNCHANGED <<tweets, followed, subs, articles, contents, feeds, warm, job, faults, ingested>>
  BY DEF vars, store
<1>2. TypeOK'
  BY <1>1 DEF IInv, TypeOK
<1>3. Grows
  BY <1>1, NothingGrows
<1>4. \A i \in Job : Sound(i)' /\ (i \in Update => Complete(i)')
  BY <1>1, <1>3, OthersKeep
<1>5. UpdatesDeliverContent'
  BY <1>1 DEF IInv, UpdatesDeliverContent, Keys
<1>6. Started
  BY <1>1 DEF Started
<1>7. ASSUME NEW u \in User, NEW url \in Url, feeds'[<<u, url>>] # None PROVE Wanted(u, url)'
  <2>1. Wanted(u, url)
    BY <1>1, <1>7 DEF IInv, FeedsAreWanted, Wanted
  <2> QED
    BY <1>3, <1>6, <2>1, WantedGrows
<1>8. FeedsAreWanted'
  BY <1>7 DEF FeedsAreWanted, Wanted
<1>9. Subscribed \subseteq subs' /\ \A i \in Update : i \in Job
  BY <1>1 DEF IInv, Job
<1> QED
  BY <1>2, <1>4, <1>5, <1>8, <1>9 DEF IInv

\* The invariant holds at first.
LEMMA InitIInv == Init => IInv
<1> SUFFICES ASSUME Init PROVE IInv
  OBVIOUS
<1>1. NewJob("idle", 0) \in JobState
  BY NewJobType, PipelineAssumption
<1>2. job = [j \in Job |-> NewJob("idle", 0)]
  BY DEF Init
<1>3. \A j \in Job : job[j] = NewJob("idle", 0)
  BY <1>2
<1>4. TypeOK
  <2>1. job \in [Job -> JobState]
    BY <1>1, <1>2
  <2>2. followed \subseteq Source /\ subs \subseteq User \X Source
    BY PipelineAssumption DEF Init
  <2>3. faults \in 0..MaxFaults /\ tweets \in Seq(Status)
    BY PipelineAssumption DEF Init
  <2>4. articles \in ArticleMap /\ feeds \in [User \X Url -> Source \cup {None}]
    BY NoArticles DEF Init
  <2>5. contents = {} /\ warm = {} /\ ingested = {}
    BY DEF Init
  <2> QED
    BY <2>1, <2>2, <2>3, <2>4, <2>5 DEF TypeOK
<1>5. ASSUME NEW j \in Job PROVE Sound(j) /\ Complete(j) /\ Keys(job[j].result) = {}
  <2>1. Fresh(NewJob("idle", 0)) /\ NewJob("idle", 0).pc = "idle"
    BY DEF NewJob, Fresh
  <2>2. Fresh(job[j]) /\ job[j].pc = "idle"
    BY <1>3, <2>1
  <2> QED
    BY <2>2, FreshIsSound
<1>6. \A j \in Update : j \in Job
  BY DEF Job
<1>7. UpdatesDeliverContent
  BY <1>5, <1>6 DEF UpdatesDeliverContent
<1>8. FeedsAreWanted /\ Subscribed \subseteq subs
  BY DEF Init, FeedsAreWanted
<1> QED
  BY <1>4, <1>5, <1>6, <1>7, <1>8 DEF IInv

\* The invariant is inductive.
LEMMA NextKeeps == IInv /\ [Next]_vars => IInv'
<1> SUFFICES ASSUME IInv, [Next]_vars PROVE IInv'
  OBVIOUS
<1>1. ASSUME NEW status \in Status, Tweet(status) PROVE IInv'
  BY <1>1, TweetKeeps
<1>2. ASSUME NEW j \in Job, StartUpdate(j) \/ StartSubscribe(j) \/ StartSourceTest(j) \/ Crash(j)
      PROVE  IInv'
  BY <1>2, StartKeeps
<1>3. ASSUME NEW j \in Job,
             \/ Follow(j) \/ Timeline(j) \/ StartIngestTest(j)
             \/ Fetch(j) \/ Ingested(j) \/ Finish(j)
      PROVE  IInv'
  BY <1>3, FollowKeeps, TimelineKeeps, StartIngestTestKeeps, FetchKeeps, IngestedKeeps, FinishKeeps
<1>4. ASSUME NEW j \in Job, NEW stub \in job[j].stubs,
             Find(j, stub) \/ Save(j, stub) \/ Store(j, stub)
      PROVE  IInv'
  BY <1>4, FindKeeps, SaveKeeps, StoreKeeps
<1>5. ASSUME NEW j \in Job, NEW url \in Url, GetSubscribers(j, url) PROVE IInv'
  BY <1>5, GetSubscribersKeeps
<1>6. ASSUME NEW j \in Job, NEW u \in User, NEW url \in Url, Deliver(j, u, url) PROVE IInv'
  BY <1>6, DeliverKeeps
<1>7. CASE UNCHANGED vars
  BY <1>7, StutterKeeps
<1> QED
  BY <1>1, <1>2, <1>3, <1>4, <1>5, <1>6, <1>7 DEF Next
-----------------------------------------------------------------------------
(* The theorems.                                                           *)

\* The invariant holds for any requests, sources, users, links, tweets and failures.
THEOREM Invariant == Spec => []IInv
BY InitIInv, NextKeeps, PTL DEF Spec

\* Whatever requests run at once and whatever fails, Firestore and the requests have
\* the shape that the code relies on.
THEOREM TypeCorrect == Spec => []TypeOK
<1>1. IInv => TypeOK
  BY DEF IInv
<1> QED
  BY <1>1, Invariant, PTL

\* createArticle reports an article only after its content is set, so that what an
\* update distributes can be read on the phone.
THEOREM UpdatesDeliverContentHolds == Spec => []UpdatesDeliverContent
<1>1. IInv => UpdatesDeliverContent
  BY DEF IInv
<1> QED
  BY <1>1, Invariant, PTL

\* A run of updateTask without failures of its own reaches everyone who had subscribed
\* before, whatever other requests do in the meantime.
THEOREM CleanUpdateDeliversHolds == Spec => []CleanUpdateDelivers
<1>1. ASSUME IInv PROVE CleanUpdateDelivers
  <2>1. SUFFICES ASSUME NEW j \in Update, job[j].pc = "done", job[j].clean,
                        NEW url \in Keys(job[j].result), NEW u \in User,
                        <<u, job[j].result[url]>> \in Subscribed
                 PROVE  feeds[<<u, url>>] # None
    BY DEF CleanUpdateDelivers, At
  <2>2. Complete(j) /\ Deliveries(j)
    BY <1>1 DEF IInv, Sound, Job
  <2>3. job[j].asking = {} /\ job[j].todo = {}
    BY <2>1, <2>2 DEF Deliveries
  <2> QED
    BY <2>1, <2>2, <2>3 DEF Complete
<1> QED
  BY <1>1, Invariant, PTL

\* Neither updateTask nor subscribe puts an article into the feed of a user who has
\* not asked for a source that tweeted it.
THEOREM FeedsAreWantedHolds == Spec => []FeedsAreWanted
<1>1. IInv => FeedsAreWanted
  BY DEF IInv
<1> QED
  BY <1>1, Invariant, PTL
-----------------------------------------------------------------------------
(* Nobody misses an article: the invariant.                                *)

\* A subscription without failures has an article, or a goroutine that makes it, for
\* each stub that it has looked up, and then delivers all.
Served(k) ==
  job[k].clean => \A stub \in job[k].stubs :
    /\ job[k].pc = "create" => \/ job[k].existing[UrlOf(stub)] # None
                               \/ stub \in job[k].saving \cup job[k].storing
                               \/ job[k].result[UrlOf(stub)] # None
    /\ job[k].pc = "distribute" => \/ <<user[k], UrlOf(stub)>> \in job[k].todo
                                   \/ feeds[<<user[k], UrlOf(stub)>>] # None
    /\ job[k].pc = "done" => feeds[<<user[k], UrlOf(stub)>>] # None

\* While nothing has failed, requests know of no failure.
Tidy == faults = 0 => \A j \in Job : job[j].clean /\ ~job[j].failed

\* What updates have ingested was tweeted.
Ingests == \A j \in Update, url \in Url : <<j, url>> \in ingested => TweetedBy(url) # {}

\* An update has made the article url and has still to give it to u, or to find out
\* that it has to.
Owes(j, u, url) ==
  \/ /\ job[j].pc = "create"
     /\ \/ job[j].result[url] # None
        \/ \E stub \in job[j].storing : UrlOf(stub) = url
  \/ url \in job[j].asking
  \/ <<u, url>> \in job[j].todo

\* The subscription k has still to read its timeline, or has found url there.
Past == {"find", "create", "distribute", "done"}
Catches(k, url) ==
  \/ job[k].pc \in {"follow", "timeline"}
  \/ job[k].pc \in Past /\ \E stub \in job[k].stubs : UrlOf(stub) = url

\* A user whom an update missed, since the subscription came later: the subscription
\* itself brings the article, if it is on the timeline.
Late(u, s, url) ==
  /\ <<u, s>> \notin Subscribed
  /\ \/ s \notin OnTimelineOf(url)
     \/ \E k \in Subscribe : user[k] = u /\ handle[k] = s /\ Catches(k, url)

Covered ==
  faults = 0 =>
    \A j \in Update, u \in User, s \in Source, url \in Url :
      <<j, url>> \in ingested /\ <<u, s>> \in subs /\ TweetedBy(url) = {s}
      => Owes(j, u, url) \/ feeds[<<u, url>>] # None \/ Late(u, s, url)

MInv == (\A k \in Subscribe : Served(k)) /\ Tidy /\ Ingests /\ Covered
-----------------------------------------------------------------------------
(* What all steps have in common.                                          *)

Others(j) == \A i \in Job \ {j} : job'[i] = job[i]

\* The rest of Firestore and of Twitter stays, feeds only grow.
Calm(j) ==
  /\ Others(j)
  /\ UNCHANGED tweets
  /\ \A u \in User, url \in Url : feeds[<<u, url>>] # None => feeds'[<<u, url>>] # None

\* New subscriptions are those of a request that goes on to its timeline.
NewSubs(j) ==
  /\ subs \subseteq subs'
  /\ \A u \in User, s \in Source : <<u, s>> \in subs' \ subs =>
       j \in Subscribe /\ user[j] = u /\ handle[j] = s /\ job'[j].pc = "follow"

\* What an update ingests it owes to everyone.
NewArticles(j) ==
  /\ ingested \subseteq ingested'
  /\ \A i \in Update, url \in Url : <<i, url>> \in ingested' \ ingested =>
       /\ i = j /\ TweetedBy(url) # {}
       /\ \A u \in User : Owes(j, u, url)'

\* A subscription that has not read its timeline finds there what is there.
GoesOn(j) ==
  j \in Subscribe => \A url \in Url :
    Catches(j, url) /\ handle[j] \in OnTimelineOf(url) /\ TweetedBy(url) = {handle[j]}
    => Catches(j, url)'

\* An update pays what it owes.
Pays(j) ==
  j \in Update => \A u \in User, s \in Source, url \in Url :
    Owes(j, u, url) /\ <<u, s>> \in subs /\ TweetedBy(url) = {s}
    => Owes(j, u, url)' \/ feeds'[<<u, url>>] # None

\* Timelines change only with tweets.
LEMMA SameTimelines ==
  ASSUME UNCHANGED tweets, NEW url
  PROVE  TweetedBy(url)' = TweetedBy(url) /\ OnTimelineOf(url)' = OnTimelineOf(url)
BY DEF TweetedBy, OnTimelineOf, Newest, articleStubsFromTweets, Range, UrlOf

\* A step of request j keeps the invariant if it does so for j.
LEMMA StepMissesNone ==
  ASSUME IInv, MInv, NEW j \in Job, Calm(j),
         j \in Subscribe => Served(j)',
         faults' = 0 => /\ faults = 0 /\ job'[j].clean /\ ~job'[j].failed
                        /\ NewSubs(j) /\ GoesOn(j) /\ Pays(j),
         NewArticles(j)
  PROVE  MInv'
<1>1. ASSUME NEW k \in Subscribe PROVE Served(k)'
  <2>1. CASE k = j
    BY <2>1
  <2>2. CASE k # j
    <3>1. k \in Job /\ job'[k] = job[k]
      BY <2>2 DEF Calm, Others, Job
    <3>2. job[k] \in JobState /\ user[k] \in User
      BY <3>1, PipelineAssumption DEF IInv, TypeOK
    <3>3. \A stub \in job[k].stubs : UrlOf(stub) \in Url /\ UrlOf(stub)' = UrlOf(stub)
      BY <3>2, UrlType DEF JobState, UrlOf
    <3>4. Served(k)
      BY DEF MInv
    <3> QED
      BY <3>1, <3>2, <3>3, <3>4 DEF Served, Calm
  <2> QED
    BY <2>1, <2>2
<1>2. Tidy'
  BY DEF Tidy, MInv, Calm, Others
<1>3. Ingests'
  <2>1. UNCHANGED tweets
    BY DEF Calm
  <2> QED
    BY <2>1, SameTimelines DEF Ingests, MInv, NewArticles
<1>4. ASSUME faults' = 0, NEW i \in Update, NEW u \in User, NEW s \in Source, NEW url \in Url,
             <<i, url>> \in ingested', <<u, s>> \in subs', TweetedBy(url)' = {s}
      PROVE  Owes(i, u, url)' \/ feeds'[<<u, url>>] # None \/ Late(u, s, url)'
  <2>1. /\ NewSubs(j) /\ GoesOn(j) /\ Pays(j) /\ faults = 0
        /\ TweetedBy(url) = {s} /\ OnTimelineOf(url)' = OnTimelineOf(url)
    BY <1>4, SameTimelines DEF Calm
  <2>2. CASE <<i, url>> \notin ingested
    BY <1>4, <2>2 DEF NewArticles
  <2>3. CASE <<u, s>> \notin subs
    <3>1. <<u, s>> \notin Subscribed
      BY <2>3 DEF IInv
    <3>2. j \in Subscribe /\ user[j] = u /\ handle[j] = s /\ Catches(j, url)'
      BY <1>4, <2>1, <2>3 DEF NewSubs, Catches
    <3> QED
      BY <3>1, <3>2 DEF Late
  <2>4. CASE <<i, url>> \in ingested /\ <<u, s>> \in subs
    <3>1. Owes(i, u, url) \/ feeds[<<u, url>>] # None \/ Late(u, s, url)
      BY <2>1, <2>4 DEF MInv, Covered
    <3>2. CASE Owes(i, u, url)
      <4>1. CASE i = j
        BY <2>1, <2>4, <3>2, <4>1 DEF Pays
      <4>2. CASE i # j
        BY <3>2, <4>2 DEF Owes, Calm, Others, Job, UrlOf
      <4> QED
        BY <4>1, <4>2
    <3>3. CASE feeds[<<u, url>>] # None
      BY <3>3 DEF Calm
    <3>4. CASE Late(u, s, url)
      <4>1. CASE s \notin OnTimelineOf(url)
        BY <2>1, <3>4, <4>1 DEF Late
      <4>2. CASE s \in OnTimelineOf(url)
        <5>1. PICK k \in Subscribe : user[k] = u /\ handle[k] = s /\ Catches(k, url)
          BY <3>4, <4>2 DEF Late
        <5>2. CASE k = j
          BY <2>1, <3>4, <4>2, <5>1, <5>2 DEF GoesOn, Late
        <5>3. CASE k # j
          <6>1. job'[k] = job[k]
            BY <5>3 DEF Calm, Others, Job
          <6>2. Catches(k, url)'
            BY <5>1, <6>1 DEF Catches, UrlOf
          <6> QED
            BY <3>4, <5>1, <6>2 DEF Late
        <5> QED
          BY <5>2, <5>3
      <4> QED
        BY <4>1, <4>2
    <3> QED
      BY <3>1, <3>2, <3>3, <3>4
  <2> QED
    BY <2>2, <2>3, <2>4
<1>5. Covered'
  BY <1>4 DEF Covered
<1> QED
  BY <1>1, <1>2, <1>3, <1>5 DEF MInv

\* A step that ingests nothing owes nothing new.
LEMMA SameArticles == ASSUME NEW j, UNCHANGED ingested PROVE NewArticles(j)
BY DEF NewArticles

\* A step that subscribes nobody brings no new subscriptions.
LEMMA SameSubs == ASSUME NEW j, UNCHANGED subs PROVE NewSubs(j)
BY DEF NewSubs

\* After a fault the number of faults is not zero.
LEMMA FaultCounts == ASSUME IInv, Fault PROVE faults' # 0
<1>1. faults \in 0..MaxFaults
  BY DEF IInv, TypeOK
<1> QED
  BY <1>1, PipelineAssumption DEF Fault

\* As long as nothing has failed every request is clean.
LEMMA NothingFailed ==
  ASSUME MInv, faults' = 0, NoFault, NEW j \in Job
  PROVE  faults = 0 /\ job[j].clean /\ ~job[j].failed
BY DEF MInv, Tidy, NoFault

\* Only while it creates and distributes does an update owe something.
LEMMA OwesNothing ==
  ASSUME IInv, NEW j \in Job, job[j].pc \notin {"create", "distribute"}, NEW u, NEW url
  PROVE  ~Owes(j, u, url)
<1>1. job[j].asking = {} /\ job[j].todo = {}
  BY DEF IInv, Sound, Deliveries
<1> QED
  BY <1>1 DEF Owes

\* The steps of a request before it makes articles.
LEMMA EarlyMissesNone ==
  ASSUME IInv, MInv, NEW j \in Job, Others(j), job[j].pc \notin {"create", "distribute"},
         UNCHANGED <<tweets, feeds, ingested>>,
         j \in Subscribe => ~job'[j].clean \/ job'[j].pc \in {"follow", "timeline", "find"},
         faults' = 0 => /\ faults = 0 /\ job'[j].clean /\ ~job'[j].failed
                        /\ NewSubs(j) /\ GoesOn(j)
  PROVE  MInv'
<1>1. Calm(j)
  BY DEF Calm
<1>2. j \in Subscribe => Served(j)'
  BY DEF Served
<1>3. Pays(j)
  BY OwesNothing DEF Pays
<1> QED
  BY <1>1, <1>2, <1>3, SameArticles, StepMissesNone

\* Updates and test pages begin owing nothing.
LEMMA StartMissesNone ==
  ASSUME IInv, MInv, NEW j \in Job, StartUpdate(j) \/ StartSourceTest(j) \/ StartIngestTest(j)
  PROVE  MInv'
<1>1. /\ Others(j) /\ job[j].pc \in {"idle", "done"} /\ NoFault
      /\ UNCHANGED <<tweets, feeds, ingested, subs>>
  BY DEF IInv, TypeOK, Others, StartUpdate, StartSourceTest, StartIngestTest, store, At, NoFault
<1>2. j \notin Subscribe
  BY PipelineAssumption DEF StartUpdate, StartSourceTest, StartIngestTest
<1>3. job'[j].clean /\ ~job'[j].failed
  <2> DEFINE stubs == {[link |-> link, source |-> "test"] : link \in typed[j]}
  <2>1. \/ \E n : job'[j] = NewJob("timeline", n)
        \/ job'[j] = [NewJob("find", 1) EXCEPT !.stubs = stubs, !.finding = stubs]
    BY DEF IInv, TypeOK, StartUpdate, StartSourceTest, StartIngestTest
  <2> HIDE DEF stubs
  <2>2. \A pc, n : NewJob(pc, n).clean /\ ~NewJob(pc, n).failed
    BY DEF NewJob
  <2>3. [NewJob("find", 1) EXCEPT !.stubs = stubs, !.finding = stubs].clean = NewJob("find", 1).clean
    BY DEF NewJob
  <2>4. [NewJob("find", 1) EXCEPT !.stubs = stubs, !.finding = stubs].failed = NewJob("find", 1).failed
    BY DEF NewJob
  <2> QED
    BY <2>1, <2>2, <2>3, <2>4
<1>4. faults' = 0 => faults = 0
  BY <1>1 DEF NoFault
<1>5. GoesOn(j)
  BY <1>2 DEF GoesOn
<1> QED
  BY <1>1, <1>2, <1>3, <1>4, <1>5, SameSubs, EarlyMissesNone

\* A new subscription has still to read its timeline.
LEMMA StartSubscribeMissesNone ==
  ASSUME IInv, MInv, NEW j \in Job, StartSubscribe(j) PROVE MInv'
<1>1. /\ Others(j) /\ job[j].pc = "idle" /\ j \in Subscribe
      /\ UNCHANGED <<tweets, feeds, ingested>>
  BY DEF IInv, TypeOK, Others, StartSubscribe, At
<1>2. job'[j].pc = "follow" /\ ~job'[j].failed /\ (NoFault => job'[j].clean)
  <2>1. \/ job'[j] = NewJob("follow", 1)
        \/ job'[j] = [NewJob("follow", 1) EXCEPT !.clean = FALSE] /\ Fault
    BY DEF IInv, TypeOK, StartSubscribe
  <2>2. Fault => ~NoFault
    <3>1. faults \in 0..MaxFaults
      BY DEF IInv, TypeOK
    <3> QED
      BY <3>1 DEF Fault, NoFault
  <2> QED
    BY <2>1, <2>2 DEF NewJob
<1>3. GoesOn(j)
  BY <1>1 DEF GoesOn, Catches, Past
<1>4. ASSUME faults' = 0 PROVE NoFault /\ NewSubs(j)
  <2>1. NoFault /\ subs' = subs \cup {<<user[j], handle[j]>>}
    BY <1>4, FaultCounts DEF StartSubscribe
  <2> QED
    BY <1>1, <1>2, <2>1 DEF NewSubs
<1> QED
  BY <1>1, <1>2, <1>3, <1>4, NothingFailed, EarlyMissesNone

\* A crash is a fault.
LEMMA CrashMissesNone ==
  ASSUME IInv, MInv, NEW j \in Job, Crash(j) PROVE MInv'
<1>1. Others(j) /\ UNCHANGED <<tweets, feeds, ingested>> /\ faults' # 0
  BY FaultCounts DEF IInv, TypeOK, Others, Crash, store
<1>2. j \in Subscribe => ~job'[j].clean
  BY PipelineAssumption DEF IInv, TypeOK, Crash, NewJob
<1>3. Calm(j) /\ (j \in Subscribe => Served(j)')
  BY <1>1, <1>2 DEF Calm, Served
<1> QED
  BY <1>1, <1>3, SameArticles, StepMissesNone

\* After it has followed its source a subscription reads the timeline.
LEMMA FollowMissesNone ==
  ASSUME IInv, MInv, NEW j \in Job, Follow(j) PROVE MInv'
<1>1. /\ Others(j) /\ job[j].pc = "follow" /\ job'[j].pc = "timeline"
      /\ UNCHANGED <<tweets, feeds, ingested, subs>>
  BY DEF IInv, TypeOK, JobState, Others, Follow, At, store
<1>2. ASSUME faults' = 0 PROVE NoFault /\ job'[j].clean = job[j].clean /\ job'[j].failed = job[j].failed
  BY <1>2, FaultCounts DEF IInv, TypeOK, JobState, Follow
<1>3. GoesOn(j)
  BY <1>1 DEF GoesOn, Catches
<1> QED
  BY <1>1, <1>2, <1>3, SameSubs, NothingFailed, EarlyMissesNone

\* What is still on the timeline of its source is found there.
LEMMA OnTimeline ==
  ASSUME NEW s \in Source, NEW url, s \in OnTimelineOf(url), TweetedBy(url) = {s}
  PROVE  \E stub \in articleStubsFromTweets(Newest({s}, UserCount)) : UrlOf(stub) = url
<1>1. PICK stub \in articleStubsFromTweets(Range(tweets)) : UrlOf(stub) = url /\ stub.source = s
  BY DEF TweetedBy
<1>2. stub \in Newest({s}, UserCount)
  BY <1>1 DEF OnTimelineOf
<1> QED
  BY <1>1, <1>2 DEF articleStubsFromTweets

\* A subscription finds on its timeline what is there.
LEMMA TimelineMissesNone ==
  ASSUME IInv, MInv, NEW j \in Job, Timeline(j) PROVE MInv'
<1> DEFINE stubs == articleStubsFromTweets(IF j \in Update THEN Newest(followed, HomeCount)
                                                           ELSE Newest({handle[j]}, UserCount))
<1>1. /\ Others(j) /\ job[j].pc = "timeline" /\ UNCHANGED <<tweets, feeds, ingested, subs>>
  BY DEF IInv, TypeOK, JobState, Others, Timeline, At, store
<1>2. \/ job' = [job EXCEPT ![j].pc = "find", ![j].stubs = stubs, ![j].finding = stubs] /\ NoFault
      \/ job' = [job EXCEPT ![j].pc = "done", ![j].clean = FALSE] /\ Fault
  BY DEF Timeline
<1> HIDE DEF stubs
<1>3. ~job'[j].clean \/ job'[j].pc = "find"
  BY <1>2 DEF IInv, TypeOK, JobState
<1>4. ASSUME faults' = 0
      PROVE  /\ NoFault /\ job'[j].clean = job[j].clean /\ job'[j].failed = job[j].failed
             /\ job'[j].stubs = stubs /\ job'[j].pc = "find"
  BY <1>2, <1>4, FaultCounts DEF IInv, TypeOK, JobState
<1>5. ASSUME faults' = 0 PROVE GoesOn(j)
  <2>1. SUFFICES ASSUME j \in Subscribe, NEW url \in Url,
                        handle[j] \in OnTimelineOf(url), TweetedBy(url) = {handle[j]}
                 PROVE  Catches(j, url)'
    BY DEF GoesOn
  <2>2. stubs = articleStubsFromTweets(Newest({handle[j]}, UserCount)) /\ handle[j] \in Source
    BY <2>1, PipelineAssumption DEF stubs
  <2>3. \E stub \in stubs : UrlOf(stub) = url
    BY <2>1, <2>2, OnTimeline
  <2> QED
    BY <1>4, <1>5, <2>3 DEF Catches, Past, UrlOf
<1> QED
  BY <1>1, <1>3, <1>4, <1>5, SameSubs, NothingFailed, EarlyMissesNone

\* Looking up articles changes no stub.
LEMMA FindMissesNone ==
  ASSUME IInv, MInv, NEW j \in Job, NEW stub \in job[j].stubs, Find(j, stub) PROVE MInv'
<1>1. /\ Others(j) /\ job[j].pc = "find" /\ UNCHANGED <<tweets, feeds, ingested, subs>>
  BY DEF IInv, TypeOK, JobState, Others, Find, At, store
<1>2. job'[j].pc = "find" /\ job'[j].stubs = job[j].stubs /\ job'[j].failed = job[j].failed
  BY <1>1 DEF IInv, TypeOK, JobState, Find
<1>3. ASSUME faults' = 0 PROVE NoFault /\ job'[j].clean = job[j].clean
  BY <1>3, FaultCounts DEF IInv, TypeOK, JobState, Find
<1>4. GoesOn(j)
  BY <1>1, <1>2 DEF GoesOn, Catches, UrlOf
<1> QED
  BY <1>1, <1>2, <1>3, <1>4, SameSubs, NothingFailed, EarlyMissesNone

\* What is known of the state of a request, to be cited for its fields.
LEMMA RequestType ==
  ASSUME IInv, NEW j \in Job
  PROVE  /\ job \in [Job -> JobState] /\ job[j] \in JobState
         /\ \A stub \in job[j].stubs : UrlOf(stub) \in Url /\ stub.source \in Source
<1>1. job \in [Job -> JobState] /\ job[j] \in JobState
  BY DEF IInv, TypeOK
<1>2. job[j].stubs \subseteq Stub
  BY <1>1 DEF JobState
<1> QED
  BY <1>1, <1>2, UrlType

\* Without a fault there is an article or a goroutine for each stub.
LEMMA FetchMissesNone == ASSUME IInv, MInv, NEW j \in Job, Fetch(j) PROVE MInv'
<1> DEFINE new == {s \in job[j].stubs : job[j].existing[UrlOf(s)] = None}
           urls == {UrlOf(s) : s \in new}
<1>1. /\ job[j].pc = "find" /\ UNCHANGED <<tweets, feeds, ingested, subs>>
  BY DEF Fetch, At, store
<1>2. PICK fetched :
        /\ IF fetched = urls THEN NoFault ELSE Fault
        /\ job' = [job EXCEPT ![j].pc = "create",
                              ![j].saving = {s \in new : UrlOf(s) \in fetched},
                              ![j].clean = @ /\ fetched = urls]
  BY DEF Fetch
<1> DEFINE saving == {s \in new : UrlOf(s) \in fetched}
           whole == fetched = urls
<1>3. whole => saving = new
  OBVIOUS
<1>4. job' = [job EXCEPT ![j].pc = "create", ![j].saving = saving, ![j].clean = @ /\ whole]
  BY <1>2
<1>5. IF whole THEN NoFault ELSE Fault
  BY <1>2
<1> HIDE DEF saving, whole
<1>6. job \in [Job -> JobState]
  BY RequestType
<1>7. /\ Others(j) /\ job'[j].pc = "create" /\ job'[j].saving = saving
      /\ job'[j].stubs = job[j].stubs /\ job'[j].existing = job[j].existing
      /\ job'[j].failed = job[j].failed /\ job'[j].clean = (job[j].clean /\ whole)
  BY <1>4, <1>6 DEF JobState, Others
<1>8. Served(j)'
  <2>1. ASSUME whole, NEW stub \in job[j].stubs
        PROVE  job[j].existing[UrlOf(stub)] # None \/ stub \in saving
    BY <1>3, <2>1
  <2> QED
    BY <1>7, <2>1 DEF Served, UrlOf
<1>9. Calm(j) /\ Pays(j)
  BY <1>1, <1>7, OwesNothing DEF Calm, Pays
<1>10. GoesOn(j)
  BY <1>1, <1>7 DEF GoesOn, Catches, Past, UrlOf
<1>11. ASSUME faults' = 0 PROVE faults = 0 /\ job'[j].clean /\ ~job'[j].failed
  <2>1. NoFault /\ whole
    BY <1>5, <1>11, FaultCounts
  <2> QED
    BY <1>7, <1>11, <2>1, NothingFailed
<1> QED
  BY <1>1, <1>8, <1>9, <1>10, <1>11, SameArticles, SameSubs, StepMissesNone

\* An update owes what it has ingested until its content is set.
LEMMA SaveMissesNone ==
  ASSUME IInv, MInv, NEW j \in Job, NEW stub \in job[j].stubs, Save(j, stub) PROVE MInv'
<1>1. /\ job[j].pc = "create" /\ stub \in job[j].saving /\ UNCHANGED <<tweets, feeds, subs>>
  BY DEF Save, At
<1>2. job \in [Job -> JobState] /\ UrlOf(stub) \in Url
  BY RequestType
<1>3. /\ Others(j) /\ job'[j].pc = "create" /\ job'[j].stubs = job[j].stubs
      /\ job'[j].existing = job[j].existing /\ job'[j].result = job[j].result
      /\ job'[j].failed = job[j].failed /\ job'[j].asking = job[j].asking
      /\ job'[j].todo = job[j].todo /\ job[j].storing \subseteq job'[j].storing
  BY <1>1, <1>2 DEF JobState, Others, Save
<1>4. \/ /\ NoFault /\ ingested' = ingested \cup {<<j, UrlOf(stub)>>}
         /\ job'[j].clean = job[j].clean /\ stub \in job'[j].storing
         /\ job'[j].saving = job[j].saving \ {stub}
      \/ Fault /\ UNCHANGED ingested /\ ~job'[j].clean
  BY <1>1, <1>2 DEF JobState, Save
<1>5. j \in Subscribe => Served(j)'
  <2>1. ASSUME j \in Subscribe PROVE Served(j)
    BY <2>1 DEF MInv
  <2> QED
    BY <1>1, <1>3, <1>4, <2>1 DEF Served, UrlOf
<1>6. Calm(j) /\ Pays(j) /\ GoesOn(j)
  BY <1>1, <1>3 DEF Calm, Pays, Owes, GoesOn, Catches, Past, UrlOf
<1>7. NewArticles(j)
  <2>1. CASE ingested' = ingested \cup {<<j, UrlOf(stub)>>} /\ stub \in job'[j].storing
    <3>1. ASSUME j \in Update PROVE TweetedBy(UrlOf(stub)) # {}
      <4>1. stub \in Tweeted
        BY <3>1, PipelineAssumption DEF IInv, Sound, Stubs
      <4> QED
        BY <4>1 DEF Tweeted, TweetedBy
    <3>2. \A u : Owes(j, u, UrlOf(stub))'
      BY <1>3, <2>1 DEF Owes, UrlOf
    <3> QED
      BY <2>1, <3>1, <3>2 DEF NewArticles
  <2>2. CASE UNCHANGED ingested
    BY <2>2, SameArticles
  <2> QED
    BY <1>4, <2>1, <2>2
<1>8. ASSUME faults' = 0 PROVE faults = 0 /\ job'[j].clean /\ ~job'[j].failed
  <2>1. NoFault /\ job'[j].clean = job[j].clean
    BY <1>4, <1>8, FaultCounts
  <2> QED
    BY <1>3, <1>8, <2>1, NothingFailed
<1> QED
  BY <1>1, <1>5, <1>6, <1>7, <1>8, SameSubs, StepMissesNone

\* With its content set an article is in the result.
LEMMA StoreMissesNone ==
  ASSUME IInv, MInv, NEW j \in Job, NEW stub \in job[j].stubs, Store(j, stub) PROVE MInv'
<1> DEFINE url == UrlOf(stub)
           map == [job[j].result EXCEPT ![url] = stub.source]
<1>1. job[j].pc = "create" /\ stub \in job[j].storing /\ UNCHANGED <<tweets, feeds, subs, ingested>>
  BY DEF Store, At
<1>2. job \in [Job -> JobState] /\ url \in Url /\ stub.source \in Source
  BY RequestType
<1>3. job[j].result \in [Url -> Source \cup {None}]
  BY <1>2 DEF JobState, ArticleMap
<1>4. map[url] # None /\ \A x \in Url : job[j].result[x] # None => map[x] # None
  BY <1>2, <1>3, PipelineAssumption
<1>5. \/ NoFault /\ job' = [job EXCEPT ![j] = [job[j] EXCEPT !.storing = @ \ {stub}, !.result = map]]
      \/ Fault /\ job' = [job EXCEPT ![j] = [job[j] EXCEPT !.storing = @ \ {stub}, !.clean = FALSE]]
  <2>1. CASE /\ job' = [job EXCEPT ![j].storing = @ \ {stub}, ![j].result[url] = stub.source]
             /\ NoFault
    <3>1. job' = [job EXCEPT ![j] = [job[j] EXCEPT !.storing = @ \ {stub}, !.result = map]]
      BY <1>2, <2>1
    <3> QED
      BY <2>1, <3>1
  <2>2. CASE Fault /\ job' = [job EXCEPT ![j].storing = @ \ {stub}, ![j].clean = FALSE]
    BY <2>2
  <2> QED
    BY <2>1, <2>2 DEF Store
<1> HIDE DEF url, map
<1>6. PICK r : /\ job' = [job EXCEPT ![j] = r]
               /\ \/ NoFault /\ r = [job[j] EXCEPT !.storing = @ \ {stub}, !.result = map]
                  \/ Fault /\ r = [job[j] EXCEPT !.storing = @ \ {stub}, !.clean = FALSE]
  BY <1>5
<1>7. /\ Others(j) /\ job'[j].pc = "create" /\ job'[j].stubs = job[j].stubs
      /\ job'[j].existing = job[j].existing /\ job'[j].saving = job[j].saving
      /\ job'[j].failed = job[j].failed /\ job'[j].asking = job[j].asking
      /\ job'[j].todo = job[j].todo /\ job'[j].storing = job[j].storing \ {stub}
      /\ \/ NoFault /\ job'[j].clean = job[j].clean /\ job'[j].result = map
         \/ Fault /\ ~job'[j].clean
  <2>1. job'[j] = r /\ Others(j) /\ job[j] \in JobState
    BY <1>2, <1>6 DEF Others
  <2>2. CASE NoFault /\ r = [job[j] EXCEPT !.storing = @ \ {stub}, !.result = map]
    BY <1>1, <2>1, <2>2 DEF JobState
  <2>3. CASE Fault /\ r = [job[j] EXCEPT !.storing = @ \ {stub}, !.clean = FALSE]
    BY <1>1, <2>1, <2>3 DEF JobState
  <2> QED
    BY <1>6, <2>2, <2>3
<1>8. ASSUME j \in Subscribe PROVE Served(j)'
  <2>1. SUFFICES ASSUME job'[j].clean, NEW s \in job[j].stubs
                 PROVE  \/ job[j].existing[UrlOf(s)] # None
                        \/ s \in job[j].saving \cup job'[j].storing
                        \/ job'[j].result[UrlOf(s)] # None
    BY <1>7 DEF Served, UrlOf
  <2>2. job[j].clean /\ job'[j].result = map /\ Served(j)
    BY <1>7, <1>8, <2>1 DEF MInv
  <2>3. \/ job[j].existing[UrlOf(s)] # None
        \/ s \in job[j].saving \cup job[j].storing
        \/ job[j].result[UrlOf(s)] # None
    BY <1>1, <2>1, <2>2 DEF Served
  <2>4. UrlOf(s) \in Url
    BY RequestType
  <2> QED
    BY <1>4, <1>7, <2>2, <2>3, <2>4 DEF url
<1>9. Calm(j) /\ GoesOn(j)
  BY <1>1, <1>7 DEF Calm, GoesOn, Catches, Past, UrlOf
<1>10. ASSUME faults' = 0
       PROVE  faults = 0 /\ job'[j].clean /\ ~job'[j].failed /\ Pays(j)
  <2>1. NoFault /\ job'[j].clean = job[j].clean /\ job'[j].result = map
    BY <1>7, <1>10, FaultCounts
  <2>2. ASSUME NEW u \in User, NEW x \in Url, Owes(j, u, x) PROVE Owes(j, u, x)'
    <3>1. CASE job[j].result[x] # None \/ x \in job[j].asking \/ <<u, x>> \in job[j].todo
      BY <1>4, <1>7, <2>1, <3>1 DEF Owes
    <3>2. CASE \E s \in job[j].storing : UrlOf(s) = x
      <4>1. CASE x = url
        BY <1>4, <1>7, <2>1, <4>1 DEF Owes
      <4>2. CASE x # url
        BY <1>7, <3>2, <4>2 DEF Owes, url, UrlOf
      <4> QED
        BY <4>1, <4>2
    <3> QED
      BY <2>2, <3>1, <3>2 DEF Owes
  <2>3. Pays(j)
    BY <2>2 DEF Pays
  <2> QED
    BY <1>7, <1>10, <2>1, <2>3, NothingFailed
<1> QED
  BY <1>1, <1>8, <1>9, <1>10, SameArticles, SameSubs, StepMissesNone

\* What was made is to be distributed.
LEMMA IngestedMissesNone == ASSUME IInv, MInv, NEW j \in Job, Ingested(j) PROVE MInv'
<1>1. /\ job[j].pc = "create" /\ job[j].saving = {} /\ job[j].storing = {} /\ NoFault
      /\ UNCHANGED <<tweets, feeds, subs, ingested>>
  BY DEF Ingested, At, store, NoFault
<1>2. job \in [Job -> JobState] /\ job[j] \in JobState
  BY RequestType
<1>3. /\ Others(j) /\ job'[j].pc \in {"distribute", "done"} /\ job'[j].stubs = job[j].stubs
      /\ job'[j].failed = job[j].failed /\ job'[j].clean = job[j].clean
      /\ job[j].todo \subseteq job'[j].todo
  <2>1. job[j].todo = {}
    BY <1>1 DEF IInv, Sound, Deliveries
  <2>2. CASE j \in Update
    BY <1>2, <2>1, <2>2 DEF JobState, Others, Ingested
  <2>3. CASE j \notin Update /\ j \in Subscribe
    BY <1>2, <2>1, <2>3 DEF JobState, Others, Ingested
  <2>4. CASE j \notin Update /\ j \notin Subscribe
    BY <1>2, <2>1, <2>4 DEF JobState, Others, Ingested
  <2> QED
    BY <2>2, <2>3, <2>4
<1>4. ASSUME j \in Subscribe PROVE Served(j)'
  <2>1. job'[j].pc = "distribute" /\ job'[j].todo = {user[j]} \X Keys(Merged(j))
    BY <1>2, <1>4, PipelineAssumption DEF JobState, Ingested
  <2>2. SUFFICES ASSUME job[j].clean, NEW stub \in job[j].stubs
                 PROVE  UrlOf(stub) \in Keys(Merged(j))
    BY <1>3, <2>1 DEF Served, UrlOf
  <2>3. Served(j) /\ UrlOf(stub) \in Url
    BY <1>4, RequestType DEF MInv
  <2> QED
    BY <1>1, <2>2, <2>3 DEF Served, Keys, Merged
<1>5. Pays(j)
  <2>1. SUFFICES ASSUME j \in Update, NEW u \in User, NEW url \in Url, Owes(j, u, url)
                 PROVE  Owes(j, u, url)'
    BY DEF Pays
  <2>2. job[j].asking = {} /\ job[j].todo = {}
    BY <1>1 DEF IInv, Sound, Deliveries
  <2>3. url \in Keys(job[j].result)
    BY <1>1, <2>1, <2>2 DEF Owes, Keys
  <2>4. job'[j].asking = Keys(job[j].result)
    BY <1>2, <2>1 DEF JobState, Ingested
  <2> QED
    BY <2>3, <2>4 DEF Owes
<1>6. Calm(j) /\ GoesOn(j)
  BY <1>1, <1>3 DEF Calm, GoesOn, Catches, Past, UrlOf
<1>7. faults' = 0 => faults = 0 /\ job'[j].clean /\ ~job'[j].failed
  BY <1>1, <1>3, NothingFailed
<1> QED
  BY <1>1, <1>4, <1>5, <1>6, <1>7, SameArticles, SameSubs, StepMissesNone

\* Whoever is subscribed when the update asks gets the article.
LEMMA GetSubscribersMissesNone ==
  ASSUME IInv, MInv, NEW j \in Job, NEW url \in Url, GetSubscribers(j, url) PROVE MInv'
<1> DEFINE pairs == Subscribers(job[j].result[url]) \X {url}
<1>1. /\ job[j].pc = "distribute" /\ url \in job[j].asking
      /\ UNCHANGED <<tweets, feeds, subs, ingested>>
  BY DEF GetSubscribers, At, store
<1>2. Deliveries(j) /\ Results(j) /\ Stubs(j) /\ job \in [Job -> JobState]
  BY Distributes, RequestType
<1>3. j \in Update /\ j \notin Subscribe
  BY <1>1, <1>2, PipelineAssumption DEF Deliveries
<1>4. PICK found \in SUBSET Subscribers(job[j].result[url]) :
        /\ IF found = Subscribers(job[j].result[url]) THEN NoFault ELSE Fault
        /\ job' = [job EXCEPT ![j].asking = @ \ {url}, ![j].todo = @ \cup (found \X {url}),
                   ![j].clean = @ /\ found = Subscribers(job[j].result[url])]
  BY DEF GetSubscribers
<1>5. \A u \in User : <<u, job[j].result[url]>> \in subs => <<u, url>> \in pairs
  BY DEF Subscribers
<1> HIDE DEF pairs
<1>6. Others(j)
  BY <1>2, <1>4 DEF Others
<1>7. ASSUME faults' = 0
      PROVE  faults = 0 /\ job'[j].clean /\ ~job'[j].failed /\ Pays(j)
  <2>1. /\ NoFault
        /\ job' = [job EXCEPT ![j].asking = @ \ {url}, ![j].todo = @ \cup pairs,
                               ![j].clean = @ /\ TRUE]
    <3>1. found = Subscribers(job[j].result[url])
      BY <1>4, <1>7, FaultCounts
    <3> QED
      BY <1>4, <3>1 DEF pairs
  <2>2. /\ job'[j].clean = job[j].clean /\ job'[j].failed = job[j].failed
        /\ job'[j].asking = job[j].asking \ {url} /\ job'[j].todo = job[j].todo \cup pairs
    BY <1>2, <2>1 DEF JobState
  <2>3. ASSUME NEW u \in User, NEW s \in Source, NEW x \in Url,
               Owes(j, u, x), <<u, s>> \in subs, TweetedBy(x) = {s}
        PROVE  Owes(j, u, x)'
    <3>1. CASE x = url
      <4>1. PICK stub \in job[j].stubs : UrlOf(stub) = url /\ job[j].result[url] = stub.source
        BY <1>1, <1>2, <1>3 DEF Deliveries, Results
      <4>2. stub \in Tweeted
        BY <1>2, <1>3, PipelineAssumption DEF Stubs
      <4>3. job[j].result[url] = s
        BY <2>3, <3>1, <4>1, <4>2 DEF TweetedBy, Tweeted
      <4> QED
        BY <1>5, <2>2, <2>3, <3>1, <4>3 DEF Owes
    <3>2. CASE x # url
      BY <1>1, <2>2, <2>3, <3>2 DEF Owes
    <3> QED
      BY <3>1, <3>2
  <2>4. Pays(j)
    BY <2>3 DEF Pays
  <2> QED
    BY <1>7, <2>1, <2>2, <2>4, NothingFailed
<1>8. Calm(j) /\ GoesOn(j)
  BY <1>1, <1>3, <1>6 DEF Calm, GoesOn
<1> QED
  BY <1>1, <1>3, <1>7, <1>8, SameArticles, SameSubs, StepMissesNone

\* Without a fault a delivery is in the feed.
LEMMA DeliverMissesNone ==
  ASSUME IInv, MInv, NEW j \in Job, NEW u \in User, NEW url \in Url, Deliver(j, u, url) PROVE MInv'
<1> DEFINE d == <<u, url>>
<1>1. job[j].pc = "distribute" /\ d \in job[j].todo /\ UNCHANGED <<tweets, subs, ingested>>
  BY DEF Deliver, At
<1>2. job \in [Job -> JobState] /\ job[j] \in JobState /\ Deliveries(j)
  BY Distributes, RequestType
<1>3. job[j].result[url] # None
  BY <1>1, <1>2 DEF Deliveries, Keys
<1>4. /\ Others(j) /\ job'[j].pc = "distribute" /\ job'[j].stubs = job[j].stubs
      /\ job'[j].asking = job[j].asking /\ job'[j].todo = job[j].todo \ {d}
  BY <1>1, <1>2 DEF JobState, Others, Deliver
<1>5. \/ /\ NoFault /\ job'[j].clean = job[j].clean /\ job'[j].failed = job[j].failed
         /\ feeds' = [feeds EXCEPT ![d] = job[j].result[url]]
      \/ Fault /\ ~job'[j].clean /\ UNCHANGED feeds
  BY <1>1, <1>2 DEF JobState, Deliver
<1>6. \A v \in User, x \in Url : feeds[<<v, x>>] # None => feeds'[<<v, x>>] # None
  BY <1>3, <1>5, FeedsType
<1> HIDE DEF d
<1>8. ASSUME j \in Subscribe PROVE Served(j)'
  <2>1. SUFFICES ASSUME job'[j].clean, NEW stub \in job[j].stubs
                 PROVE  \/ <<user[j], UrlOf(stub)>> \in job'[j].todo
                        \/ feeds'[<<user[j], UrlOf(stub)>>] # None
    BY <1>4 DEF Served, UrlOf
  <2>2. Served(j) /\ job[j].clean /\ feeds'[d] # None
    BY <1>3, <1>5, <1>8, <2>1, FeedsType DEF MInv, d
  <2>3. UrlOf(stub) \in Url /\ user[j] \in User
    BY <1>8, RequestType, PipelineAssumption
  <2>4. \/ <<user[j], UrlOf(stub)>> \in job[j].todo
        \/ feeds[<<user[j], UrlOf(stub)>>] # None
    BY <1>1, <2>1, <2>2 DEF Served
  <2> QED
    BY <1>4, <1>6, <2>2, <2>3, <2>4
<1>9. ASSUME faults' = 0
      PROVE  faults = 0 /\ job'[j].clean /\ ~job'[j].failed /\ Pays(j)
  <2>1. /\ NoFault /\ job'[j].clean = job[j].clean /\ job'[j].failed = job[j].failed
        /\ feeds'[d] # None
    BY <1>3, <1>5, <1>9, FaultCounts, FeedsType DEF d
  <2>2. ASSUME NEW v \in User, NEW x \in Url, Owes(j, v, x)
        PROVE  Owes(j, v, x)' \/ feeds'[<<v, x>>] # None
    BY <1>1, <1>4, <2>1, <2>2 DEF Owes
  <2>3. Pays(j)
    BY <2>2 DEF Pays
  <2> QED
    BY <1>9, <2>1, <2>3, NothingFailed
<1>10. Calm(j) /\ GoesOn(j)
  BY <1>1, <1>4, <1>6 DEF Calm, GoesOn, Catches, Past, UrlOf
<1> QED
  BY <1>1, <1>8, <1>9, <1>10, SameArticles, SameSubs, StepMissesNone

\* Without a fault nothing is owed at the end.
LEMMA FinishMissesNone == ASSUME IInv, MInv, NEW j \in Job, Finish(j) PROVE MInv'
<1>1. /\ job[j].pc = "distribute" /\ Delivered(j) /\ (Fault \/ NoFault)
      /\ UNCHANGED <<tweets, feeds, subs, ingested>>
  BY DEF Finish, At
<1>2. job \in [Job -> JobState] /\ job[j] \in JobState
  BY RequestType
<1>3. /\ Others(j) /\ job'[j].pc = "done" /\ job'[j].stubs = job[j].stubs
      /\ job'[j].clean = job[j].clean /\ job'[j].failed = job[j].failed
  BY <1>2 DEF JobState, Others, Finish
<1>4. ASSUME j \in Subscribe PROVE Served(j)'
  <2>1. job[j].todo = {} /\ Served(j)
    BY <1>1, <1>4, PipelineAssumption DEF Delivered, MInv
  <2> QED
    BY <1>1, <1>3, <2>1 DEF Served, UrlOf
<1>5. ASSUME faults' = 0
      PROVE  faults = 0 /\ job'[j].clean /\ ~job'[j].failed /\ Pays(j)
  <2>1. faults = 0 /\ job[j].clean /\ ~job[j].failed
    BY <1>1, <1>5, FaultCounts, NothingFailed
  <2>2. job[j].asking = {} /\ job[j].todo = {}
    BY <1>1, <2>1 DEF Delivered
  <2>3. Pays(j)
    BY <1>1, <2>2 DEF Pays, Owes
  <2> QED
    BY <1>3, <2>1, <2>3
<1>6. Calm(j) /\ GoesOn(j)
  BY <1>1, <1>3 DEF Calm, GoesOn, Catches, Past, UrlOf
<1> QED
  BY <1>1, <1>4, <1>5, <1>6, SameArticles, SameSubs, StepMissesNone

\* A new tweet brings no old one back to the timeline.
LEMMA TimelineMoves ==
  ASSUME NEW status \in Status, tweets \in Seq(Status), Tweet(status),
         NEW sources, NEW count \in Nat,
         NEW old \in Range(tweets), old \in Newest(sources, count)'
  PROVE  old \in Newest(sources, count)
<1> DEFINE theirs == {i \in DOMAIN tweets : tweets[i].source \in sources}
           later == {i \in DOMAIN tweets' : tweets'[i].source \in sources}
<1>1. /\ tweets' = <<status>> \o tweets /\ Len(tweets') = Len(tweets) + 1
      /\ DOMAIN tweets = 1..Len(tweets) /\ DOMAIN tweets' = 1..Len(tweets') /\ Len(tweets) \in Nat
      /\ tweets'[1] = status /\ \A i \in 1..Len(tweets) : tweets'[i + 1] = tweets[i]
  BY DEF Tweet
<1>2. PICK n \in later : old = tweets'[n] /\ Cardinality({k \in later : k <= n}) <= count
  BY DEF Newest
<1>3. n # 1 /\ n \in 1..(Len(tweets) + 1)
  BY <1>1, <1>2 DEF Tweet, Range
<1>4. n - 1 \in 1..Len(tweets) /\ n \in Nat
  BY <1>1, <1>3
<1>5. old = tweets[n - 1] /\ n - 1 \in theirs
  <2>1. tweets'[(n - 1) + 1] = tweets[n - 1] /\ (n - 1) + 1 = n
    BY <1>1, <1>4
  <2> QED
    BY <1>1, <1>2, <1>4, <2>1
<1> DEFINE small == {k \in theirs : k <= n - 1}
           large == {k \in later : k <= n}
           next == [k \in small |-> k + 1]
<1>6. next \in Injection(small, large)
  <2>1. ASSUME NEW k \in small PROVE k + 1 \in large
    <3>1. k \in 1..Len(tweets) /\ k <= n - 1 /\ tweets[k].source \in sources
      BY <1>1
    <3>2. k + 1 \in 1..(Len(tweets) + 1) /\ k + 1 <= n
      BY <1>1, <1>4, <3>1
    <3>3. tweets'[k + 1].source \in sources
      BY <1>1, <3>1
    <3> QED
      BY <1>1, <3>2, <3>3
  <2>2. \A a, b \in small : a + 1 = b + 1 => a = b
    BY <1>1
  <2> HIDE DEF small, large
  <2>3. next \in [small -> large]
    BY <2>1
  <2> QED
    BY <2>2, <2>3 DEF Injection, IsInjective
<1>7. IsFiniteSet(large) /\ large \subseteq 1..n
  <2>1. large \subseteq 1..n
    BY <1>1
  <2>2. IsFiniteSet(1..n)
    BY <1>4, FS_Interval
  <2> HIDE DEF large
  <2> QED
    BY <2>1, <2>2, FS_Subset
<1>8. Cardinality(small) <= Cardinality(large) /\ Cardinality(small) \in Nat /\ Cardinality(large) \in Nat
  <2> HIDE DEF small, large, next
  <2> QED
    BY <1>6, <1>7, FS_Injection, FS_CardinalityType
<1>9. Cardinality(small) <= count
  BY <1>2, <1>8
<1> QED
  BY <1>5, <1>9 DEF Newest

\* A tweet of an ingested article by another source releases everyone, and a timeline
\* only loses older tweets.
LEMMA TweetMissesNone ==
  ASSUME IInv, MInv, NEW status \in Status, Tweet(status) PROVE MInv'
<1>1. /\ UNCHANGED <<followed, subs, articles, contents, feeds, warm, job, faults, ingested>>
      /\ tweets \in Seq(Status) /\ tweets' = <<status>> \o tweets
  BY DEF Tweet, store, IInv, TypeOK
<1>2. Range(tweets) \subseteq Range(tweets')
  <2>1. ASSUME NEW i \in DOMAIN tweets PROVE tweets[i] \in Range(tweets')
    <3>1. i + 1 \in DOMAIN tweets' /\ tweets'[i + 1] = tweets[i]
      BY <1>1
    <3> QED
      BY <3>1 DEF Range
  <2> QED
    BY <2>1 DEF Range
<1>3. \A url : TweetedBy(url) \subseteq TweetedBy(url)'
  BY <1>2 DEF TweetedBy, articleStubsFromTweets, UrlOf
<1>4. ASSUME NEW s \in Source, NEW url, s \notin OnTimelineOf(url) PROVE s \notin OnTimelineOf(url)'
  <2>1. PICK stub \in articleStubsFromTweets(Range(tweets)) :
          stub.source = s /\ UrlOf(stub) = url /\ stub \notin Newest({s}, UserCount)
    BY <1>4 DEF OnTimelineOf
  <2>2. stub \in articleStubsFromTweets(Range(tweets')) /\ stub \in Range(tweets)
    BY <1>2, <2>1 DEF articleStubsFromTweets
  <2>3. stub \notin Newest({s}, UserCount)'
    BY <1>1, <2>1, <2>2, TimelineMoves, PipelineAssumption
  <2> QED
    BY <2>1, <2>2, <2>3 DEF OnTimelineOf, UrlOf, articleStubsFromTweets
<1>5. \A k \in Subscribe : Served(k)'
  BY <1>1 DEF MInv, Served, UrlOf
<1>6. Tidy' /\ Ingests'
  BY <1>1, <1>3 DEF MInv, Tidy, Ingests
<1>7. ASSUME faults' = 0, NEW j \in Update, NEW u \in User, NEW s \in Source, NEW url \in Url,
             <<j, url>> \in ingested', <<u, s>> \in subs', TweetedBy(url)' = {s}
      PROVE  Owes(j, u, url)' \/ feeds'[<<u, url>>] # None \/ Late(u, s, url)'
  <2>1. TweetedBy(url) = {s}
    BY <1>1, <1>3, <1>7 DEF MInv, Ingests
  <2>2. Owes(j, u, url) \/ feeds[<<u, url>>] # None \/ Late(u, s, url)
    BY <1>1, <1>7, <2>1 DEF MInv, Covered
  <2>3. Owes(j, u, url) => Owes(j, u, url)'
    BY <1>1 DEF Owes, UrlOf
  <2>4. Late(u, s, url) => Late(u, s, url)'
    BY <1>1, <1>4 DEF Late, Catches, UrlOf
  <2> QED
    BY <1>1, <2>2, <2>3, <2>4
<1>8. Covered'
  BY <1>7 DEF Covered
<1> QED
  BY <1>5, <1>6, <1>8 DEF MInv

\* Nothing happens.
LEMMA StutterMissesNone == ASSUME MInv, UNCHANGED vars PROVE MInv'
<1>1. UNCHANGED <<tweets, subs, feeds, job, faults, ingested>>
  BY DEF vars, store
<1>2. \A k \in Subscribe : Served(k)'
  BY <1>1 DEF MInv, Served, UrlOf
<1>3. Tidy' /\ Ingests'
  BY <1>1, SameTimelines DEF MInv, Tidy, Ingests
<1>4. \A j, u, s, url : /\ Owes(j, u, url) => Owes(j, u, url)'
                        /\ Late(u, s, url) => Late(u, s, url)'
  BY <1>1, SameTimelines DEF Owes, Late, Catches, UrlOf
<1>5. Covered'
  BY <1>1, <1>4, SameTimelines DEF MInv, Covered
<1> QED
  BY <1>2, <1>3, <1>5 DEF MInv

\* The second invariant holds at first.
LEMMA InitMInv == Init => MInv
<1> SUFFICES ASSUME Init PROVE MInv
  OBVIOUS
<1>1. \A j \in Job : job[j] = NewJob("idle", 0)
  BY DEF Init
<1>2. \A j \in Job : job[j].stubs = {} /\ job[j].clean /\ ~job[j].failed
  <2>1. NewJob("idle", 0).stubs = {} /\ NewJob("idle", 0).clean /\ ~NewJob("idle", 0).failed
    BY DEF NewJob
  <2> QED
    BY <1>1, <2>1
<1>3. ingested = {}
  BY DEF Init
<1> QED
  BY <1>2, <1>3 DEF MInv, Served, Tidy, Ingests, Covered, Job

\* It is inductive relative to the first.
LEMMA NextMissesNone == IInv /\ MInv /\ [Next]_vars => MInv'
<1> SUFFICES ASSUME IInv, MInv, [Next]_vars PROVE MInv'
  OBVIOUS
<1>1. ASSUME NEW status \in Status, Tweet(status) PROVE MInv'
  BY <1>1, TweetMissesNone
<1>2. ASSUME NEW j \in Job,
             \/ StartUpdate(j) \/ StartSourceTest(j) \/ StartIngestTest(j)
             \/ StartSubscribe(j) \/ Crash(j) \/ Follow(j) \/ Timeline(j)
      PROVE  MInv'
  BY <1>2, StartMissesNone, StartSubscribeMissesNone, CrashMissesNone, FollowMissesNone,
     TimelineMissesNone
<1>3. ASSUME NEW j \in Job, Fetch(j) \/ Ingested(j) \/ Finish(j) PROVE MInv'
  BY <1>3, FetchMissesNone, IngestedMissesNone, FinishMissesNone
<1>4. ASSUME NEW j \in Job, NEW stub \in job[j].stubs,
             Find(j, stub) \/ Save(j, stub) \/ Store(j, stub)
      PROVE  MInv'
  BY <1>4, FindMissesNone, SaveMissesNone, StoreMissesNone
<1>5. ASSUME NEW j \in Job, NEW url \in Url, GetSubscribers(j, url) PROVE MInv'
  BY <1>5, GetSubscribersMissesNone
<1>6. ASSUME NEW j \in Job, NEW u \in User, NEW url \in Url, Deliver(j, u, url) PROVE MInv'
  BY <1>6, DeliverMissesNone
<1>7. CASE UNCHANGED vars
  BY <1>7, StutterMissesNone
<1> QED
  BY <1>1, <1>2, <1>3, <1>4, <1>5, <1>6, <1>7 DEF Next

\* The second invariant holds as well, for any requests, tweets and failures.
THEOREM MissesNone == Spec => []MInv
BY InitMInv, NextMissesNone, Invariant, PTL DEF Spec

\* A subscription without failures of its own leaves its user with all articles that
\* it found on the timeline, whoever ingests them at the same time.
THEOREM SubscribedUserIsServedHolds == Spec => []SubscribedUserIsServed
<1>1. MInv => SubscribedUserIsServed
  BY DEF MInv, Served, SubscribedUserIsServed, At
<1> QED
  BY <1>1, MissesNone, PTL

\* Without failures no subscriber misses what an update has ingested, however the
\* update's query, the subscription's write and its timeline interleave.
THEOREM NothingMissedHolds == Spec => []NothingMissed
<1>1. ASSUME IInv, MInv PROVE NothingMissed
  <2>1. SUFFICES ASSUME faults = 0, \A j \in Job : At(j, "idle") \/ At(j, "done"),
                        NEW u \in User, NEW s \in Source, NEW url \in Url,
                        <<u, s>> \in subs, Updated(url), TweetedBy(url) = {s},
                        <<u, s>> \in Subscribed \/ s \in OnTimelineOf(url)
                 PROVE  feeds[<<u, url>>] # None
    BY DEF NothingMissed
  <2>2. PICK j \in Update : <<j, url>> \in ingested
    BY <2>1 DEF Updated
  <2>3. Owes(j, u, url) \/ feeds[<<u, url>>] # None \/ Late(u, s, url)
    BY <1>1, <2>1, <2>2 DEF MInv, Covered
  <2>4. ~Owes(j, u, url)
    <3>1. j \in Job /\ job[j].pc \in {"idle", "done"}
      BY <2>1 DEF At, Job
    <3> QED
      BY <1>1, <3>1, OwesNothing
  <2>5. CASE Late(u, s, url)
    <3>1. PICK k \in Subscribe : user[k] = u /\ handle[k] = s /\ Catches(k, url)
      BY <2>1, <2>5 DEF Late
    <3>2. k \in Job /\ (job[k].pc = "idle" \/ job[k].pc = "done")
      BY <2>1 DEF At, Job
    <3>3. job[k].pc = "done" /\ \E stub \in job[k].stubs : UrlOf(stub) = url
      BY <3>1, <3>2 DEF Catches, Past
    <3>4. Served(k) /\ job[k].clean
      BY <1>1, <2>1, <3>2 DEF MInv, Tidy
    <3> QED
      BY <3>1, <3>3, <3>4 DEF Served
  <2> QED
    BY <2>3, <2>4, <2>5
<1> QED
  BY <1>1, Invariant, MissesNone, PTL
=============================================================================
