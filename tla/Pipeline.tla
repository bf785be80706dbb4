------------------------------ MODULE Pipeline ------------------------------
(***************************************************************************)
(* How an article gets from a tweet into the feeds of users (a1-webapp:    *)
(* twitter_fetch.go, ingest_articles.go, article.go, update_task.go and    *)
(* subscribe.go).  Requests run concurrently and share nothing but         *)
(* Firestore and the Twitter account; a request is a run of updateTask,    *)
(* which the task queue starts again and again, of the subscribe handler,  *)
(* or of a test page of admin_dashboard.go that ingests articles without   *)
(* distributing them.  Every Firestore read and write of their goroutines  *)
(* is a step of its own, and every one may fail.                           *)
(***************************************************************************)
EXTENDS Integers, Sequences, FiniteSets, Functions

CONSTANTS
  Link,         \* URLs as they are tweeted
  Url,          \* normalized URLs
  normalizeUrl, \* [Link -> Url]: without query and fragment, as it is if it has none
  Source,       \* Twitter handles, in lower case, and the source "test"
  User,
  Update,       \* requests of the update task
  Subscribe,    \* requests of /subscribe
  Test,         \* requests of /admin/test_source_fetch and /admin/test_ingest
  user,         \* [Subscribe -> User], the parameter user_id
  handle,       \* [Subscribe \cup Test -> Source], the parameter handle
  typed,        \* [Test -> SUBSET Link], the parameter urls
  Status,       \* [link, source] of the tweets that there may be
  NoLink,       \* the link of a tweet without one, and of a retweet
  Subscribed,   \* the <<user, source>> with a subscription from earlier times
  None,         \* no article
  HomeCount,    \* tweets that an update asks for, 10 in the code
  UserCount,    \* tweets that a subscription asks for, 5 in the code
  MaxRuns,      \* bound: runs of each update request
  MaxFaults     \* bound: failures of calls and crashes of requests

Job == Update \cup Subscribe \cup Test

\* Stubs keep the link of their tweet, so that two tweets of one article are two.
Stub == [link : Link, source : Source]
UrlOf(stub) == normalizeUrl[stub.link]

ASSUME PipelineAssumption ==
  /\ normalizeUrl \in [Link -> Url]
  /\ Url \subseteq Link /\ \A url \in Url : normalizeUrl[url] = url
  /\ NoLink \notin Link
  /\ Status \subseteq [link : Link \cup {NoLink}, source : Source]
  /\ user \in [Subscribe -> User]
  /\ handle \in [Subscribe \cup Test -> Source]
  /\ typed \in [Test -> SUBSET Link]
  /\ Subscribed \subseteq User \X Source
  /\ Update \cap Subscribe = {} /\ Update \cap Test = {} /\ Subscribe \cap Test = {}
  /\ Test # {} => "test" \in Source
  /\ None \notin Source
  /\ HomeCount \in Nat /\ UserCount \in Nat
  /\ MaxRuns \in Nat \ {0} /\ MaxFaults \in Nat

VARIABLES
  tweets,    \* the tweets so far, newest first
  followed,  \* the sources that the app's Twitter account follows
  subs,      \* Subscriptions: <<user, source>>
  articles,  \* Articles: FirstSource by URL, or None
  contents,  \* MercuryContent: URLs
  feeds,     \* [User \X Url -> Source \cup {None}]: FirstSource of the user's copy
  job,       \* [Job -> JobState]
  warm,      \* the URLs for which a task that fetches the AMP page was queued
  faults,    \* how many calls failed or requests crashed
  ingested   \* history: <<job, url>> for each article that a job has set

store == <<subs, articles, contents, feeds, warm>>
vars == <<tweets, followed, store, job, faults, ingested>>

ArticleMap == [Url -> Source \cup {None}]
noArticles == [url \in Url |-> None]

JobState == [
  pc : {"idle", "follow", "timeline", "find", "create", "distribute", "done"},
  runs : 0..MaxRuns,
  stubs : SUBSET Stub,       \* articleStubsFromTweets
  finding : SUBSET Stub,     \* findArticle goroutines that have not read
  existing : ArticleMap,     \* existingArticles
  saving : SUBSET Stub,      \* createArticle goroutines before the first Set
  storing : SUBSET Stub,     \* createArticle goroutines between the two Sets
  result : ArticleMap,       \* what ingestArticles returns
  asking : SUBSET Url,       \* distributeArticle goroutines before getSubscribers
  todo : SUBSET (User \X Url), \* distributeArticleToUser goroutines before Set
  failed : BOOLEAN,          \* a distributeArticleToUser has failed
  clean : BOOLEAN,           \* history: no call of this run has failed
  before : SUBSET Url]       \* history: what was ingested when this run began

NewJob(pc, runs) == [
  pc |-> pc, runs |-> runs, stubs |-> {}, finding |-> {}, existing |-> noArticles,
  saving |-> {}, storing |-> {}, result |-> noArticles, asking |-> {}, todo |-> {},
  failed |-> FALSE, clean |-> TRUE, before |-> {url \in Url : articles[url] # None}]

TypeOK ==
  /\ tweets \in Seq(Status)
  /\ followed \subseteq Source
  /\ subs \subseteq User \X Source
  /\ articles \in ArticleMap
  /\ contents \subseteq Url
  /\ feeds \in [User \X Url -> Source \cup {None}]
  /\ warm \subseteq Url
  /\ job \in [Job -> JobState]
  /\ faults \in 0..MaxFaults
  /\ ingested \subseteq Job \X Url

Init ==
  /\ tweets = <<>>
  /\ followed = {s[2] : s \in Subscribed}
  /\ subs = Subscribed
  /\ articles = noArticles
  /\ contents = {}
  /\ feeds = [x \in User \X Url |-> None]
  /\ warm = {}
  /\ job = [j \in Job |-> NewJob("idle", 0)]
  /\ faults = 0
  /\ ingested = {}

At(j, pc) == job[j].pc = pc

\* A call of request j fails, and the code goes on without it.
Fault == faults < MaxFaults /\ faults' = faults + 1
NoFault == UNCHANGED faults

Keys(map) == {url \in Url : map[url] # None}

\* Somebody tweets a link or something else, once for each source.
Tweet(status) ==
  /\ \A i \in DOMAIN tweets : tweets[i] # status
  /\ tweets' = <<status>> \o tweets
  /\ UNCHANGED <<followed, store, job, faults, ingested>>
-----------------------------------------------------------------------------
(* The handlers up to ingestArticles.                                      *)

\* updateTask is started by the task queue, or by /admin/test_fetch_task.
StartUpdate(j) ==
  /\ j \in Update
  /\ At(j, "idle") \/ At(j, "done")
  /\ job[j].runs < MaxRuns
  /\ job' = [job EXCEPT ![j] = NewJob("timeline", @.runs + 1)]
  /\ UNCHANGED <<tweets, followed, store, faults, ingested>>

\* subscribe sets the subscription; an error is logged and otherwise ignored.
StartSubscribe(j) ==
  /\ j \in Subscribe
  /\ At(j, "idle")
  /\ \/ /\ subs' = subs \cup {<<user[j], handle[j]>>}
        /\ job' = [job EXCEPT ![j] = NewJob("follow", 1)]
        /\ NoFault
     \/ /\ Fault
        /\ job' = [job EXCEPT ![j] = [NewJob("follow", 1) EXCEPT !.clean = FALSE]]
        /\ UNCHANGED subs
  /\ UNCHANGED <<tweets, followed, warm, articles, contents, feeds, ingested>>

\* subscribeOnTwitter ignores the outcome of FollowUser.
Follow(j) ==
  /\ At(j, "follow")
  /\ \/ /\ followed' = followed \cup {handle[j]}
        /\ job' = [job EXCEPT ![j].pc = "timeline"]
        /\ NoFault
     \/ /\ Fault
        /\ job' = [job EXCEPT ![j].pc = "timeline", ![j].clean = FALSE]
        /\ UNCHANGED followed
  /\ UNCHANGED <<tweets, store, ingested>>

\* The test page for a source goes to its timeline at once.
StartSourceTest(j) ==
  /\ j \in Test
  /\ At(j, "idle")
  /\ job' = [job EXCEPT ![j] = NewJob("timeline", 1)]
  /\ UNCHANGED <<tweets, followed, store, faults, ingested>>

\* The newest count tweets of these sources, and the stubs of those with a link.
Newest(sources, count) ==
  LET theirs == {i \in DOMAIN tweets : tweets[i].source \in sources}
  IN  {tweets[i] : i \in {n \in theirs : Cardinality({k \in theirs : k <= n}) <= count}}

articleStubsFromTweets(statuses) == {status \in statuses : status.link # NoLink}

\* GetHomeTimeline for an update, GetUserTimeline otherwise.  After an error there
\* are no articles, and so nothing left to do.
Timeline(j) ==
  LET stubs == articleStubsFromTweets(IF j \in Update THEN Newest(followed, HomeCount)
                                                      ELSE Newest({handle[j]}, UserCount))
  IN
  /\ At(j, "timeline")
  /\ \/ /\ job' = [job EXCEPT ![j].pc = "find", ![j].stubs = stubs, ![j].finding = stubs]
        /\ NoFault
     \/ /\ Fault
        /\ job' = [job EXCEPT ![j].pc = "done", ![j].clean = FALSE]
  /\ UNCHANGED <<tweets, followed, store, ingested>>

\* testIngest makes stubs of what was typed, all of the source "test".
StartIngestTest(j) ==
  LET stubs == {[link |-> link, source |-> "test"] : link \in typed[j]} IN
  /\ j \in Test
  /\ At(j, "idle")
  /\ job' = [job EXCEPT ![j] = [NewJob("find", 1) EXCEPT !.stubs = stubs, !.finding = stubs]]
  /\ UNCHANGED <<tweets, followed, store, faults, ingested>>
-----------------------------------------------------------------------------
(* ingestArticles.                                                         *)

\* One findArticle goroutine.  It reports an article that could not be read as
\* one that does not exist.
Find(j, stub) ==
  /\ At(j, "find")
  /\ stub \in job[j].finding
  /\ \/ /\ job' = [job EXCEPT ![j].finding = @ \ {stub},
                              ![j].existing[UrlOf(stub)] = IF articles[UrlOf(stub)] # None
                                                        THEN articles[UrlOf(stub)] ELSE @]
        /\ NoFault
     \/ /\ Fault
        /\ job' = [job EXCEPT ![j].finding = @ \ {stub}, ![j].clean = FALSE]
  /\ UNCHANGED <<tweets, followed, store, ingested>>

\* The URLs that the results may have: Mercury fails for each page on its own, the
\* AMP service for all at once, and a page without AMP version gets another URL.
fetchMercuryMulti(urls) == SUBSET urls
fetchAmpMulti(urls) == {urls, {}}

\* Both are asked for the stubs that were not found; a stub without either result
\* is left out.
Fetch(j) ==
  LET new == {s \in job[j].stubs : job[j].existing[UrlOf(s)] = None}
      urls == {UrlOf(s) : s \in new}
  IN
  /\ At(j, "find")
  /\ job[j].finding = {}
  /\ \E mercury \in fetchMercuryMulti(urls), amp \in fetchAmpMulti(urls) :
       LET fetched == mercury \cap amp IN
       /\ IF fetched = urls THEN NoFault ELSE Fault
       /\ job' = [job EXCEPT ![j].pc = "create",
                             ![j].saving = {s \in new : UrlOf(s) \in fetched},
                             ![j].clean = @ /\ fetched = urls]
  /\ UNCHANGED <<tweets, followed, store, ingested>>

\* createArticle: the article is set first.
Save(j, stub) ==
  /\ At(j, "create")
  /\ stub \in job[j].saving
  /\ \/ /\ articles' = [articles EXCEPT ![UrlOf(stub)] = stub.source]
        /\ job' = [job EXCEPT ![j].saving = @ \ {stub}, ![j].storing = @ \cup {stub}]
        /\ ingested' = ingested \cup {<<j, UrlOf(stub)>>}
        /\ NoFault
     \/ /\ Fault
        /\ job' = [job EXCEPT ![j].saving = @ \ {stub}, ![j].clean = FALSE]
        /\ UNCHANGED <<articles, ingested>>
  /\ UNCHANGED <<tweets, followed, warm, subs, contents, feeds>>

\* Mutant of Store: the content is not written.
StoreNothing(j, stub) ==
  /\ At(j, "create")
  /\ stub \in job[j].storing
  /\ job' = [job EXCEPT ![j].storing = @ \ {stub}, ![j].result[UrlOf(stub)] = stub.source]
  /\ UNCHANGED <<tweets, followed, store, faults, ingested>>

\* Mutant of Store: the content is set under the link as it was tweeted.
StoreUnderLink(j, stub) ==
  /\ At(j, "create")
  /\ stub \in job[j].storing
  /\ contents' = contents \cup {stub.link}
  /\ job' = [job EXCEPT ![j].storing = @ \ {stub}, ![j].result[UrlOf(stub)] = stub.source]
  /\ UNCHANGED <<tweets, followed, warm, subs, articles, feeds, faults, ingested>>

\* createArticle: then its content, and only then is it reported as created.
Store(j, stub) ==
  /\ At(j, "create")
  /\ stub \in job[j].storing
  /\ \/ /\ contents' = contents \cup {UrlOf(stub)}
        /\ job' = [job EXCEPT ![j].storing = @ \ {stub}, ![j].result[UrlOf(stub)] = stub.source]
        /\ NoFault
     \/ /\ Fault
        /\ job' = [job EXCEPT ![j].storing = @ \ {stub}, ![j].clean = FALSE]
        /\ UNCHANGED contents
  /\ UNCHANGED <<tweets, followed, warm, subs, articles, feeds, ingested>>

\* What ingestArticles returns when ignoreExisting is false, and its mutant, which
\* does not merge the existing articles in.
NotMerged(j) == job[j].result
Merged(j) == [url \in Url |-> IF job[j].existing[url] # None THEN job[j].existing[url]
                              ELSE job[j].result[url]]

\* All goroutines have reported.  An update asks for the subscribers of each new
\* article.  The others merge the existing articles in (ignoreExisting is false):
\* a subscription gives everything to its user, a test page answers.
Ingested(j) ==
  /\ At(j, "create")
  /\ job[j].saving = {} /\ job[j].storing = {}
  /\ job' = IF j \in Update
            THEN [job EXCEPT ![j].pc = "distribute", ![j].asking = Keys(job[j].result)]
            ELSE IF j \in Subscribe
            THEN [job EXCEPT ![j].pc = "distribute", ![j].result = Merged(j),
                             ![j].todo = {user[j]} \X Keys(Merged(j))]
            ELSE [job EXCEPT ![j].pc = "done", ![j].result = Merged(j)]
  /\ UNCHANGED <<tweets, followed, store, faults, ingested>>
-----------------------------------------------------------------------------
(* Distribution.                                                           *)

\* The query of getSubscribers.  One mutant reads a list from earlier times, one
\* has lost its condition on the source.
StaleSubscribers(src) == {u \in User : <<u, src>> \in Subscribed}
AnySubscribers(src) == {sub[1] : sub \in subs}
Subscribers(src) == {u \in User : <<u, src>> \in subs}

\* getSubscribers of an article that updateTask distributes.  A subscription that
\* cannot be decoded is skipped, and a query that fails finds nobody.
GetSubscribers(j, url) ==
  LET users == Subscribers(job[j].result[url]) IN
  /\ At(j, "distribute")
  /\ url \in job[j].asking
  /\ \E found \in SUBSET users :
       /\ IF found = users THEN NoFault ELSE Fault
       /\ job' = [job EXCEPT ![j].asking = @ \ {url}, ![j].todo = @ \cup (found \X {url}),
                             ![j].clean = @ /\ found = users]
  /\ UNCHANGED <<tweets, followed, store, ingested>>

\* distributeArticleToUser.
Deliver(j, u, url) ==
  /\ At(j, "distribute")
  /\ <<u, url>> \in job[j].todo
  /\ \/ /\ feeds' = [feeds EXCEPT ![<<u, url>>] = job[j].result[url]]
        /\ job' = [job EXCEPT ![j].todo = @ \ {<<u, url>>}]
        /\ NoFault
     \/ /\ Fault
        /\ job' = [job EXCEPT ![j].todo = @ \ {<<u, url>>}, ![j].failed = TRUE, ![j].clean = FALSE]
        /\ UNCHANGED feeds
  /\ UNCHANGED <<tweets, followed, warm, subs, articles, contents, ingested>>

\* Whether the receives of the handler are over.  The mutant does not wait for
\* the articles whose subscribers are still being looked up.
DeliveredSome(j) == job[j].todo = {}
Delivered(j) ==
  \/ job[j].asking = {} /\ job[j].todo = {}
  \/ j \in Update /\ job[j].failed

\* The handler answers and its request ends, together with its goroutines.  An
\* update stops listening at the first failed delivery, a subscription does not;
\* an update has queued the warming of its articles' AMP pages by then, or has
\* ignored that it could not.  A Set that is under way may still land afterwards:
\* the behaviour with its Deliver before the end stands for that one, since no step
\* reads feeds and no property tells the sources in them apart.
Finish(j) ==
  /\ At(j, "distribute")
  /\ Delivered(j)
  /\ job' = [job EXCEPT ![j].pc = "done", ![j].asking = {}, ![j].todo = {}]
  /\ \/ /\ warm' = IF j \in Update THEN warm \cup Keys(job[j].result) ELSE warm
        /\ NoFault
     \/ /\ j \in Update
        /\ Fault
        /\ UNCHANGED warm
  /\ UNCHANGED <<tweets, followed, subs, articles, contents, feeds, ingested>>

\* The request dies with its instance or at its deadline.  The task queue runs an
\* update again from its beginning; nobody repeats the others.
Crash(j) ==
  /\ ~At(j, "idle") /\ ~At(j, "done")
  /\ Fault
  /\ job' = [job EXCEPT ![j] = IF j \in Update THEN NewJob("timeline", @.runs)
                               ELSE [NewJob("done", 1) EXCEPT !.clean = FALSE]]
  /\ UNCHANGED <<tweets, followed, store, ingested>>
-----------------------------------------------------------------------------
Next ==
  \/ \E status \in Status : Tweet(status)
  \/ \E j \in Job :
       \/ StartUpdate(j) \/ StartSubscribe(j) \/ Follow(j) \/ Timeline(j)
       \/ StartSourceTest(j) \/ StartIngestTest(j)
       \/ \E stub \in job[j].stubs : Find(j, stub) \/ Save(j, stub) \/ Store(j, stub)
       \/ Fetch(j) \/ Ingested(j)
       \/ \E url \in Url : GetSubscribers(j, url)
       \/ \E u \in User, url \in Url : Deliver(j, u, url)
       \/ Finish(j) \/ Crash(j)

Spec == Init /\ [][Next]_vars
-----------------------------------------------------------------------------
(* Properties.                                                             *)

Updated(url) == \E j \in Update : <<j, url>> \in ingested

\* The sources that have tweeted url, and those whose timeline still has all their
\* tweets of it.
TweetedBy(url) == {status.source : status \in
                     {st \in articleStubsFromTweets(Range(tweets)) : UrlOf(st) = url}}
OnTimelineOf(url) == {s \in Source : \A stub \in articleStubsFromTweets(Range(tweets)) :
                        stub.source = s /\ UrlOf(stub) = url => stub \in Newest({s}, UserCount)}

\* What an update hands on has its content, which the phone reads, in Firestore
\* before anybody can get it from that update.
UpdatesDeliverContent ==
  \A j \in Update : Keys(job[j].result) \subseteq contents

\* A run of an update in which no call failed gives each article that it returns
\* to everyone who had subscribed to the article's source, whatever failed in other
\* requests or earlier runs.
CleanUpdateDelivers ==
  \A j \in Update : At(j, "done") /\ job[j].clean =>
    \A url \in Keys(job[j].result), u \in User :
      <<u, job[j].result[url]>> \in Subscribed => feeds[<<u, url>>] # None

\* Without failures no subscriber misses an article that an update has ingested:
\* one who subscribes while updates run gets it from an update or, if its tweets are
\* among the newest of its source, from the timeline.  (One tweet on the timeline is
\* not enough: an article that is tweeted again after the subscription has read the
\* timeline is old to updates.  An article that only subscriptions of others have
\* ingested is ignored by updates, and one that two sources link goes to subscribers
\* of one of them.)
NothingMissed ==
  faults = 0 /\ (\A j \in Job : At(j, "idle") \/ At(j, "done")) =>
    \A u \in User, s \in Source, url \in Url :
      /\ <<u, s>> \in subs
      /\ Updated(url)
      /\ TweetedBy(url) = {s}
      /\ <<u, s>> \in Subscribed \/ s \in OnTimelineOf(url)
      => feeds[<<u, url>>] # None

\* A subscription in which no call failed leaves its user with every article of
\* the source that was on the timeline.
SubscribedUserIsServed ==
  \A j \in Subscribe : At(j, "done") /\ job[j].clean =>
    \A stub \in job[j].stubs : feeds[<<user[j], UrlOf(stub)>>] # None

\* What a user finds in the feed was tweeted by a source that this user has asked
\* for, whatever failed, also when an article has several sources or was ingested
\* by a request of somebody else, or by hand.
FeedsAreWanted ==
  \A u \in User, url \in Url : feeds[<<u, url>>] # None =>
    \E s \in TweetedBy(url) :
      \/ <<u, s>> \in subs
      \/ \E j \in Subscribe : user[j] = u /\ handle[j] = s /\ ~At(j, "idle")

\* "already-ingested articles won't be returned along with the new ones": an
\* update, which sets ignoreExisting, returns nothing that was ingested when its
\* run began.
IgnoresExisting ==
  \A j \in Update : At(j, "distribute") => Keys(job[j].result) \cap job[j].before = {}
=============================================================================
