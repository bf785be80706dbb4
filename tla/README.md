# A verification project for a1

a1 is a news reader. An iOS app (Swift, `A1/A1`) shows a feed of articles that
a Go backend on App Engine (`a1-webapp`) collects from Twitter and distributes
to the feeds of its users in Firestore. The modules here model the parts of both
that keep state and run concurrently. TLC checks them on small instances, and
TLAPS proves every safety property of the passing runs for every value of the
constants. The repository has no tests and no documentation besides the comments
in the code; "the code says" below means such a comment.

## The system

| Part | State | Operations | Correct when |
|---|---|---|---|
| Request manager (`API/RequestManager.swift`) | `_pending`, `_inflight`, `_remainingPoints` (a `Float`), `_cache`, the serial `_queue`; `_calledYet` of each `Loadable` | `load`, `cancel`, the scheduling loop, `_kickOff`, the callback of a load | one request per key; the budget is kept; nothing waits for ever; a cancelled loadable is left alone |
| Feed on the phone (`API/API+Paginator.swift`, `ViewController.swift`) | `documents`, `isLoading`, `canLoadMore`, `error`, `_newestDocId`; the sections on screen | the listener, `refresh`, its answer, `onUpdate`, `viewWillAppear` | one query at a time; the list is current whenever it is idle; the screen shows the documents |
| Article pipeline (`ingest_articles.go`, `article.go`, `twitter_fetch.go`, `mercury.go`, `amp.go`, `update_task.go`, `subscribe.go`) | Firestore: `Subscriptions`, `Articles`, `MercuryContent`, feeds; the accounts that are followed | the update task, the subscribe handler, the dashboard's test pages, their goroutines | a subscriber gets what is ingested, with content, and nothing else |
| Distribution (`distribution.go`) | goroutines, unbuffered channels | `distributeArticles` and below | success is reported only when all is written; the handler never hangs |
| Update chain (`tasks.go`, `admin_dashboard.go`) | the task queue | `updateTaskHandler`, `restartFetchTasks` | the updates of a segment never stop; chains do not multiply without a reason |
| Loaders and preloading (`ImageLoadable`, `ArticleHTMLLoader`, `PreloadingHelpers`) | preload lists | build `Loadable`s | a preload never leaks or cancels what is visible |
| Browsing views (`SectionedArticleView`, `SectionCell`, `BigImageArticleCell`) | pages, reused cells, pressed state | scrolling, touches | a reused cell shows its own image |
| Subscribe dialog and API client (`ViewController.swift`, `API/API.swift`) | what is presented; requests under way | the dialog, `API.subscribe`, its completion | a user who hears nothing is subscribed |
| Article view, pan recognizer and swipe-away | gesture and animation state | gesture, transition | only a pan in the right direction moves the view, which ends up open or dismissed |
| Segments, configuration, styling | none | pure functions | - |

How they interact: views create `Loadable`s and give them to a request manager,
whose blocks run on a private queue and call back on the main queue. The
paginator listens to the user's feed collection, which the backend writes.
`/subscribe` is called by the phone; the update task is called by the task queue
and queues itself again. Both go through `ingestArticles` and the distribution,
and both meet only in Firestore. The hard behaviours are therefore interleavings
of blocks on a dispatch queue, answers and notifications that overtake each
other, concurrent requests on one database without transactions, goroutines
that stop listening to each other, crashes with retries, and a budget in
floating point. `PROJECT.json` lists the hazards line by line.

## Modules

**RequestManager** (with **Float32**). Blocks on the serial queue are records in
`queue`; `Load`, `Cancel` and `LoadFinished` are other threads that append one.
`RunLoad`, `RunCancel` and `RunDone` are the blocks. The loop of
`_startPendingLoadablesIfAppropriate` is one `Schedule` step per iteration over
`toLoad`, since load closures that it starts can call back before it ends; a new
block starts only when the loop is over. `inflight` records *which* loadable's
closure serves a key (the code keeps only the key and its points), so that a
property can speak of it. `called` is `_calledYet` with the result that was sent.
NSCache may evict at any time. The sort has a `>=` comparator, so any loadable of
highest priority may come first. `Float32` is the rounding of IEEE binary32 for
the few magnitudes that the budget reaches: a value counts units of 2^-27.

**FeedView.** Firestore (external) holds the feed, one listener and the queries
that are out; an answer is fixed by `Answer` and taken by the main thread in
`Fetched`, so it may be stale. `Update` is the `onUpdate` closure, with the
`refresh()` it may call. All of it is one step of the main thread, the reentrant
part too: `refresh()` calls `onUpdate`, whose closure calls `refresh()` again,
before it sends its query. `Asks` is the guard that every one of these calls
meets, and `Asked` has the query that the inner call would send in front of the
outer one; without the guard there are two. `Sections` is the grouping loop.

**FanOut** is what distributing promises; **Distribution** is how
`distribution.go` does it, with each goroutine's state, each send and receive on
an unbuffered channel as one step, and `success && (<-channel)`, which stops
receiving at the first failure. `KeepsPromise` is the refinement.

**Pipeline.** A job is a request: an update that is started again and again, a
subscription, or a test page of the dashboard, which ingests without
distributing. Each Firestore, Twitter, Mercury and AMP call is a step that may
fail, and the code's reaction (log and go on) is what follows. A request may
crash anywhere; the task queue repeats an update. A tweet has a link or none;
`normalizeUrl` gives several links one URL, under which an article and its
`FirstSource` are kept, so that two tweets of one article are two stubs and two
goroutines. The channels are abstracted to sets of goroutines still to report,
which `Distribution` justifies: a handler goes on when all have reported or, in
an update, when a delivery has failed. `getSubscribers` finds any part of the
subscribers: it skips a document that it cannot decode, and a failed query finds
nobody. When an update ends early, the writes of other goroutines may be under way
and still land. `Finish` drops those that it has not seen: the behaviour in
which such a write lands late is represented by the one in which it lands just
before the end, as no step reads a feed and no property tells sources in a feed
apart. `clean`, `before` and `ingested` are history variables.

**Subscribing** is the same request seen from the phone. The dialog strips the
text and sends a request; it and its answer may get lost, the phone may give up
while the handler goes on, and the user may try again meanwhile in another
spelling, or open an article, behind which UIKit drops the alert (`missed`). The
handler ignores that the subscription could not be set (`unsaved`).

**UpdateTasks.** Counters per segment: tasks waiting, handlers working, handlers
whose task was purged (`orphans`) and handlers that have queued their successor
and not answered (`ending`). The App Engine queue is external. A purge takes
effect while `restartFetchTasks` sleeps, never, or (`Oversleep`, `LatePurge`) at
any time afterwards, when it takes the new tasks too. A restart request is no
task: it may die in its sleep or before `AddMulti` (`RestartDies`), with its purge
done or still to come, and nobody repeats it. `starts` counts the restarts that
have queued their tasks since a purge last emptied the queue.

**Browsing** composes the request manager with its clients: a cell that is reused
for one article after another (`ShowArticle`, `SetModel`, `Apply`), the preload
of an article about to be displayed, the preload lists that are replaced on
`PreloadingHelpers.queue` (`SetSections`), and the article view (`Open`,
`Close`). `LoadableDisposer` turns an assignment into the calls `load(new)` and
`cancel(old)`; these calls are made one by one (`MainCall`, `QueueCall`), so that
the two threads interleave between them. An answer reaches the cell in `Apply`,
at any time after `called` was set, since it goes over two more queues. The cell
compares `canonical_url`s, which are optional: articles without one compare equal,
and `canonical` gives them the same value. The
NSCache loses nothing here; `RequestManager` has its evictions.

**SectionSwipe** has the touches of an article cell (`_pressed` and its delayed
reset) and the paging of a `SectionCell`, while `SetSection` gives it another
section or a shorter one. Offsets are in half pages: the code rounds them. The
history variable `origin` is where the list was when the drag began, which the code
remembers only as a page, and `replaced` that a section of another title has come
since then.

**DirectionalPan** is `SSWDirectionalPanGestureRecognizer`, the one Objective-C
file of the app: one touch from `TouchesBegan` to `Reset`, with `dragging`, which
makes the check of the direction happen once. **SwipeAway** extends it with
`SwipeAwayViewController`: gesture, dynamic animator, display
link, presentation and dismissal. `place` is how far `contentView` is to the
right or to the left, in the four levels of overlap that the code tells apart
(`== 0`, less, `> 0.95`, `== 1`). The animator is external: a finger holds the
view, the snap pulls it to the middle (and may overshoot a little), a flick lets
it fly for ever. What UIKit makes of a recognizer that fails after its pan has
begun is not documented, so `Moved` allows `.failed` and `.cancelled`.

The `MC*` modules hold the instances; `UpdateTasks`, `SectionSwipe` and
`SwipeAway` are run directly.

## What the runs show

| Run | Instance | Shows |
|---|---|---|
| `request_manager` | a cell's image that is `alreadyInflight`, a preload of the same image, an article's HTML with `.all` points; each loaded up to twice and cancelled or not | `OneLoadPerKey`, `LoadsAreKept`, `CancelledStaysSilent`, also where the budget is overdrawn |
| `request_manager_ten` (violation) | ten preloads at once | see findings |
| `feed_view` | four documents of two sources and none, pages of two, three writes | `OneFetchAtATime`, `IdleIsCurrent`, `MoreMeansFullPage`, `ShowsTheDocuments`, `FailureIsTerminal`, and `FreshInTheEnd` under fairness |
| `browsing` | a cell used for three articles (a dark image, none, a bright one), a preload list with the bright image and one with both, an article view | `ShowsItsArticle`, `PendingIsWanted`; the manager's `PointsBalance`, `NothingStranded` and `HighestPriorityFirst`; `EveryLoadAnswered` and `ImageAppears` under fairness |
| `section_swipe` | sections of up to three articles, three touches, two reloads | `OnePagePerSwipe`, `PressedIsTouched`, and `ComesToRest` under fairness |
| `swipe_away` | three touches, four directions | `PansTheRightWay`, `DismissedOffScreen`, `BehaviorsAsSet`, and `Settles` under fairness |
| `distribution` | three articles with two, one and no subscribers | `LeaksOnlyAfterFailure`, `HandlerReturns`, `KeepsPromise` |
| `pipeline` | two updates and a subscription at once, tweets of two articles and one without a link, a user timeline of one tweet | no new subscriber falls between an update and the subscription (`NothingMissed`), a subscription serves its user (`SubscribedUserIsServed`) |
| `pipeline_faults` | an update that runs twice, a subscription, a test page, an article that two sources link with different URLs, a fault | `TypeOK` (in particular that articles and contents are kept under normalized URLs), `FeedsAreWanted`, `CleanUpdateDelivers` and `UpdatesDeliverContent` when a call fails or a request dies |
| `pipeline_existing` (violation) | one fault | see findings |
| `update_tasks` | two segments, two restarts that may die, two crashes, one refused Add | `ChainAlive`, `ChainsAreExplained`, `ChainsNeverMerge`, and `UpdatesGoOn` under fairness |
| `subscribing` | two requests, a handle in two spellings, another one, and "@" | `SilenceIsSubscribed` |

**Bounds.** `MaxQueue` limits how far threads run ahead of the dispatch queue: two
waiting blocks in the browsing run, three in the other; the order
of blocks matters, not the length of the backlog. `MaxLoads` is one where
each client calls `load` once per `Loadable`, as the app does, and two to see a
second call. Four documents with pages of two give feeds shorter than, as long
as and longer than a page; three writes let the feed change before the query is
answered, between answer and callback, and after it. One fault in
`pipeline_faults` hits any call of any request or kills one, and the second run of
the update sees what is left. Two restarts and two
crashes let a restart meet the orphan of another and a crash double a doubled
chain; `MaxHandlers` caps the handlers of one segment at three. `HomeCount` and
`UserCount` are 10 and 5 in the code and 2 and 1 here, so that tweets drop out
of the timelines. Three articles
with one lacking an image let a cell keep the loader of its first article while
it shows the second and replace it for the third. Three touches let a delayed
reset and a running scroll meet the next touch and the one after; three articles
have a middle page. Three touches of the article let a flick be caught and released again, and
a gesture follow a cancelled one. Two
requests let one overlap with its retry. No run has a state
constraint; every bound is a guard. `pipeline` takes its two updates for
symmetric, as no definition tells them apart.

`CHECK_DEADLOCK FALSE` is set everywhere: bounded environments come to rest.

**Fairness.** A dispatch queue runs the blocks it holds and the loop goes on; a
`URLSession` or Firestore request calls back, if only with a timeout error;
Firestore notifies its listener and answers its queries; the main queue runs
what is dispatched to it; goroutines run and Firestore calls return; the task
queue dispatches and App Engine ends a request at its deadline; a restart that was
begun goes on until it dies; the display link
fires, animations end, a scroll view runs to its target and fingers are lifted. All of this is
weak fairness, since nothing here competes for an action that others disable.
No other fairness is assumed of users, none of writers to the feed, of failures, evictions
or crashes.

## What is proved

`RequestManager_proofs`, from `LoadableAssumption` only (keys are finite,
functions are typed), for any loadables, keys, priorities and bounds:

- `TypeCorrect`.
- `OneLoadPerKeyHolds`. `OneLoadPerKey` is not inductive: a callback removes the
  task of its *key*, so one must know that the task is its own. `Tasks` adds that
  each `done` block in the queue belongs to the task of its key, that its closure
  is no longer running, and that there are no two such blocks for a loadable.
- `BudgetHolds` (`PointsBalance` and `AllIsExclusive`), if no loadable is
  `alreadyInflight`: the invariant `Budget` has two cases, one `.all` load
  alone with 0 left, or n <= 9 `.normal` loads with exactly the Float `Left[n+1]`
  left. The lemmas `TenthSteps` and `OneSteps` compute the rounding: each
  subtraction is undone exactly by the addition, so there is no drift, ever.
  The assumption is needed: an `alreadyInflight` load ignores the budget. No
  caller in the app sets it.
- `NothingStrandedHolds`, with the same assumption: with nothing in flight,
  everything pending is still to be visited by the loop (`Waiting`), and the loop
  cannot stop since any loadable fits the whole budget.
- `HighestPriorityFirstHolds`: while the loop runs, what waits without a task is
  still in `toLoad` (`Visiting`).
- `CancelledStaysSilentHolds`: a loadable with no more loads than cancels and
  no block in the queue is not pending (`Quiet`, `Settled`).
- `LoadsAreKeptHolds`: until it is cancelled, a load waits in its block, is pending
  or has been answered (`Kept`), whatever happens to the request of another loadable
  that serves its key. This is the safety half of `EveryLoadAnswered`.

The same module has the proofs about `Browsing`, which extends the manager, from
`BrowsingAssumption` in addition: each view makes new objects for what it loads,
and makes one exactly for an article that has an image, as `SetModel` and the
preloading helpers do.

- `BrowsingTypeCorrect`.
- `BrowsingImplementsManager`: `BrowsingSpec => Spec`. The guards of `Load` and
  `Cancel` in the manager's specification are met by the calls the views make, so
  `SharedManagerIsSound` has what was proved above for the manager that cell,
  preload lists and article view share.
- `ShowsItsArticleHolds`: the comparison in the callback of `SetModel` drops what
  comes late, so that a picture is of the article that the label names, and that
  one has the `canonical_url` of the model.
- `PendingIsWantedHolds`. It speaks of states in which no call is under way, and
  says nothing of the calls that led there. The invariant `Clients` does:
  the threads call for loadables of their own and never twice (`Separate`), the
  cell's loader is of one of the articles it has had (`Current`), and (`Holding`)
  what is not made yet is untouched, what is held is loaded or about to be and not
  cancelled, what was let go is cancelled or about to be. `Exchange` is the
  assignment of `LoadableDisposer`, which all views go through, `CallMade` the
  call that a thread then makes; `Kept` and `Settled` tell what the manager makes
  of it.

`UpdateTasks_proofs`, for any segments, restarts and bounds: `TypeCorrect`,
`ChainAliveHolds`, `ChainsNeverMergeHolds`, `ChainsAreExplainedHolds`. Chains are
counted like tokens. `ChainSteps` says what each step does to them (a restart that
dies leaves them alone, and a purge takes them all); the
inductive invariants follow from it, the last one with the cardinality of the
set of finished restarts.

`Distribution_proofs`, from `DistributionAssumption`: `TypeCorrect`,
`SuccessMeansWrittenHolds`, `LeaksOnlyAfterFailureHolds` and `ImplementsFanOut`,
the refinement. None of them is inductive alone. `Setters` relates the state of
each goroutine to what is in the feeds and what its article has received,
`Articles` says that a reported failure has really happened and that a report
waits for all results or a failure, `Handler` that only successes were heard
while the handler reads, and a failure before it stopped. `LeaksOnlyAfterFailureHolds`
speaks of both kinds of goroutines: a write is stranded by a failed one of its own
article, the goroutine of an article, successful or not, by the failure of another. Each action is then a step of `FanOut` (`QueryPlans`,
`SetWrites`, `ArticleResultReturns`) or a stutter. What `HandlerReturns` rests on is proved
without fairness: `HandlerIsNeverStuck`, if there is an article to distribute (which
`updateTask` checks), and `StepsComeToAnEnd`, by the set `Done` of what goroutines
have done, which each step enlarges within a finite one.

`SwipeAway_proofs`, for any number of touches and any set of directions:
`TypeCorrect`, `PansTheRightWayHolds`, `BehaviorsAsSetHolds`,
`DismissedOffScreenHolds`. For the first one must know that `dragging` is set only
in a touch that has been checked. `Phases` says when the animator
has behaviors at all and that an entrance is untouched; `Gone` that an article
that is leaving is already off screen, so that no later tick can undo it.

`SectionSwipe_proofs`, from `SwipeAssumption`, for sections of any length:
`TypeCorrect`, `OnePagePerSwipeHolds`, `PressedIsTouchedHolds`. `Remembered` says
that the start page of a swipe is the one nearest to `origin` (`PageAtNearest`).
`Within` says
that, unless the section shrank, the list is within it and a drag began at most
one page behind its end; `ChosenPageBounds` is the arithmetic of
`scrollViewWillEndDragging`; `Counts` bounds the resets by the touches.

`Subscribing_proofs`, from `TextAssumption`, for any texts, handles and number of
requests: `TypeCorrect` and `SilenceIsSubscribedHolds`, by an invariant on how far
each handler has come: past its write, the subscription is set or the request is
in `unsaved`, and a completion that reports success has seen the handler's end.

`FeedView_proofs`, from `FeedAssumption`, for any documents, page size and order
of callbacks: `TypeCorrect`, `OneFetchAtATimeHolds`, `IdleIsCurrentHolds`,
`MoreMeansFullPageHolds`, `FailureIsTerminalHolds`, `ShowsTheDocumentsHolds`. `Out` and `Asking` say that at
most one query is out, exactly while the paginator loads and has not failed;
`Blank` that it shows nothing then, which makes the answer of any query the whole
of what is shown. `ShowsTheDocumentsHolds` is about the grouping loop, a recursive
function: `SectionsTurns` shows that it has a value, `TurnKeeps` that a turn of the
loop keeps a list grouped (a title once, the sections in the order of their first
documents, each with the documents of its source so far in order), and
`SectionsGroup` that the result is grouped, for lists of any length. The induction
is the least-number principle for one set of numbers (`Least`, from the
well-foundedness of `<`), which needs no operator as a parameter.

`Pipeline_proofs`, from `PipelineAssumption`, for any requests, links, sources,
users, tweets and failures: `TypeCorrect`, `UpdatesDeliverContentHolds`,
`CleanUpdateDeliversHolds`, `FeedsAreWantedHolds`, `SubscribedUserIsServedHolds`,
`NothingMissedHolds`. `Sound` follows a request from its
stubs, which are of tweets of the source it asks for, through what it has found and
made to what it has to deliver. `Complete` says of an update that distributes and
has not failed that each earlier subscriber of each article is still to be looked
up, to be written to or has the article. Requests share only what grows (`Grows`),
so that a step of one leaves the invariant of the others alone (`OthersKeep`); the
steps before the distribution keep it by `CollectKeeps`, those of it by
`DistributeKeeps`.

The last two rest on a second invariant, `MInv`. `Served` says that a subscription
without failures has, for each stub, the article or a goroutine that makes it, and
later its delivery. `Covered` relates two requests: as long as nothing has failed,
what an update has ingested is, for each subscriber of its source, still owed by the
update (`Owes`), in the feed, or (`Late`) left to a subscription that was made too
late for the update's query and therefore reads, or has read, a timeline with the
article on it (`Catches`). The order in `subscribe.go`, first the subscription, then
the timeline, is what makes this inductive. It also shows what `NothingMissed` has
to say: *all* tweets of the article have to be on the user timeline. An article that
is tweeted again after the subscription has read the timeline is on it too, but
updates ignore it as existing; `TimelineMoves` says that a tweet that has dropped
out of a timeline does not come back.

**Only model-checked:** liveness (`EveryLoadAnswered`, `FreshInTheEnd`,
`HandlerReturns`, `UpdatesGoOn`, `ImageAppears`, `ComesToRest`,
`Settles`), as the prover handles neither fairness nor `ENABLED`; the theorems
named in the plan below are what of it can be stated as invariants. The two violated
properties are refuted by their counterexamples.

## Findings

- `request_manager_ten`: `Points.normal` is commented "allow 10 concurrent
  requests" (`RequestManager.swift:29`). Nine subtractions of the Float 0.1 leave
  13421763/2^27, less than 0.1 = 13421773/2^27, so the tenth waits.
- `pipeline_existing`: `ingestArticles` says that with `ignoreExisting`
  "already-ingested articles won't be returned" (`ingest_articles.go:96`).
  `findArticle` takes any error of the read for a missing article, so after a
  failed read an ingested article is created and returned again.

Behaviour that the models show and no comment contradicts: after one failed
query the list stays empty until the app is restarted (`FailureIsTerminal`);
a crash between setting an article and distributing it loses the delivery, as
the retry finds the article existing; updates ignore an article that a
subscription of somebody else ingested first; a subscription can deliver an
article whose `MercuryContent` is not there yet or could not be written; a link
of two sources goes to the subscribers of one; duplicate chains are never merged
(`ChainsNeverMerge`); `/subscribe` answers ok when nothing was saved (`unsaved`), and the alert about a
failed request is lost while an article is open (`missed`); an article that the
dashboard's test page ingests first has the source "test" and is distributed by
no update; a purge that comes late ends the chains that the restart has begun, and a
restart that dies after its purge leaves none where no handler was running; once an
article has failed, the goroutines of the others wait for ever to report. In the
views: a cell takes an article without `canonical_url` for any other without one; a cancelled pan leaves the article attached to where the finger was, and
`Settles` excludes it; the back button shifts an article by its width, so one
that hangs to the left is dismissed while a part is visible and the last tick
dims the status bar again (`leftAtExit`); a tick may dismiss before the back
button's animation ends; the delayed reset of one tap can make the next be lost;
a swipe in a section that shrinks meanwhile may be sent to a page without an
article (`shrunk`), and one during which a section of another title comes is limited
by the page of the old one and may end pages away from what is shown (`replaced`).

## What is not modelled

- `Paginator.loadMore` has no caller. Answers that Firestore serves from its
  local cache are not told apart from stale ones of the server.
- The second manager `sharedForArticleHTML`: an independent copy. Since
  `LoadableDisposer` ignores the manager it is given, the article view loads in
  the shared one, and only HTML preloads go to the other.
- Web navigation, sharing, layout and drawing of the views.
- `warmUrlHandler`, `testMercury` and `testAmp` fetch pages and keep nothing; only
  the queueing of the first appears.
- `computeSegment`: there is one segment of each kind, so that it returns 0.
  Decoding of documents and configuration: no state. Layout, colours, geometry;
  `Unused/`.
- `Pods/`: gRPC, BoringSSL, Firebase and the other libraries are third-party code
  and make up all C and Objective-C of the repository but for the pan recognizer.
  The app uses them through Firestore, which `FeedView` and `Pipeline` have as
  their environment.

## Plan

No safety property of the runs is left without a theorem. What the liveness
properties rest on can still be proved in part, as invariants without `ENABLED`:
that whenever something is owed a step that the code is bound to take has its guard
true. `HandlerIsNeverStuck` with `StepsComeToAnEnd`, `ChainAliveHolds`, `LoadsAreKeptHolds`
and `NothingStrandedHolds` are of this kind. The same could be proved of a list that
is not fresh (`FeedView`), a request on the phone (`Subscribing`) and an article that
has been let go (`SwipeAway`).
