------------------------------ MODULE FeedView ------------------------------
(***************************************************************************)
(* The user's feed on the phone: API.Paginator (A1/A1/API/API+Paginator    *)
(* .swift) and the onUpdate closure that ViewController installs in it.    *)
(* Both run on the main thread.  Between their steps Firestore holds a     *)
(* feed that other processes write, one listener on its newest document    *)
(* and the queries of refresh(), whose answers may be stale, or failures,  *)
(* when the main thread gets to them.                                      *)
(***************************************************************************)
EXTENDS Integers, Sequences, SequencesExt

CONSTANTS
  Doc,          \* documents of the feed
  Source,       \* values of first_source
  source,       \* [Doc -> Source \cup {NoSource}], what a document says
  NoSource,     \* first_source is missing
  NoDoc,        \* nil for a document id
  Unset,        \* no snapshot
  docsPerPage,  \* 40 in the app
  MaxWrites,    \* bound: writes to the feed
  MaxAppears,   \* bound: times the view appears
  MayFail       \* whether queries and the listener may fail

ASSUME FeedAssumption ==
  /\ source \in [Doc -> Source \cup {NoSource}]
  /\ NoSource \notin Source
  /\ NoDoc \notin Doc
  /\ Unset \notin Doc \cup {NoDoc}
  /\ docsPerPage \in Nat \ {0}
  /\ MaxWrites \in Nat
  /\ MaxAppears \in Nat
  /\ MayFail \in BOOLEAN

VARIABLES
  feed,         \* the collection, ordered by descending timestamp
  writes,       \* how often the feed was written
  listening,    \* the listener has not been ended by an error
  seen,         \* the newest document of the last snapshot of the listener
  pushed,       \* a snapshot that waits for the main thread, or Unset
  fetches,      \* the queries of refresh() that have not called back
  newest,       \* _newestDocId
  documents,
  isLoading,
  canLoadMore,
  error,
  sections,     \* articlesView.sections
  appears       \* how often viewWillAppear was called

server == <<feed, writes, listening, seen, pushed>>
paginator == <<newest, documents, isLoading, canLoadMore, error, sections>>
vars == <<server, fetches, paginator, appears>>

\* A query waits for its answer, or its answer waits for the main thread.
Fetch == [state : {"asked", "failed"}] \cup [state : {"answered"}, docs : Seq(Doc)]
Section == [title : Source, articles : Seq(Doc)]

TypeOK ==
  /\ feed \in Seq(Doc)
  /\ writes \in 0..MaxWrites
  /\ listening \in BOOLEAN
  /\ seen \in Doc \cup {NoDoc, Unset}
  /\ pushed \in Doc \cup {NoDoc, Unset}
  /\ fetches \in Seq(Fetch)
  /\ newest \in Doc \cup {NoDoc}
  /\ documents \in Seq(Doc)
  /\ isLoading \in BOOLEAN
  /\ canLoadMore \in BOOLEAN
  /\ error \in BOOLEAN
  /\ sections \in Seq(Section)
  /\ appears \in 0..MaxAppears

\* documents.first?.documentID of a query's documents.
First(docs) == IF docs = <<>> THEN NoDoc ELSE docs[1]

\* The state after viewDidLoad: Paginator.init has called refresh().
Init ==
  /\ feed \in {<<>>} \cup {<<d>> : d \in Doc}
  /\ writes = 0
  /\ listening = TRUE
  /\ seen = Unset
  /\ pushed = Unset
  /\ fetches = <<[state |-> "asked"]>>
  /\ newest = NoDoc
  /\ documents = <<>>
  /\ isLoading = TRUE
  /\ canLoadMore = FALSE
  /\ error = FALSE
  /\ sections = <<>>
  /\ appears = 0
-----------------------------------------------------------------------------
(* Firestore.                                                              *)

\* The backend sets document d: it enters the feed, or moves in it, wherever its
\* timestamp puts it.
Write(d, i) ==
  LET old == {k \in DOMAIN feed : feed[k] = d}
      rest == IF old = {} THEN feed ELSE RemoveAt(feed, CHOOSE k \in old : TRUE)
  IN
  /\ writes < MaxWrites
  /\ i \in 1..(Len(rest) + 1)
  /\ feed' = InsertAt(rest, i, d)
  /\ writes' = writes + 1
  /\ UNCHANGED <<listening, seen, pushed, fetches, paginator, appears>>

\* A snapshot for the listener, the first in any case, others when the newest
\* document has changed.  It replaces one that the main thread has not taken.
Push ==
  /\ listening
  /\ seen # First(feed)
  /\ seen' = First(feed)
  /\ pushed' = First(feed)
  /\ UNCHANGED <<feed, writes, listening, fetches, paginator, appears>>

\* A query is answered from the feed, which may change before the main thread
\* takes the answer, or fails.
Answer(i) ==
  /\ i \in DOMAIN fetches
  /\ fetches[i].state = "asked"
  /\ \/ fetches' = [fetches EXCEPT ![i] =
          [state |-> "answered", docs |-> SubSeq(feed, 1, Min({docsPerPage + 1, Len(feed)}))]]
     \/ /\ MayFail
        /\ fetches' = [fetches EXCEPT ![i] = [state |-> "failed"]]
  /\ UNCHANGED <<server, paginator, appears>>

\* The listener ends with an error; its callback ignores a missing snapshot.
ListenerFails ==
  /\ MayFail
  /\ listening
  /\ listening' = FALSE
  /\ UNCHANGED <<feed, writes, seen, pushed, fetches, paginator, appears>>
-----------------------------------------------------------------------------
(* The main thread.                                                        *)

hasNew(top, docs) == top # NoDoc /\ First(docs) # top

\* Mutant of AddArticle: every article starts a section.
AddSection(secs, d) == Append(secs, [title |-> source[d], articles |-> <<d>>])

\* The article joins the section of its source, or starts one below the others.
AddArticle(secs, d) ==
  IF \E j \in DOMAIN secs : secs[j].title = source[d]
  THEN [j \in DOMAIN secs |-> IF secs[j].title = source[d]
                              THEN [secs[j] EXCEPT !.articles = Append(@, d)] ELSE secs[j]]
  ELSE Append(secs, [title |-> source[d], articles |-> <<d>>])

\* Whether the grouping loop skips a document; its mutant skips none.
SkipsNone(d) == FALSE
Skips(d) == source[d] = NoSource

\* The grouping loop of the onUpdate closure.
Sections(docs) ==
  LET secs[i \in 0..Len(docs)] ==
        IF i = 0 THEN <<>>
        ELSE IF Skips(docs[i]) THEN secs[i - 1]
        ELSE AddArticle(secs[i - 1], docs[i])
  IN  secs[Len(docs)]

\* The guard of refresh().  The mutant has lost it.
AsksAlways(loading) == TRUE
Asks(loading) == ~loading

\* The query that refresh() sends at its end.  Before that it has set isLoading, emptied
\* the list and called onUpdate, whose closure finds something new, if the listener has
\* reported anything, and calls refresh() again, which may send one first.
Asked(top, pendingFetches) ==
  LET query == [state |-> "asked"]
  IN  Append(IF hasNew(top, <<>>) /\ Asks(TRUE) THEN Append(pendingFetches, query)
             ELSE pendingFetches, query)

\* Mutant of Refresh: canLoadMore is not reset.
RefreshKeepsMore(top, pendingFetches) ==
  /\ documents' = <<>>
  /\ isLoading' = TRUE
  /\ error' = FALSE
  /\ fetches' = Asked(top, pendingFetches)
  /\ UNCHANGED canLoadMore

\* refresh() past its guard.
Refresh(top, pendingFetches) ==
  /\ documents' = <<>>
  /\ isLoading' = TRUE
  /\ canLoadMore' = FALSE
  /\ error' = FALSE
  /\ fetches' = Asked(top, pendingFetches)

\* A callback has left these values in the paginator and calls onUpdate: the
\* closure calls refresh() if there is something new and shows what results.
Update(top, docs, loading, more, err, pendingFetches) ==
  /\ newest' = top
  /\ IF hasNew(top, docs) /\ Asks(loading)
     THEN Refresh(top, pendingFetches)
     ELSE /\ documents' = docs
          /\ isLoading' = loading
          /\ canLoadMore' = more
          /\ error' = err
          /\ fetches' = pendingFetches
  /\ sections' = Sections(documents')

\* Mutant of Snapshot: onUpdate is not called.
SnapshotSilent ==
  /\ pushed # Unset
  /\ pushed' = Unset
  /\ newest' = pushed
  /\ UNCHANGED <<feed, writes, listening, seen, appears, fetches>>
  /\ UNCHANGED <<documents, isLoading, canLoadMore, error, sections>>

\* The callback of the listener.
Snapshot ==
  /\ pushed # Unset
  /\ pushed' = Unset
  /\ Update(pushed, documents, isLoading, canLoadMore, error, fetches)
  /\ UNCHANGED <<feed, writes, listening, seen, appears>>

\* The callback of a query of refresh(): an error leaves isLoading set.
Fetched(i) ==
  /\ i \in DOMAIN fetches
  /\ fetches[i].state # "asked"
  /\ IF fetches[i].state = "failed"
     THEN Update(newest, documents, isLoading, canLoadMore, TRUE, RemoveAt(fetches, i))
     ELSE LET docs == fetches[i].docs
              more == Len(docs) > docsPerPage
          IN  Update(newest, IF more THEN Front(docs) ELSE docs, FALSE,
                     more \/ canLoadMore, error, RemoveAt(fetches, i))
  /\ UNCHANGED <<server, appears>>

\* viewWillAppear calls refresh(), which shows an empty list until it is answered.
WillAppear ==
  /\ appears < MaxAppears
  /\ appears' = appears + 1
  /\ \/ /\ ~Asks(isLoading)
        /\ UNCHANGED <<fetches, paginator>>
     \/ /\ Asks(isLoading)
        /\ Refresh(newest, fetches)
        /\ sections' = Sections(documents')
        /\ UNCHANGED newest
  /\ UNCHANGED server
-----------------------------------------------------------------------------
Next ==
  \/ \E d \in Doc, i \in 1..(Len(feed) + 1) : Write(d, i)
  \/ Push
  \/ \E i \in DOMAIN fetches : Answer(i) \/ Fetched(i)
  \/ ListenerFails
  \/ Snapshot
  \/ WillAppear

Spec == Init /\ [][Next]_vars

\* Firestore answers and notifies in the end, and the main thread runs what is
\* dispatched to it.  Nobody has to write, to look or to fail.
Fairness ==
  /\ WF_vars(Push)
  /\ WF_vars(Snapshot)
  /\ WF_vars(\E i \in DOMAIN fetches : Answer(i))
  /\ WF_vars(\E i \in DOMAIN fetches : Fetched(i))

FairSpec == Spec /\ Fairness
-----------------------------------------------------------------------------
(* Properties.                                                             *)

\* refresh() never asks twice, neither when the listener, an answer and the view call
\* it in turn nor when it is called by the onUpdate that it calls itself: a late
\* answer cannot overwrite a later one.  A query is out exactly while isLoading is set and the last one has not failed.
OneFetchAtATime ==
  /\ Len(fetches) <= 1
  /\ isLoading <=> Len(fetches) = 1 \/ error

\* An idle list is headed by the newest document that the listener knows of,
\* whichever of the listener and the query was called back last.
IdleIsCurrent == ~isLoading => ~hasNew(newest, documents)

\* canLoadMore is claimed only of a whole page, and never during a refresh.
MoreMeansFullPage == canLoadMore => ~isLoading /\ Len(documents) = docsPerPage

\* Where the articles of source t are among the documents.
PlacesOf(docs, t) == {i \in DOMAIN docs : source[docs[i]] = t}

\* The articles are the documents at these places, each once and in order.
InOrder(articles, docs, places) ==
  \E at \in [DOMAIN articles -> places] :
    /\ \A k, m \in DOMAIN articles : k < m => at[k] < at[m]
    /\ \A i \in places : \E k \in DOMAIN articles : at[k] = i
    /\ \A k \in DOMAIN articles : articles[k] = docs[at[k]]

\* What is on screen are the documents of the paginator: a section for each
\* source in the order of its first article, with all its articles in order.
ShowsTheDocuments ==
  LET places(j) == PlacesOf(documents, sections[j].title)
  IN  /\ {sections[j].title : j \in DOMAIN sections}
           = {source[documents[i]] : i \in DOMAIN documents} \ {NoSource}
      /\ \A j, k \in DOMAIN sections : j < k => \E i \in places(j) : \A m \in places(k) : i < m
      /\ \A j \in DOMAIN sections : InOrder(sections[j].articles, documents, places(j))

\* After one failed query the paginator never asks again and shows nothing, not
\* even when the view appears again or the listener reports a new document.
FailureIsTerminal ==
  [][error => error' /\ fetches' = <<>> /\ sections' = <<>>]_vars

\* Under fairness the list ends up showing the newest document of the feed,
\* unless a query or the listener failed: refreshing stops once the listener has
\* caught up, although an answer that is ahead of it is thrown away.
FreshInTheEnd ==
  <>[](\/ error \/ ~listening
       \/ ~isLoading /\ First(documents) = First(feed) /\ newest = First(feed))
=============================================================================
