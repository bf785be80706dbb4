--------------------------- MODULE FeedView_proofs ---------------------------
(***************************************************************************)
(* The paginator asks once at a time, an idle list is headed by the newest *)
(* document that the listener knows of, a failure is for ever, and what is *)
(* on screen are the documents, grouped by source in order, for any        *)
(* documents, sources, page size and number of writes.                     *)
(***************************************************************************)
EXTENDS FeedView, WellFoundedInduction, TLAPS

\* The part of the type invariant that is needed; the sections follow further down.
Typed ==
  /\ feed \in Seq(Doc)
  /\ documents \in Seq(Doc)
  /\ isLoading \in BOOLEAN /\ canLoadMore \in BOOLEAN /\ error \in BOOLEAN

\* The query that is out, if any: what it was answered is no more than was asked for.
Fits(f) ==
  /\ f.state \in {"asked", "answered", "failed"}
  /\ f.state = "answered" => f.docs \in Seq(Doc) /\ Len(f.docs) <= docsPerPage + 1
Out == fetches = <<>> \/ \E f : fetches = <<f>> /\ Fits(f)

\* A query is out exactly while the paginator loads and has not failed.
Asking == isLoading <=> fetches # <<>> \/ error

\* After a failure nothing is out.
Failed == error => fetches = <<>>

\* While the paginator loads it shows nothing.
Blank == isLoading => documents = <<>> /\ sections = <<>>

IInv == Typed /\ Out /\ Asking /\ Failed /\ Blank /\ IdleIsCurrent /\ MoreMeansFullPage

\* No documents make no sections.
LEMMA NoSections == Sections(<<>>) = <<>>
<1> DEFINE step(f) == [i \in 0..Len(<<>>) |->
             IF i = 0 THEN <<>>
             ELSE IF Skips(<<>>[i]) THEN f[i - 1]
             ELSE AddArticle(f[i - 1], <<>>[i])]
           one == [i \in {0} |-> <<>>]
<1>1. 0..Len(<<>>) = {0}
  BY SMT
<1>2. one = step(one)
  <2>1. \A i \in {0} : one[i] = step(one)[i]
    BY <1>1
  <2> QED
    BY <1>1, <2>1
<1>3. \A f : f = step(f) => f[0] = <<>>
  BY <1>1
<1>4. (CHOOSE f : f = step(f)) = step(CHOOSE f : f = step(f))
  BY <1>2
<1>5. (CHOOSE f : f = step(f))[0] = <<>>
  BY <1>3, <1>4
<1> QED
  BY <1>1, <1>5 DEF Sections

\* The head of a feed that is not longer than a page and one document more.
LEMMA PageFits ==
  ASSUME NEW docs \in Seq(Doc)
  PROVE  LET page == SubSeq(docs, 1, Min({docsPerPage + 1, Len(docs)}))
         IN  page \in Seq(Doc) /\ Len(page) <= docsPerPage + 1
<1> DEFINE n == Min({docsPerPage + 1, Len(docs)})
<1>1. docsPerPage + 1 \in Nat /\ Len(docs) \in Nat
  BY FeedAssumption
<1>2. \E x \in {docsPerPage + 1, Len(docs)} : \A y \in {docsPerPage + 1, Len(docs)} : x =< y
  BY <1>1
<1>3. n \in {docsPerPage + 1, Len(docs)} /\ \A y \in {docsPerPage + 1, Len(docs)} : n =< y
  BY <1>2 DEF Min
<1>4. n \in Nat /\ n <= docsPerPage + 1 /\ n <= Len(docs)
  BY <1>1, <1>3
<1> HIDE DEF n
<1>5. SubSeq(docs, 1, n) \in Seq(Doc) /\ Len(SubSeq(docs, 1, n)) = n
  BY <1>4
<1> QED
  BY <1>4, <1>5 DEF n

\* The paginator starts with one query out.
LEMMA InitIInv == Init => IInv
<1> SUFFICES ASSUME Init PROVE IInv
  OBVIOUS
<1>1. Typed
  <2>1. feed = <<>> \/ \E d \in Doc : feed = <<d>>
    BY DEF Init
  <2>2. <<>> \in Seq(Doc) /\ \A d \in Doc : <<d>> \in Seq(Doc)
    OBVIOUS
  <2> QED
    BY <2>1, <2>2 DEF Init, Typed
<1>2. Out
  BY DEF Init, Out, Fits
<1>3. fetches # <<>>
  BY DEF Init
<1>4. Asking /\ Failed /\ Blank /\ IdleIsCurrent /\ MoreMeansFullPage
  BY <1>3 DEF Init, Asking, Failed, Blank, IdleIsCurrent, MoreMeansFullPage
<1> QED
  BY <1>1, <1>2, <1>4 DEF IInv

\* refresh() past its guard, whatever was shown before.
LEMMA RefreshAsks ==
  ASSUME NEW top, feed' \in Seq(Doc), Refresh(top, <<>>), sections' = Sections(documents')
  PROVE  IInv'
<1>1. Typed'
  <2>1. documents' \in Seq(Doc)
    BY DEF Refresh
  <2> QED
    BY <2>1 DEF Refresh, Typed
<1>2. fetches' = <<[state |-> "asked"]>>
  BY DEF Refresh, Asked, Asks
<1>3. Out' /\ fetches' # <<>>
  BY <1>2 DEF Out, Fits
<1>4. sections' = <<>>
  BY NoSections DEF Refresh
<1>5. Asking' /\ Failed' /\ Blank' /\ IdleIsCurrent' /\ MoreMeansFullPage'
  BY <1>3, <1>4 DEF Refresh, Asking, Failed, Blank, IdleIsCurrent, MoreMeansFullPage
<1> QED
  BY <1>1, <1>3, <1>5 DEF IInv

\* A callback that leaves a paginator that loads, or whose page is complete, and calls
\* onUpdate.
LEMMA UpdateKeeps ==
  ASSUME NEW top, NEW docs \in Seq(Doc), NEW loading \in BOOLEAN, NEW more \in BOOLEAN,
         NEW err \in BOOLEAN, NEW rest,
         Update(top, docs, loading, more, err, rest),
         feed' \in Seq(Doc),
         rest = <<>> \/ \E f : rest = <<f>> /\ Fits(f),
         loading <=> rest # <<>> \/ err,
         err => rest = <<>>,
         loading => docs = <<>>,
         more => ~loading /\ Len(docs) = docsPerPage
  PROVE  IInv'
<1>1. CASE hasNew(top, docs) /\ Asks(loading)
  <2>1. Refresh(top, <<>>) /\ sections' = Sections(documents')
    BY <1>1 DEF Update, Asks
  <2> QED
    BY <2>1, RefreshAsks
<1>2. CASE ~(hasNew(top, docs) /\ Asks(loading))
  <2>1. /\ documents' = docs /\ isLoading' = loading /\ canLoadMore' = more
        /\ error' = err /\ fetches' = rest /\ newest' = top
        /\ sections' = Sections(docs)
    BY <1>2 DEF Update
  <2>2. Typed'
    BY <2>1 DEF Typed
  <2>3. Out'
    BY <2>1 DEF Out, Fits
  <2>4. Asking' /\ Failed'
    BY <2>1 DEF Asking, Failed
  <2>5. Blank'
    BY <2>1, NoSections DEF Blank
  <2>6. IdleIsCurrent'
    BY <1>2, <2>1 DEF IdleIsCurrent, Asks, hasNew, First
  <2>7. MoreMeansFullPage'
    BY <2>1 DEF MoreMeansFullPage
  <2> QED
    BY <2>2, <2>3, <2>4, <2>5, <2>6, <2>7 DEF IInv
<1> QED
  BY <1>1, <1>2

\* The list on the phone is left alone.
LEMMA PhoneUnchanged ==
  ASSUME IInv, feed' \in Seq(Doc), Out', (fetches = <<>>) <=> (fetches' = <<>>), UNCHANGED paginator
  PROVE  IInv'
BY DEF IInv, Typed, Asking, Failed, Blank, IdleIsCurrent, MoreMeansFullPage, hasNew, First, paginator

\* A write leaves a sequence of documents.
LEMMA WriteKeeps == ASSUME IInv, NEW d \in Doc, NEW i, Write(d, i) PROVE IInv'
<1> DEFINE old == {k \in DOMAIN feed : feed[k] = d}
           rest == IF old = {} THEN feed ELSE RemoveAt(feed, CHOOSE k \in old : TRUE)
<1>1. feed \in Seq(Doc)
  BY DEF IInv, Typed
<1>2. ASSUME NEW k \in DOMAIN feed PROVE RemoveAt(feed, k) \in Seq(Doc)
  <2>1. k \in 1..Len(feed) /\ Len(feed) \in Nat
    BY <1>1
  <2>2. SubSeq(feed, 1, k - 1) \in Seq(Doc) /\ SubSeq(feed, k + 1, Len(feed)) \in Seq(Doc)
    BY <1>1, <2>1
  <2> QED
    BY <2>2 DEF RemoveAt
<1>3. rest \in Seq(Doc)
  <2>1. CASE old = {}
    BY <1>1, <2>1
  <2>2. CASE old # {}
    <3>1. (CHOOSE k \in old : TRUE) \in DOMAIN feed
      BY <2>2
    <3> QED
      BY <2>2, <3>1, <1>2
  <2> QED
    BY <2>1, <2>2
<1>4. i \in 1..(Len(rest) + 1) /\ feed' = InsertAt(rest, i, d)
  BY DEF Write
<1> HIDE DEF rest
<1>5. SubSeq(rest, 1, i - 1) \in Seq(Doc) /\ SubSeq(rest, i, Len(rest)) \in Seq(Doc)
  BY <1>3, <1>4
<1>6. feed' \in Seq(Doc)
  BY <1>4, <1>5 DEF InsertAt
<1>7. UNCHANGED <<fetches, paginator>>
  BY DEF Write
<1>8. Out'
  BY <1>7 DEF IInv, Out, Fits
<1> QED
  BY <1>6, <1>7, <1>8, PhoneUnchanged

\* A query that is out is the only one, and the list is empty meanwhile.
LEMMA OnlyOne ==
  ASSUME IInv, NEW i \in DOMAIN fetches
  PROVE  /\ i = 1 /\ fetches = <<fetches[1]>> /\ Fits(fetches[1])
         /\ RemoveAt(fetches, i) = <<>>
         /\ isLoading /\ ~error /\ documents = <<>> /\ ~canLoadMore
<1>1. PICK f : fetches = <<f>> /\ Fits(f)
  BY DEF IInv, Out
<1>2. i = 1 /\ fetches[1] = f
  BY <1>1
<1>3. RemoveAt(<<f>>, 1) = <<>>
  BY DEF RemoveAt
<1>4. fetches # <<>>
  BY <1>1
<1>5. isLoading /\ ~error /\ documents = <<>> /\ ~canLoadMore
  BY <1>4 DEF IInv, Asking, Failed, Blank, MoreMeansFullPage
<1> QED
  BY <1>1, <1>2, <1>3, <1>5

\* Firestore answers with no more than a page and one document, or fails.
LEMMA AnswerKeeps == ASSUME IInv, NEW i \in DOMAIN fetches, Answer(i) PROVE IInv'
<1>1. i = 1 /\ fetches = <<fetches[1]>>
  BY OnlyOne
<1>2. feed' = feed /\ UNCHANGED paginator /\ feed \in Seq(Doc)
  BY DEF Answer, server, IInv, Typed
<1> DEFINE page == SubSeq(feed, 1, Min({docsPerPage + 1, Len(feed)}))
<1>3. page \in Seq(Doc) /\ Len(page) <= docsPerPage + 1
  BY <1>2, PageFits
<1>4. PICK f : fetches' = [fetches EXCEPT ![1] = f]
              /\ (f = [state |-> "answered", docs |-> page] \/ f = [state |-> "failed"])
  BY <1>1 DEF Answer
<1>5. fetches' = <<f>>
  BY <1>1, <1>4
<1> HIDE DEF page
<1>6. Fits(f)
  BY <1>3, <1>4 DEF Fits
<1>7. Out' /\ fetches # <<>> /\ fetches' # <<>>
  BY <1>1, <1>5, <1>6 DEF Out, Fits
<1> QED
  BY <1>2, <1>7, PhoneUnchanged

\* The callback of a query ends the loading, unless it failed.
LEMMA FetchedKeeps == ASSUME IInv, NEW i \in DOMAIN fetches, Fetched(i) PROVE IInv'
<1>1. /\ i = 1 /\ Fits(fetches[1]) /\ RemoveAt(fetches, i) = <<>>
      /\ isLoading /\ ~error /\ documents = <<>> /\ ~canLoadMore
  BY OnlyOne
<1>2. feed' \in Seq(Doc) /\ isLoading \in BOOLEAN /\ canLoadMore \in BOOLEAN /\ error \in BOOLEAN
  BY DEF Fetched, server, IInv, Typed
<1>3. CASE fetches[i].state = "failed"
  <2>1. Update(newest, <<>>, TRUE, FALSE, TRUE, <<>>)
    <3>1. Update(newest, documents, isLoading, canLoadMore, TRUE, RemoveAt(fetches, i))
      BY <1>3 DEF Fetched
    <3>2. isLoading = TRUE /\ canLoadMore = FALSE
      BY <1>1, <1>2
    <3> QED
      BY <3>1, <3>2, <1>1
  <2>2. <<>> \in Seq(Doc)
    OBVIOUS
  <2> QED
    BY <2>1, <2>2, <1>2, UpdateKeeps
<1>4. CASE fetches[i].state # "failed"
  <2> DEFINE docs == fetches[i].docs
             more == Len(docs) > docsPerPage
             shown == IF more THEN Front(docs) ELSE docs
  <2>1. Update(newest, shown, FALSE, more \/ canLoadMore, error, RemoveAt(fetches, i))
    BY <1>4 DEF Fetched
  <2>2. fetches[1].state = "answered"
    BY <1>1, <1>4 DEF Fits, Fetched
  <2>3. docs \in Seq(Doc) /\ Len(docs) <= docsPerPage + 1
    BY <1>1, <2>2 DEF Fits
  <2>4. shown \in Seq(Doc) /\ (more => Len(shown) = docsPerPage)
    BY <2>3, FeedAssumption DEF Front
  <2>5. error = FALSE /\ (more \/ canLoadMore) = more
    BY <1>1, <1>2
  <2> HIDE DEF shown, more
  <2>6. Update(newest, shown, FALSE, more, FALSE, <<>>)
    BY <2>1, <2>5, <1>1
  <2>7. more \in BOOLEAN
    BY DEF more
  <2> QED
    BY <2>4, <2>6, <2>7, <1>2, UpdateKeeps
<1> QED
  BY <1>3, <1>4

\* A snapshot of the listener starts a refresh only when none is out.
LEMMA SnapshotKeeps == ASSUME IInv, Snapshot PROVE IInv'
<1>1. Update(pushed, documents, isLoading, canLoadMore, error, fetches) /\ feed' = feed
  BY DEF Snapshot
<1>2. /\ feed' \in Seq(Doc) /\ documents \in Seq(Doc)
      /\ isLoading \in BOOLEAN /\ canLoadMore \in BOOLEAN /\ error \in BOOLEAN
  BY <1>1 DEF IInv, Typed
<1>3. /\ fetches = <<>> \/ \E f : fetches = <<f>> /\ Fits(f)
      /\ isLoading <=> fetches # <<>> \/ error
      /\ error => fetches = <<>>
      /\ isLoading => documents = <<>>
      /\ canLoadMore => ~isLoading /\ Len(documents) = docsPerPage
  BY DEF IInv, Out, Asking, Failed, Blank, MoreMeansFullPage
<1> QED
  BY <1>1, <1>2, <1>3, UpdateKeeps

\* refresh() of viewWillAppear returns at once while a query is out.
LEMMA WillAppearKeeps == ASSUME IInv, WillAppear PROVE IInv'
<1>1. feed' \in Seq(Doc)
  BY DEF WillAppear, server, IInv, Typed
<1>2. CASE isLoading
  <2>1. UNCHANGED <<fetches, paginator>>
    BY <1>2 DEF WillAppear, Asks
  <2>2. Out'
    BY <2>1 DEF IInv, Out, Fits
  <2> QED
    BY <1>1, <2>1, <2>2, PhoneUnchanged
<1>3. CASE ~isLoading
  <2>1. fetches = <<>>
    BY <1>3 DEF IInv, Asking
  <2>2. Refresh(newest, <<>>) /\ sections' = Sections(documents')
    BY <1>3, <2>1 DEF WillAppear, Asks
  <2> QED
    BY <1>1, <2>2, RefreshAsks
<1> QED
  BY <1>2, <1>3

\* Every step keeps the invariant.
LEMMA NextKeeps == IInv /\ [Next]_vars => IInv'
<1> SUFFICES ASSUME IInv, [Next]_vars PROVE IInv'
  OBVIOUS
<1>1. ASSUME UNCHANGED <<feed, fetches, paginator>> PROVE IInv'
  <2>1. Out' /\ feed' \in Seq(Doc)
    BY <1>1 DEF IInv, Typed, Out, Fits
  <2> QED
    BY <1>1, <2>1, PhoneUnchanged
<1>2. CASE \E d \in Doc, i \in 1..(Len(feed) + 1) : Write(d, i)
  BY <1>2, WriteKeeps
<1>3. CASE Push
  BY <1>1, <1>3 DEF Push
<1>4. CASE \E i \in DOMAIN fetches : Answer(i) \/ Fetched(i)
  BY <1>4, AnswerKeeps, FetchedKeeps
<1>5. CASE ListenerFails
  BY <1>1, <1>5 DEF ListenerFails
<1>6. CASE Snapshot
  BY <1>6, SnapshotKeeps
<1>7. CASE WillAppear
  BY <1>7, WillAppearKeeps
<1>8. CASE UNCHANGED vars
  BY <1>1, <1>8 DEF vars, server
<1> QED
  BY <1>2, <1>3, <1>4, <1>5, <1>6, <1>7, <1>8 DEF Next

\* The invariant holds for any documents, page size and order of callbacks.
THEOREM Invariant == Spec => []IInv
<1> QED
  BY InitIInv, NextKeeps, PTL DEF Spec
-----------------------------------------------------------------------------
\* refresh() never asks twice, and a query is out exactly while the list is loading
\* and has not failed.
THEOREM OneFetchAtATimeHolds == Spec => []OneFetchAtATime
<1>1. IInv => OneFetchAtATime
  <2> SUFFICES ASSUME IInv PROVE OneFetchAtATime
    OBVIOUS
  <2>1. CASE fetches = <<>>
    <3>1. Len(fetches) = 0
      BY <2>1
    <3> QED
      BY <2>1, <3>1 DEF IInv, Asking, OneFetchAtATime
  <2>2. CASE \E f : fetches = <<f>>
    <3>1. Len(fetches) = 1 /\ fetches # <<>>
      BY <2>2
    <3> QED
      BY <3>1 DEF IInv, Asking, OneFetchAtATime
  <2> QED
    BY <2>1, <2>2 DEF IInv, Out
<1> QED
  BY <1>1, Invariant, PTL

\* Whichever callback came last, an idle list is headed by the newest document that
\* the listener has reported.
THEOREM IdleIsCurrentHolds == Spec => []IdleIsCurrent
<1>1. IInv => IdleIsCurrent
  BY DEF IInv
<1> QED
  BY <1>1, Invariant, PTL

\* canLoadMore is set only for a whole page, for any docsPerPage.
THEOREM MoreMeansFullPageHolds == Spec => []MoreMeansFullPage
<1>1. IInv => MoreMeansFullPage
  BY DEF IInv
<1> QED
  BY <1>1, Invariant, PTL

\* A paginator that failed once never asks again and shows nothing, whatever the
\* listener reports and however often the view appears.
THEOREM FailureIsTerminalHolds == Spec => FailureIsTerminal
<1>1. IInv /\ IInv' /\ [Next]_vars =>
        [error => error' /\ fetches' = <<>> /\ sections' = <<>>]_vars
  <2> SUFFICES ASSUME IInv, IInv', Next, error
               PROVE  error' /\ fetches' = <<>> /\ sections' = <<>>
    OBVIOUS
  <2>1. isLoading /\ fetches = <<>> /\ DOMAIN fetches = {}
    BY DEF IInv, Asking, Failed
  <2>2. error' = error
    <3>1. CASE Snapshot
      BY <2>1, <3>1 DEF Snapshot, Update, Asks
    <3>2. CASE WillAppear
      BY <2>1, <3>2 DEF WillAppear, Asks, paginator
    <3>3. CASE Push \/ ListenerFails \/ \E d \in Doc, i \in 1..(Len(feed) + 1) : Write(d, i)
      BY <3>3 DEF Push, ListenerFails, Write, paginator
    <3> QED
      BY <2>1, <3>1, <3>2, <3>3 DEF Next
  <2>3. fetches' = <<>> /\ isLoading' /\ sections' = <<>>
    BY <2>2 DEF IInv, Asking, Failed, Blank
  <2> QED
    BY <2>2, <2>3
<1> QED
  BY <1>1, Invariant, PTL DEF Spec, FailureIsTerminal
-----------------------------------------------------------------------------
(***************************************************************************)
(* The sections.  The grouping loop is a recursive function of the number  *)
(* of documents it has seen.  That it is well defined, and what it holds   *)
(* after each of them, is shown by looking at the least number for which   *)
(* it would not be so.                                                     *)
(***************************************************************************)

\* The least-number principle.
LEMMA Least ==
  ASSUME NEW T, T \subseteq Nat, T # {}
  PROVE  \E x \in T : \A y \in T : x <= y
<1> DEFINE R == {ss \in Nat \X Nat : ss[1] < ss[2]}
<1>1. R = OpToRel(<, Nat)
  BY DEF OpToRel
<1>2. IsWellFoundedOn(R, Nat)
  BY <1>1, NatLessThanWellFounded
<1>3. \A m, n \in Nat : m < n => <<m, n>> \in R
  OBVIOUS
<1> HIDE DEF R
<1>4. PICK x \in T : \A y \in T : ~(<<y, x>> \in R)
  BY <1>2, WFMin
<1>5. ASSUME NEW y \in T PROVE x <= y
  <2>1. x \in Nat /\ y \in Nat /\ ~(y < x)
    BY <1>3, <1>4
  <2>2. QED
    BY <2>1
<1>6. QED
  BY <1>5

\* So a set of numbers up to N that contains 0 and the successors of its elements
\* contains all of them.
LEMMA Induction ==
  ASSUME NEW N \in Nat, NEW G, 0 \in G,
         \A n \in 1..N : n - 1 \in G => n \in G
  PROVE  \A n \in 0..N : n \in G
<1> DEFINE T == (0..N) \ G
<1> SUFFICES ASSUME T # {} PROVE FALSE
  OBVIOUS
<1>1. PICK x \in T : \A y \in T : x <= y
  <2>1. T \subseteq Nat
    OBVIOUS
  <2> HIDE DEF T
  <2>2. QED
    BY <2>1, Least
<1>2. x \in 1..N /\ x \notin G
  BY <1>1
<1>3. x - 1 \notin G
  BY <1>2
<1>4. x - 1 \in T /\ ~(x <= x - 1)
  BY <1>2, <1>3
<1>5. QED
  BY <1>1, <1>4

\* One turn of the grouping loop.
Turn(secs, d) == IF Skips(d) THEN secs ELSE AddArticle(secs, d)

\* The turns of the loop over the first n documents.
Turns(f, docs, n) ==
  f = [i \in 0..n |-> IF i = 0 THEN <<>> ELSE Turn(f[i - 1], docs[i])]

\* The loop is well defined: Sections is what its last turn leaves.
LEMMA SectionsTurns ==
  ASSUME NEW docs \in Seq(Doc)
  PROVE  \E f : Turns(f, docs, Len(docs)) /\ Sections(docs) = f[Len(docs)]
<1> DEFINE N == Len(docs)
           G == {n \in 0..N : \E f : Turns(f, docs, n)}
<1>1. N \in Nat
  OBVIOUS
<1> HIDE DEF N
<1>2. 0 \in G
  <2> DEFINE f == [i \in {0} |-> <<>>]
  <2>1. 0..0 = {0} /\ 0 \in 0..N
    BY <1>1
  <2>2. Turns(f, docs, 0)
    BY <2>1 DEF Turns
  <2>3. QED
    BY <2>1, <2>2
<1>3. ASSUME NEW n \in 1..N, n - 1 \in G PROVE n \in G
  <2>1. PICK f : Turns(f, docs, n - 1)
    BY <1>3
  <2> DEFINE g == [i \in 0..n |-> IF i = n THEN Turn(f[n - 1], docs[n]) ELSE f[i]]
             h == [i \in 0..n |-> IF i = 0 THEN <<>> ELSE Turn(g[i - 1], docs[i])]
  <2>2. ASSUME NEW i \in 0..n PROVE g[i] = h[i]
    <3>1. CASE i = n
      <4>1. i # 0 /\ i - 1 \in 0..n /\ i - 1 # n
        BY <1>1, <3>1
      <4>2. g[i - 1] = f[n - 1]
        BY <3>1, <4>1
      <4>3. QED
        BY <3>1, <4>1, <4>2
    <3>2. CASE i # n
      <4>1. i \in 0..(n - 1) /\ (i # 0 => i - 1 \in 0..n /\ i - 1 # n)
        BY <1>1, <3>2
      <4>2. f[i] = IF i = 0 THEN <<>> ELSE Turn(f[i - 1], docs[i])
        BY <2>1, <4>1 DEF Turns
      <4>3. i # 0 => g[i - 1] = f[i - 1]
        BY <4>1
      <4>4. QED
        BY <3>2, <4>2, <4>3
    <3>3. QED
      BY <3>1, <3>2
  <2>3. g = h
    BY <2>2
  <2>4. Turns(g, docs, n)
    BY <2>3 DEF Turns
  <2>5. n \in 0..N
    BY <1>1
  <2>6. QED
    BY <2>4, <2>5
<1>4. N \in G
  <2>1. N \in 0..N
    BY <1>1
  <2> HIDE DEF G
  <2>2. QED
    BY <1>1, <1>2, <1>3, <2>1, Induction
<1>5. \E f : Turns(f, docs, N)
  BY <1>4
<1> DEFINE F == CHOOSE f : Turns(f, docs, N)
<1>6. Turns(F, docs, N)
  BY <1>5
<1>7. Sections(docs) = F[N]
  BY DEF Sections, Turns, Turn, N
<1> HIDE DEF F
<1>8. QED
  BY <1>6, <1>7 DEF N

\* A later document is the last of the articles it joins.
LEMMA InOrderAppend ==
  ASSUME NEW docs, NEW articles \in Seq(Doc), NEW n \in Nat, NEW places,
         places \subseteq 1..(n - 1), InOrder(articles, docs, places)
  PROVE  InOrder(Append(articles, docs[n]), docs, places \cup {n})
<1> DEFINE N == Len(articles)
           more == Append(articles, docs[n])
<1>1. /\ N \in Nat /\ DOMAIN articles = 1..N /\ DOMAIN more = 1..(N + 1)
      /\ more[N + 1] = docs[n] /\ \A k \in 1..N : more[k] = articles[k]
  OBVIOUS
<1> HIDE DEF N, more
<1>2. PICK at \in [1..N -> places] :
        /\ \A k, m \in 1..N : k < m => at[k] < at[m]
        /\ \A i \in places : \E k \in 1..N : at[k] = i
        /\ \A k \in 1..N : articles[k] = docs[at[k]]
  BY <1>1 DEF InOrder
<1> DEFINE to == [k \in 1..(N + 1) |-> IF k = N + 1 THEN n ELSE at[k]]
<1>3. \A k \in 1..(N + 1) : k # N + 1 => k \in 1..N
  BY <1>1
<1>4. /\ to \in [1..(N + 1) -> places \cup {n}] /\ N + 1 \in 1..(N + 1) /\ to[N + 1] = n
      /\ \A k \in 1..N : k \in 1..(N + 1) /\ k < N + 1 /\ to[k] = at[k] /\ at[k] < n
  <2>1. \A k \in 1..N : k \in 1..(N + 1) /\ k < N + 1 /\ k # N + 1
    BY <1>1
  <2>2. \A k \in 1..N : at[k] < n
    <3>1. \A i \in places : i < n
      OBVIOUS
    <3>2. QED
      BY <1>2, <3>1
  <2>3. to \in [1..(N + 1) -> places \cup {n}]
    BY <1>2, <1>3
  <2>4. QED
    BY <1>1, <2>1, <2>2, <2>3
<1> HIDE DEF to
<1>5. ASSUME NEW k \in 1..(N + 1), NEW m \in 1..(N + 1), k < m PROVE to[k] < to[m]
  <2>1. k # N + 1 /\ k \in 1..N
    BY <1>1, <1>5
  <2>2. CASE m = N + 1
    BY <1>4, <2>1, <2>2
  <2>3. CASE m # N + 1
    BY <1>2, <1>3, <1>4, <1>5, <2>1, <2>3
  <2>4. QED
    BY <2>2, <2>3
<1>6. \A i \in places \cup {n} : \E k \in 1..(N + 1) : to[k] = i
  BY <1>2, <1>4
<1>7. \A k \in 1..(N + 1) : more[k] = docs[to[k]]
  BY <1>1, <1>2, <1>3, <1>4
<1>8. InOrder(more, docs, places \cup {n})
  <2>1. to \in [DOMAIN more -> places \cup {n}]
    BY <1>1, <1>4
  <2>2. /\ \A k, m \in DOMAIN more : k < m => to[k] < to[m]
        /\ \A i \in places \cup {n} : \E k \in DOMAIN more : to[k] = i
        /\ \A k \in DOMAIN more : more[k] = docs[to[k]]
    BY <1>1, <1>5, <1>6, <1>7
  <2>3. QED
    BY <2>1, <2>2, Zenon DEF InOrder
<1>9. QED
  BY <1>8 DEF more

\* The first article of a section.
LEMMA InOrderOne ==
  ASSUME NEW docs, NEW n \in Nat
  PROVE  InOrder(<<docs[n]>>, docs, {n})
<1> DEFINE at == [k \in {1} |-> n]
<1>1. DOMAIN <<docs[n]>> = {1} /\ <<docs[n]>>[1] = docs[n]
  OBVIOUS
<1>2. at \in [{1} -> {n}] /\ at[1] = n
  OBVIOUS
<1>3. /\ \A k, m \in {1} : k < m => at[k] < at[m]
      /\ \A i \in {n} : \E k \in {1} : at[k] = i
      /\ \A k \in {1} : <<docs[n]>>[k] = docs[at[k]]
  BY <1>1, <1>2
<1> HIDE DEF at
<1>4. QED
  BY <1>1, <1>2, <1>3, Zenon DEF InOrder

\* What the sections are after n documents.
Upto(docs, n, t) == {i \in 1..n : source[docs[i]] = t}

Grouped(secs, docs, n) ==
  /\ secs \in Seq(Section)
  /\ \A j \in DOMAIN secs : Upto(docs, n, secs[j].title) # {}
  /\ \A i \in 1..n : source[docs[i]] # NoSource =>
       \E j \in DOMAIN secs : secs[j].title = source[docs[i]]
  /\ \A j, k \in DOMAIN secs : j < k =>
       \E i \in Upto(docs, n, secs[j].title) : \A m \in Upto(docs, n, secs[k].title) : i < m
  /\ \A j \in DOMAIN secs : InOrder(secs[j].articles, docs, Upto(docs, n, secs[j].title))

\* A turn of the loop keeps the documents grouped.
LEMMA TurnKeeps ==
  ASSUME NEW docs \in Seq(Doc), NEW n \in 1..Len(docs), NEW secs, Grouped(secs, docs, n - 1)
  PROVE  Grouped(Turn(secs, docs[n]), docs, n)
<1> DEFINE d == docs[n]
           old(t) == Upto(docs, n - 1, t)
           new(t) == Upto(docs, n, t)
<1>0. /\ n \in Nat /\ d \in Doc /\ source[d] \in Source \cup {NoSource} /\ NoSource \notin Source
      /\ 1..n = (1..(n - 1)) \cup {n} /\ n \notin 1..(n - 1)
      /\ \A i \in 1..(n - 1) : i < n
  <2>1. n \in Nat /\ n >= 1 /\ d \in Doc
    OBVIOUS
  <2>2. QED
    BY <2>1, FeedAssumption
<1>1. /\ secs \in Seq(Section) /\ DOMAIN secs = 1..Len(secs) /\ Len(secs) \in Nat
      /\ \A j \in DOMAIN secs : /\ secs[j] \in Section /\ secs[j].title \in Source
                                /\ secs[j].articles \in Seq(Doc)
  <2>1. secs \in Seq(Section)
    BY DEF Grouped
  <2>2. \A j \in DOMAIN secs : secs[j] \in Section
    BY <2>1
  <2>3. QED
    BY <2>1, <2>2 DEF Section
<1>2. \A t : /\ t # source[d] => new(t) = old(t)
             /\ t = source[d] => new(t) = old(t) \cup {n}
             /\ old(t) \subseteq 1..(n - 1)
  BY <1>0 DEF Upto
<1>3. /\ \A j \in DOMAIN secs : old(secs[j].title) # {}
      /\ \A i \in 1..(n - 1) : source[docs[i]] # NoSource =>
           \E j \in DOMAIN secs : secs[j].title = source[docs[i]]
      /\ \A j, k \in DOMAIN secs : j < k =>
           \E i \in old(secs[j].title) : \A m \in old(secs[k].title) : i < m
      /\ \A j \in DOMAIN secs : InOrder(secs[j].articles, docs, old(secs[j].title))
  BY DEF Grouped
<1> DEFINE turned == Turn(secs, d)
<1>4. SUFFICES /\ turned \in Seq(Section)
               /\ \A j \in DOMAIN turned : new(turned[j].title) # {}
               /\ \A i \in 1..n : source[docs[i]] # NoSource =>
                    \E j \in DOMAIN turned : turned[j].title = source[docs[i]]
               /\ \A j, k \in DOMAIN turned : j < k =>
                    \E i \in new(turned[j].title) : \A m \in new(turned[k].title) : i < m
               /\ \A j \in DOMAIN turned : InOrder(turned[j].articles, docs, new(turned[j].title))
  BY DEF Grouped
<1> HIDE DEF old, new, d
<1>5. CASE Skips(d)
  <2>1. turned = secs /\ source[d] = NoSource /\ source[docs[n]] = NoSource
    BY <1>5 DEF Turn, Skips, d
  <2>2. \A j \in DOMAIN secs : new(secs[j].title) = old(secs[j].title)
    BY <1>0, <1>1, <1>2, <2>1
  <2> HIDE DEF turned
  <2>3. \A j \in DOMAIN secs : new(secs[j].title) # {} /\ InOrder(secs[j].articles, docs, new(secs[j].title))
    BY <1>3, <2>2
  <2>4. ASSUME NEW j \in DOMAIN secs, NEW k \in DOMAIN secs, j < k
        PROVE  \E i \in new(secs[j].title) : \A m \in new(secs[k].title) : i < m
    <3>1. new(secs[j].title) = old(secs[j].title) /\ new(secs[k].title) = old(secs[k].title)
      BY <2>2
    <3>2. PICK i \in old(secs[j].title) : \A m \in old(secs[k].title) : i < m
      BY <1>3, <2>4
    <3>3. QED
      BY <3>1, <3>2
  <2>5. \A i \in 1..n : source[docs[i]] # NoSource =>
          \E j \in DOMAIN secs : secs[j].title = source[docs[i]]
    BY <1>0, <1>3, <2>1
  <2>6. QED
    BY <1>1, <2>1, <2>3, <2>4, <2>5
<1>6. CASE ~Skips(d) /\ \E j \in DOMAIN secs : secs[j].title = source[d]
  <2>1. turned = [j \in DOMAIN secs |-> IF secs[j].title = source[d]
                              THEN [secs[j] EXCEPT !.articles = Append(@, d)] ELSE secs[j]]
    BY <1>6 DEF Turn, AddArticle
  <2>2. /\ DOMAIN turned = DOMAIN secs
        /\ \A j \in DOMAIN secs : turned[j] = IF secs[j].title = source[d]
                              THEN [secs[j] EXCEPT !.articles = Append(@, d)] ELSE secs[j]
    BY <2>1
  <2> HIDE DEF turned
  <2>3. ASSUME NEW j \in DOMAIN secs
        PROVE  /\ turned[j] \in Section /\ turned[j].title = secs[j].title
               /\ secs[j].title = source[d] => turned[j].articles = Append(secs[j].articles, d)
               /\ secs[j].title # source[d] => turned[j].articles = secs[j].articles
    <3>1. CASE secs[j].title = source[d]
      <4>1. turned[j] = [secs[j] EXCEPT !.articles = Append(@, d)] /\ secs[j] \in Section
        BY <1>1, <2>2, <3>1
      <4>2. Append(secs[j].articles, d) \in Seq(Doc)
        BY <1>0, <1>1
      <4>3. QED
        BY <3>1, <4>1, <4>2 DEF Section
    <3>2. CASE secs[j].title # source[d]
      BY <1>1, <2>2, <3>2
    <3>3. QED
      BY <3>1, <3>2
  <2>4. turned \in Seq(Section)
    <3>1. turned = [j \in 1..Len(secs) |-> turned[j]]
      BY <1>1, <2>1, <2>2
    <3>2. QED
      BY <1>1, <2>3, <3>1
  <2>5. \A j \in DOMAIN secs : InOrder(turned[j].articles, docs, new(turned[j].title))
    <3> SUFFICES ASSUME NEW j \in DOMAIN secs
                 PROVE  InOrder(turned[j].articles, docs, new(turned[j].title))
      OBVIOUS
    <3>1. CASE secs[j].title = source[d]
      <4>1. InOrder(Append(secs[j].articles, docs[n]), docs, old(secs[j].title) \cup {n})
        BY <1>0, <1>1, <1>2, <1>3, InOrderAppend
      <4>2. QED
        BY <1>2, <2>3, <3>1, <4>1 DEF d
    <3>2. CASE secs[j].title # source[d]
      BY <1>2, <1>3, <2>3, <3>2
    <3>3. QED
      BY <3>1, <3>2
  <2>6. \A j, k \in DOMAIN secs : j < k =>
          \E i \in new(turned[j].title) : \A m \in new(turned[k].title) : i < m
    <3> SUFFICES ASSUME NEW j \in DOMAIN secs, NEW k \in DOMAIN secs, j < k
                 PROVE  \E i \in new(turned[j].title) : \A m \in new(turned[k].title) : i < m
      OBVIOUS
    <3>1. PICK i \in old(secs[j].title) : \A m \in old(secs[k].title) : i < m
      BY <1>3
    <3>2. i < n /\ i \in new(turned[j].title)
      BY <1>0, <1>2, <2>3
    <3>3. QED
      BY <1>2, <2>3, <3>1, <3>2
  <2>7. \A j \in DOMAIN secs : new(turned[j].title) # {}
    BY <1>2, <1>3, <2>3
  <2>8. \A i \in 1..n : source[docs[i]] # NoSource =>
          \E j \in DOMAIN secs : turned[j].title = source[docs[i]]
    BY <1>0, <1>3, <1>6, <2>3 DEF d
  <2>9. QED
    BY <2>2, <2>4, <2>5, <2>6, <2>7, <2>8
<1>7. CASE ~Skips(d) /\ ~\E j \in DOMAIN secs : secs[j].title = source[d]
  <2> DEFINE sec == [title |-> source[d], articles |-> <<d>>]
             N == Len(secs)
  <2>1. turned = Append(secs, sec) /\ source[d] \in Source
    BY <1>0, <1>7 DEF Turn, AddArticle, Skips
  <2>2. sec \in Section /\ sec.title = source[d] /\ sec.articles = <<d>>
    BY <1>0, <2>1 DEF Section
  <2> HIDE DEF sec
  <2>3. /\ turned \in Seq(Section) /\ DOMAIN turned = 1..(N + 1)
        /\ turned[N + 1] = sec /\ \A j \in DOMAIN secs : turned[j] = secs[j]
    BY <1>1, <2>1, <2>2
  <2> HIDE DEF turned
  <2>4. /\ \A j \in 1..(N + 1) : j # N + 1 => j \in DOMAIN secs
        /\ \A j \in DOMAIN secs : j \in 1..(N + 1) /\ j < N + 1
        /\ N + 1 \in 1..(N + 1)
    BY <1>1
  <2>5. old(source[d]) = {} /\ new(source[d]) = {n}
    <3>1. \A i \in 1..(n - 1) : source[docs[i]] # source[d]
      BY <1>0, <1>3, <1>7, <2>1
    <3>2. old(source[d]) = {}
      BY <3>1 DEF old, Upto
    <3>3. QED
      BY <1>2, <3>2
  <2>6. \A j \in DOMAIN secs : new(turned[j].title) = old(secs[j].title)
    BY <1>2, <1>7, <2>3
  <2>7. \A j \in 1..(N + 1) : InOrder(turned[j].articles, docs, new(turned[j].title))
    <3>1. InOrder(sec.articles, docs, new(sec.title))
      BY <1>0, <2>2, <2>5, InOrderOne DEF d
    <3>2. QED
      BY <1>3, <2>3, <2>4, <2>6, <3>1
  <2>8. ASSUME NEW j \in 1..(N + 1), NEW k \in 1..(N + 1), j < k
        PROVE  \E i \in new(turned[j].title) : \A m \in new(turned[k].title) : i < m
    <3>1. j \in DOMAIN secs
      <4>1. j # N + 1
        BY <1>1, <2>8
      <4>2. QED
        BY <2>4, <4>1
    <3>2. CASE k = N + 1
      <4>1. PICK i \in old(secs[j].title) : i < n
        BY <1>0, <1>2, <1>3, <3>1
      <4>2. new(turned[k].title) = {n} /\ i \in new(turned[j].title)
        BY <2>2, <2>3, <2>5, <2>6, <3>1, <3>2
      <4>3. QED
        BY <4>1, <4>2
    <3>3. CASE k # N + 1
      <4>1. k \in DOMAIN secs
        BY <2>4, <3>3
      <4>2. PICK i \in old(secs[j].title) : \A m \in old(secs[k].title) : i < m
        BY <1>3, <2>8, <3>1, <4>1
      <4>3. QED
        BY <2>6, <3>1, <4>1, <4>2
    <3>4. QED
      BY <3>2, <3>3
  <2>9. \A j \in 1..(N + 1) : new(turned[j].title) # {}
    BY <1>3, <2>2, <2>3, <2>4, <2>5, <2>6
  <2>10. \A i \in 1..n : source[docs[i]] # NoSource =>
           \E j \in 1..(N + 1) : turned[j].title = source[docs[i]]
    BY <1>0, <1>3, <2>2, <2>3, <2>4 DEF d
  <2>11. QED
    BY <2>3, <2>7, <2>8, <2>9, <2>10
<1>8. QED
  BY <1>5, <1>6, <1>7

\* What the grouping loop computes, for any documents.
LEMMA SectionsGroup ==
  ASSUME NEW docs \in Seq(Doc)
  PROVE  Grouped(Sections(docs), docs, Len(docs))
<1> DEFINE N == Len(docs)
<1>1. N \in Nat
  OBVIOUS
<1>2. PICK f : Turns(f, docs, N) /\ Sections(docs) = f[N]
  BY SectionsTurns
<1> DEFINE G == {n \in 0..N : Grouped(f[n], docs, n)}
<1>3. \A n \in 0..N : f[n] = IF n = 0 THEN <<>> ELSE Turn(f[n - 1], docs[n])
  BY <1>2 DEF Turns
<1>4. 0 \in G
  <2>1. 0 \in 0..N /\ f[0] = <<>> /\ 1..0 = {}
    BY <1>1, <1>3
  <2>2. <<>> \in Seq(Section) /\ DOMAIN <<>> = {}
    OBVIOUS
  <2>3. Grouped(<<>>, docs, 0)
    BY <2>1, <2>2 DEF Grouped
  <2>4. QED
    BY <2>1, <2>3
<1>5. ASSUME NEW n \in 1..N, n - 1 \in G PROVE n \in G
  <2>1. n \in 0..N /\ n # 0
    BY <1>1
  <2>2. f[n] = Turn(f[n - 1], docs[n])
    BY <1>3, <2>1
  <2>3. Grouped(f[n - 1], docs, n - 1)
    BY <1>5
  <2>4. Grouped(f[n], docs, n)
    BY <2>2, <2>3, TurnKeeps
  <2>5. QED
    BY <2>1, <2>4
<1>6. N \in G
  <2>1. N \in 0..N
    BY <1>1
  <2> HIDE DEF G, N
  <2>2. QED
    BY <1>1, <1>4, <1>5, <2>1, Induction
<1>7. QED
  BY <1>2, <1>6

\* The last update has shown the documents of the paginator.
Shown == sections = Sections(documents)

\* Steps on the main thread show what they leave in documents; others touch neither.
LEMMA ShownStep == Shown /\ [Next]_vars => Shown'
<1> SUFFICES ASSUME sections = Sections(documents), [Next]_vars
             PROVE  sections' = Sections(documents')
  BY DEF Shown
<1>1. CASE UNCHANGED paginator
  BY <1>1 DEF paginator
<1>2. CASE Snapshot
  BY <1>2 DEF Snapshot, Update
<1>3. ASSUME NEW i \in DOMAIN fetches, Fetched(i) PROVE sections' = Sections(documents')
  BY <1>3 DEF Fetched, Update
<1>4. CASE WillAppear
  BY <1>1, <1>4 DEF WillAppear
<1>5. QED
  BY <1>1, <1>2, <1>3, <1>4 DEF Next, Write, Push, Answer, ListenerFails, vars

\* The list on screen is what the paginator has: for any documents and sources there
\* is one section for each source, in the order of its first article, and it has all
\* articles of the source in the order of the documents.
THEOREM ShowsTheDocumentsHolds == Spec => []ShowsTheDocuments
<1>1. Init => Shown
  BY NoSections DEF Init, Shown
<1>2. IInv /\ Shown => ShowsTheDocuments
  <2> SUFFICES ASSUME IInv, sections = Sections(documents) PROVE ShowsTheDocuments
    BY DEF Shown
  <2> DEFINE N == Len(documents)
             places(j) == PlacesOf(documents, sections[j].title)
  <2>1. documents \in Seq(Doc) /\ DOMAIN documents = 1..N
    BY DEF IInv, Typed
  <2>2. Grouped(sections, documents, N)
    BY <2>1, SectionsGroup
  <2>3. \A t : PlacesOf(documents, t) = Upto(documents, N, t)
    BY <2>1 DEF PlacesOf, Upto
  <2>4. \A j \in DOMAIN sections : InOrder(sections[j].articles, documents, places(j))
    BY <2>2, <2>3 DEF Grouped
  <2>5. \A j, k \in DOMAIN sections : j < k => \E i \in places(j) : \A m \in places(k) : i < m
    <3> SUFFICES ASSUME NEW j \in DOMAIN sections, NEW k \in DOMAIN sections, j < k
                 PROVE  \E i \in places(j) : \A m \in places(k) : i < m
      OBVIOUS
    <3>1. PICK i \in Upto(documents, N, sections[j].title) :
            \A m \in Upto(documents, N, sections[k].title) : i < m
      BY <2>2 DEF Grouped
    <3>2. QED
      BY <2>3, <3>1
  <2>6. {sections[j].title : j \in DOMAIN sections}
          = {source[documents[i]] : i \in DOMAIN documents} \ {NoSource}
    <3>1. ASSUME NEW j \in DOMAIN sections
          PROVE  /\ sections[j].title # NoSource
                 /\ \E i \in DOMAIN documents : source[documents[i]] = sections[j].title
      <4>1. sections[j] \in Section
        BY <2>2 DEF Grouped
      <4>2. sections[j].title \in Source
        BY <4>1 DEF Section
      <4>3. Upto(documents, N, sections[j].title) # {}
        BY <2>2 DEF Grouped
      <4>4. QED
        BY <2>1, <4>2, <4>3, FeedAssumption DEF Upto
    <3>2. ASSUME NEW i \in DOMAIN documents, source[documents[i]] # NoSource
          PROVE  \E j \in DOMAIN sections : sections[j].title = source[documents[i]]
      BY <2>1, <2>2, <3>2 DEF Grouped
    <3>3. QED
      BY <3>1, <3>2
  <2>7. QED
    BY <2>4, <2>5, <2>6 DEF ShowsTheDocuments
<1>3. QED
  BY <1>1, <1>2, ShownStep, Invariant, PTL DEF Spec

\* Type correctness: in particular the sections that the grouping loop makes of any
\* documents have titles and articles.
THEOREM TypeCorrect == Spec => []TypeOK
<1> DEFINE Rest == /\ writes \in 0..MaxWrites /\ appears \in 0..MaxAppears
                   /\ listening \in BOOLEAN
                   /\ seen \in Doc \cup {NoDoc, Unset} /\ pushed \in Doc \cup {NoDoc, Unset}
                   /\ newest \in Doc \cup {NoDoc}
                   /\ fetches \in Seq(Fetch)
<1>1. Init => Rest
  <2> SUFFICES ASSUME Init PROVE Rest
    OBVIOUS
  <2>1. 0 \in 0..MaxWrites /\ 0 \in 0..MaxAppears
    BY FeedAssumption
  <2>2. [state |-> "asked"] \in Fetch
    BY DEF Fetch
  <2>3. QED
    BY <2>1, <2>2 DEF Init
<1>2. \A docs \in Seq(Doc) : First(docs) \in Doc \cup {NoDoc}
  BY DEF First
<1>3. IInv /\ Rest /\ [Next]_vars => Rest'
  <2> SUFFICES ASSUME IInv, Rest, [Next]_vars PROVE Rest'
    OBVIOUS
  <2>0. /\ feed \in Seq(Doc) /\ MaxWrites \in Nat /\ MaxAppears \in Nat
        /\ [state |-> "asked"] \in Fetch
    BY FeedAssumption DEF IInv, Typed, Fetch
  <2>1. ASSUME NEW d \in Doc, NEW i, Write(d, i) PROVE Rest'
    BY <2>0, <2>1 DEF Write, paginator
  <2>2. CASE Push
    BY <1>2, <2>0, <2>2 DEF Push, paginator
  <2>3. CASE ListenerFails
    BY <2>3 DEF ListenerFails, paginator
  <2>4. ASSUME NEW i \in DOMAIN fetches, Answer(i) PROVE Rest'
    <3> DEFINE page == SubSeq(feed, 1, Min({docsPerPage + 1, Len(feed)}))
    <3>1. page \in Seq(Doc)
      BY <2>0, PageFits
    <3> HIDE DEF page
    <3>2. [state |-> "answered", docs |-> page] \in Fetch /\ [state |-> "failed"] \in Fetch
      BY <3>1 DEF Fetch
    <3>3. \E f \in Fetch : fetches' = [fetches EXCEPT ![i] = f]
      BY <2>4, <3>2 DEF Answer, page
    <3>4. fetches' \in Seq(Fetch)
      BY <3>3
    <3>5. QED
      BY <2>4, <3>4 DEF Answer, server, paginator
  <2>5. ASSUME NEW top \in Doc \cup {NoDoc}, NEW docs, NEW loading, NEW more, NEW err,
               NEW rest \in Seq(Fetch), Update(top, docs, loading, more, err, rest)
        PROVE  newest' \in Doc \cup {NoDoc} /\ fetches' \in Seq(Fetch)
    <3>1. newest' = top /\ (fetches' = rest \/ fetches' = Append(rest, [state |-> "asked"]))
      BY <2>5 DEF Update, Refresh, Asked, Asks
    <3>2. Append(rest, [state |-> "asked"]) \in Seq(Fetch)
      BY <2>0
    <3>3. QED
      BY <3>1, <3>2
  <2>6. CASE Snapshot
    <3>1. pushed \in Doc \cup {NoDoc}
      BY <2>6 DEF Snapshot
    <3>2. newest' \in Doc \cup {NoDoc} /\ fetches' \in Seq(Fetch)
      BY <2>5, <2>6, <3>1 DEF Snapshot
    <3>3. QED
      BY <2>6, <3>2 DEF Snapshot
  <2>7. ASSUME NEW i \in DOMAIN fetches, Fetched(i) PROVE Rest'
    <3>1. RemoveAt(fetches, i) = <<>> /\ RemoveAt(fetches, i) \in Seq(Fetch)
      <4>1. RemoveAt(fetches, i) = <<>>
        BY OnlyOne
      <4>2. <<>> \in Seq(Fetch)
        OBVIOUS
      <4>3. QED
        BY <4>1, <4>2
    <3>2. newest' \in Doc \cup {NoDoc} /\ fetches' \in Seq(Fetch)
      BY <2>5, <2>7, <3>1 DEF Fetched
    <3>3. QED
      BY <2>7, <3>2 DEF Fetched, server
  <2>8. CASE WillAppear
    <3>1. fetches' \in Seq(Fetch) /\ newest' = newest
      BY <2>0, <2>8 DEF WillAppear, Refresh, Asked, Asks, paginator
    <3>2. appears' \in 0..MaxAppears
      BY <2>0, <2>8 DEF WillAppear
    <3>3. QED
      BY <2>8, <3>1, <3>2 DEF WillAppear, server
  <2>9. CASE UNCHANGED vars
    BY <2>9 DEF vars, server, paginator
  <2>10. QED
    BY <2>1, <2>2, <2>3, <2>4, <2>6, <2>7, <2>8, <2>9 DEF Next
<1>4. IInv /\ Rest /\ Shown => TypeOK
  <2> SUFFICES ASSUME IInv, Rest, Shown PROVE TypeOK
    OBVIOUS
  <2>1. documents \in Seq(Doc)
    BY DEF IInv, Typed
  <2>2. sections \in Seq(Section)
    BY <2>1, SectionsGroup DEF Shown, Grouped
  <2>3. QED
    BY <2>2 DEF IInv, Typed, TypeOK
<1>5. Init => Shown
  BY NoSections DEF Init, Shown
<1> HIDE DEF Rest
<1>6. QED
  BY <1>1, <1>3, <1>4, <1>5, ShownStep, Invariant, PTL DEF Spec
=============================================================================
