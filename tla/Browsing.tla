------------------------------ MODULE Browsing ------------------------------
(***************************************************************************)
(* The clients of the shared request manager, composed with it: an article *)
(* cell that is reused for one article after another and shows the image   *)
(* that its LoadableDisposer loads (BigImageArticleCell), the preload of   *)
(* an article that is about to be displayed (SectionCell), the preloads of *)
(* all sections (SectionedArticleView), and the article view, whose HTML   *)
(* comes through a disposer as well.  load() and cancel() are calls of the *)
(* main thread and of PreloadingHelpers.queue that interleave; an answer   *)
(* takes the way over two more queues before the cell sees it.             *)
(***************************************************************************)
EXTENDS RequestManager

CONSTANTS
  Article,
  canonical,     \* [Article -> canonical_url]; all that have none have the same, nil
  image,         \* [Article -> Key \cup {NoImage}]: lead_image_url
  look,          \* [Key -> {"dark", "bright", "small"}]: what the image is like
  CellLoad,      \* the loadables that the cell makes, in turn, for articles with an image
  SoonLoad,      \* those of preloadArticleForImminentDisplay
  ListLoad,      \* [Seq(Seq(Loadable))]: the lists of createFullContentPreloadables, in turn
  HtmlLoad,      \* the loadable of the article view
  Shows,         \* [Seq(Article)]: the articles that the cell is used for, in turn
  NoArticle,
  NoImage,
  NoLoadable

Elements(s) == {s[i] : i \in DOMAIN s}
Distinct(s) == \A i, j \in DOMAIN s : s[i] = s[j] => i = j
Listed == UNION {Elements(ListLoad[n]) : n \in DOMAIN ListLoad}

\* Every view makes objects of its own, new ones each time; the cell and the preload
\* before its display make one only for an article with an image.
ASSUME BrowsingAssumption ==
  /\ image \in [Article -> Key \cup {NoImage}] /\ NoImage \notin Key
  /\ Shows \in Seq(Article) /\ NoArticle \notin Article
  /\ DOMAIN CellLoad = DOMAIN Shows /\ DOMAIN SoonLoad = DOMAIN Shows
  /\ \A n \in DOMAIN Shows : /\ CellLoad[n] \in Loadable <=> image[Shows[n]] # NoImage
                             /\ SoonLoad[n] \in Loadable <=> image[Shows[n]] # NoImage
  /\ ListLoad \in Seq(Seq(Loadable)) /\ HtmlLoad \in Loadable /\ NoLoadable \notin Loadable
  /\ Distinct(CellLoad) /\ Distinct(SoonLoad) /\ \A n \in DOMAIN ListLoad : Distinct(ListLoad[n])
  /\ \A m, n \in DOMAIN ListLoad : m # n => Elements(ListLoad[m]) \cap Elements(ListLoad[n]) = {}
  /\ Elements(CellLoad) \cap Elements(SoonLoad) = {}
  /\ (Elements(CellLoad) \cup Elements(SoonLoad)) \cap (Listed \cup {HtmlLoad}) = {}
  /\ HtmlLoad \notin Listed

VARIABLES
  shown,         \* how often the cell was given a model
  model,         \* the article of the model
  loader,        \* imageLoader.loadable
  picture,       \* the image on screen, with the article of the label and its color
  applied,       \* the loadables whose answer has reached the cell
  lists,         \* how often the sections were set
  opened,        \* "no", "open" or "closed": the article view
  mainCalls,     \* the calls that the block on the main thread has still to make
  queueCalls     \* the same for PreloadingHelpers.queue

cellVars == <<shown, model, loader, picture, applied>>
clientVars == <<cellVars, lists, opened, mainCalls, queueCalls>>
browsingVars == <<vars, clientVars>>

Call == [op : {"load", "cancel"}, l : Loadable]
LoadOf(l) == [op |-> "load", l |-> l]
CancelOf(l) == [op |-> "cancel", l |-> l]
Calls(op, ls) == [i \in DOMAIN ls |-> [op |-> op, l |-> ls[i]]]

\* The label's article, whether its text is light, and the image.
Picture == [label : Article \cup {NoArticle}, light : BOOLEAN, image : Key \cup {NoImage}]
Blank(a) == [label |-> a, light |-> FALSE, image |-> NoImage]

BrowsingTypeOK ==
  /\ TypeOK
  /\ shown \in 0..Len(Shows)
  /\ model \in Article \cup {NoArticle}
  /\ loader \in Loadable \cup {NoLoadable}
  /\ picture \in Picture
  /\ applied \subseteq Loadable
  /\ lists \in 0..Len(ListLoad)
  /\ opened \in {"no", "open", "closed"}
  /\ mainCalls \in Seq(Call) /\ queueCalls \in Seq(Call)

BrowsingInit ==
  /\ Init
  /\ shown = 0
  /\ model = NoArticle
  /\ loader = NoLoadable
  /\ picture = Blank(NoArticle)
  /\ applied = {}
  /\ lists = 0
  /\ opened = "no"
  /\ mainCalls = <<>>
  /\ queueCalls = <<>>
-----------------------------------------------------------------------------
(* Calls into the request manager.                                         *)

Make(calls) ==
  /\ calls # <<>>
  /\ IF Head(calls).op = "load" THEN Load(Head(calls).l) ELSE Cancel(Head(calls).l)

MainCall ==
  /\ Make(mainCalls)
  /\ mainCalls' = Tail(mainCalls)
  /\ UNCHANGED <<cellVars, lists, opened, queueCalls>>

QueueCall ==
  /\ Make(queueCalls)
  /\ queueCalls' = Tail(queueCalls)
  /\ UNCHANGED <<cellVars, lists, opened, mainCalls>>

\* The observer of LoadableDisposer.loadable loads the new one in the shared manager,
\* whatever manager it was made for, and then cancels the old one.  The mutant
\* cancels the new one.
DisposeNew(old, new) ==
  <<LoadOf(new)>> \o (IF old = NoLoadable THEN <<>> ELSE <<CancelOf(new)>>)
Dispose(old, new) ==
  <<LoadOf(new)>> \o (IF old = NoLoadable THEN <<>> ELSE <<CancelOf(old)>>)
-----------------------------------------------------------------------------
(* The cell.                                                               *)

\* preloadArticleForImminentDisplay, which nobody can cancel.  (The HTML is preloaded
\* in the other manager, sharedForArticleHTML.)
PreloadSoon(n) == IF image[Shows[n]] = NoImage THEN <<>> ELSE <<LoadOf(SoonLoad[n])>>

\* The observer of model.  An article without an image leaves the loader of the
\* last one alone.
SetModel(n, calls) ==
  /\ model' = Shows[n]
  /\ picture' = Blank(Shows[n])
  /\ \/ /\ image[Shows[n]] = NoImage
        /\ mainCalls' = calls
        /\ UNCHANGED loader
     \/ /\ image[Shows[n]] # NoImage
        /\ loader' = CellLoad[n]
        /\ mainCalls' = calls \o Dispose(loader, CellLoad[n])

\* cellForItemAt for the next article of the cell.
ShowArticle ==
  /\ mainCalls = <<>>
  /\ shown + 1 \in DOMAIN Shows
  /\ shown' = shown + 1
  /\ SetModel(shown + 1, PreloadSoon(shown + 1))
  /\ UNCHANGED <<vars, applied, lists, opened, queueCalls>>

\* The article for whose model l was made.
ArticleOf(l) == Shows[CHOOSE n \in DOMAIN Shows : CellLoad[n] = l]

\* The text is light on a dark image; one of less than 200 points is not used.  The
\* mutant takes whatever was answered.
PictureRaw(a, result) == [label |-> a, light |-> FALSE, image |-> result]
PictureOf(a, result) ==
  IF result = "ok" /\ look[image[a]] # "small"
  THEN [label |-> a, light |-> look[image[a]] = "dark", image |-> image[a]]
  ELSE Blank(a)

\* Mutant of Apply: it does not look whether the cell has another article now.
ApplyLate(l) ==
  /\ mainCalls = <<>>
  /\ \E n \in DOMAIN CellLoad : CellLoad[n] = l
  /\ called[l] # "no" /\ l \notin applied
  /\ applied' = applied \cup {l}
  /\ picture' = PictureOf(ArticleOf(l), called[l])
  /\ UNCHANGED <<vars, shown, model, loader, lists, opened, mainCalls, queueCalls>>

\* The completion of l, which has gone from the main queue to a global queue and
\* back: answers of different loadables may have overtaken each other.
Apply(l) ==
  /\ mainCalls = <<>>
  /\ \E n \in DOMAIN CellLoad : CellLoad[n] = l
  /\ called[l] # "no" /\ l \notin applied
  /\ applied' = applied \cup {l}
  /\ picture' = IF canonical[model] = canonical[ArticleOf(l)]
                THEN PictureOf(ArticleOf(l), called[l]) ELSE picture
  /\ UNCHANGED <<vars, shown, model, loader, lists, opened, mainCalls, queueCalls>>
-----------------------------------------------------------------------------
(* Preloads and the article view.                                          *)

\* createFullContentPreloadables of the n-th sections, none before the first.
Preloadables(n) == IF n = 0 THEN <<>> ELSE ListLoad[n]

\* Mutant of SetSections: the old preloads are not cancelled.
SetSectionsKeep ==
  /\ queueCalls = <<>>
  /\ lists + 1 \in DOMAIN ListLoad
  /\ lists' = lists + 1
  /\ queueCalls' = Calls("load", Preloadables(lists + 1))
  /\ UNCHANGED <<vars, cellVars, opened, mainCalls>>

\* The block on PreloadingHelpers.queue that sections posts, with the observer of
\* _preloadables: the new ones are loaded, then the old ones are cancelled.
SetSections ==
  /\ queueCalls = <<>>
  /\ lists + 1 \in DOMAIN ListLoad
  /\ lists' = lists + 1
  /\ queueCalls' = Calls("load", Preloadables(lists + 1)) \o Calls("cancel", Preloadables(lists))
  /\ UNCHANGED <<vars, cellVars, opened, mainCalls>>

\* viewDidLoad of the article view.
Open ==
  /\ mainCalls = <<>>
  /\ opened = "no"
  /\ opened' = "open"
  /\ mainCalls' = Dispose(NoLoadable, HtmlLoad)
  /\ UNCHANGED <<vars, cellVars, lists, queueCalls>>

\* The article view is gone, and with it its disposer.
Close ==
  /\ mainCalls = <<>>
  /\ opened = "open"
  /\ opened' = "closed"
  /\ mainCalls' = <<CancelOf(HtmlLoad)>>
  /\ UNCHANGED <<vars, cellVars, lists, queueCalls>>
-----------------------------------------------------------------------------
\* The request manager goes on.  Its cache loses nothing here.
Manager ==
  /\ \E l \in Loadable : \/ \E result \in Result : LoadFinished(l, result)
                         \/ RunLoad(l) \/ RunCancel(l) \/ RunDone(l) \/ Schedule(l)
  /\ UNCHANGED clientVars

BrowsingNext ==
  \/ MainCall \/ QueueCall \/ ShowArticle \/ SetSections \/ Open \/ Close
  \/ \E l \in Loadable : Apply(l)
  \/ Manager

BrowsingSpec == BrowsingInit /\ [][BrowsingNext]_browsingVars

\* As for the request manager; the main thread and the preloading queue go on with
\* the block they run, and dispatched answers arrive.
BrowsingFairness ==
  /\ WF_browsingVars(MainCall) /\ WF_browsingVars(QueueCall)
  /\ WF_browsingVars(\E l \in Loadable : Apply(l))
  /\ WF_browsingVars(RunBlock /\ UNCHANGED clientVars)
  /\ WF_browsingVars((\E l \in Loadable : Schedule(l)) /\ UNCHANGED clientVars)
  /\ \A l \in Loadable :
       WF_browsingVars((\E result \in Result : LoadFinished(l, result)) /\ UNCHANGED clientVars)

BrowsingFairSpec == BrowsingSpec /\ BrowsingFairness
-----------------------------------------------------------------------------
(* Properties.                                                             *)

\* A reused cell never shows the title or the image of its former article, however
\* late the answers for that one arrive, and its text can be read on its image.
\* Articles are the same for the cell if their canonical_url is: among those without
\* one it may show the former for the latter.
ShowsItsArticle ==
  model # NoArticle =>
    /\ canonical[picture.label] = canonical[model]
    /\ picture.image # NoImage => picture = PictureOf(picture.label, "ok")
    /\ picture.image = NoImage => ~picture.light

\* What some view still wants: the last loadable of the cell, the preloads of the
\* last sections and the HTML of an open article.
Wanted ==
  {loader} \cup Elements(Preloadables(lists))
           \cup (IF opened = "open" THEN {HtmlLoad} ELSE {})

Quiescent == queue = <<>> /\ mainCalls = <<>> /\ queueCalls = <<>>

\* What is wanted is waited for or has been answered, so no call of another client
\* or for an older article cancels it; and nothing but that, and the preloads that
\* nobody can cancel, is waited for.
PendingIsWanted ==
  Quiescent =>
    /\ \A l \in Wanted \ {NoLoadable} : l \in pending \/ called[l] # "no"
    /\ pending \subseteq Wanted \cup Elements(SoonLoad)

\* In the end the last load of the cell is answered, and if it succeeded and was
\* the only one for the cell's article, its image is on screen.
ImageAppears ==
  <>[](loader # NoLoadable =>
         /\ called[loader] # "no"
         /\ /\ called[loader] = "ok" /\ ArticleOf(loader) = model
            /\ \A n \in 1..(shown - 1) : canonical[Shows[n]] # canonical[model]
            => picture = PictureOf(model, "ok"))
=============================================================================
