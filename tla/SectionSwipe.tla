---------------------------- MODULE SectionSwipe ----------------------------
(***************************************************************************)
(* The fingers on one section of the feed: SectionCell's paging, which lets*)
(* a swipe turn one page at most, and the touches of the article cell under*)
(* the finger (A1/A1/Article Browsing).  Meanwhile a refresh may give the  *)
(* SectionCell another section, and the delayed reset of _pressed may come *)
(* late.  Offsets are counted in half pages, since the code rounds them.   *)
(***************************************************************************)
EXTENDS Integers

CONSTANTS
  MaxArticles,   \* bound: articles of a section
  Title,         \* titles of sections
  MaxTouches,    \* bound: touches
  MaxReloads,    \* bound: sections that the cell is given after the first
  NoPage         \* _pageAtStartOfSwipe is nil

ASSUME SwipeAssumption ==
  /\ MaxArticles \in Nat \ {0}
  /\ MaxTouches \in Nat
  /\ MaxReloads \in Nat
  /\ NoPage \notin Int

VARIABLES
  title, count,   \* section: its title and the number of its articles
  offset,         \* contentOffset.x, in half pages
  startPage,      \* _pageAtStartOfSwipe
  target,         \* the page where the scroll view was told to stop, or NoPage
  finger,         \* "up", "cell" (the article cell has the touch) or "drag"
  moved,          \* history: this touch has moved away from where it began
  pressed,        \* _pressed
  resets,         \* delayed resets of _pressed that have not run
  taps,           \* how often onTap was called
  touches, reloads,
  origin,         \* history: the offset when the last drag began
  replaced,       \* history: a section of another title has come since then
  shrunk          \* history: articles were removed since a drag began within the section

section == <<title, count, reloads>>
history == <<origin, replaced, shrunk>>
paging == <<offset, startPage, target, history>>
cell == <<pressed, resets, taps>>
vars == <<section, paging, cell, finger, moved, touches>>

\* The scroll view bounces by half a page.
Reach(n) == -1..(2 * (IF n = 0 THEN 0 ELSE n - 1) + 1)
Offsets == Reach(MaxArticles)
Pages == -1..MaxArticles

TypeOK ==
  /\ title \in Title /\ count \in 0..MaxArticles
  /\ offset \in Offsets /\ origin \in Offsets
  /\ startPage \in Pages \cup {NoPage}
  /\ target \in Pages \cup {NoPage}
  /\ finger \in {"up", "cell", "drag"}
  /\ moved \in BOOLEAN /\ pressed \in BOOLEAN
  /\ shrunk \in BOOLEAN /\ replaced \in BOOLEAN
  /\ resets \in 0..MaxTouches /\ taps \in 0..MaxTouches
  /\ touches \in 0..MaxTouches /\ reloads \in 0..MaxReloads

Init ==
  /\ title \in Title /\ count \in 1..MaxArticles
  /\ offset = 0
  /\ startPage = NoPage
  /\ target = NoPage
  /\ finger = "up"
  /\ moved = FALSE
  /\ pressed = FALSE
  /\ resets = 0
  /\ taps = 0
  /\ touches = 0 /\ reloads = 0
  /\ origin = 0 /\ replaced = FALSE /\ shrunk = FALSE

least(a, b) == IF a < b THEN a ELSE b
greatest(a, b) == IF a < b THEN b ELSE a
-----------------------------------------------------------------------------
(* Touches of a BigImageArticleCell.                                       *)

TouchesBegan ==
  /\ finger = "up"
  /\ touches < MaxTouches
  /\ touches' = touches + 1
  /\ finger' = "cell"
  /\ moved' = FALSE
  /\ pressed' = TRUE
  /\ UNCHANGED <<section, paging, resets, taps>>

\* By more than 4 points.
TouchesMoved ==
  /\ finger = "cell"
  /\ moved' = TRUE
  /\ pressed' = FALSE
  /\ UNCHANGED <<section, paging, resets, taps, finger, touches>>

TouchesEnded ==
  /\ finger = "cell"
  /\ finger' = "up"
  /\ \/ /\ pressed
        /\ taps' = taps + 1
        /\ resets' = resets + 1
     \/ /\ ~pressed
        /\ UNCHANGED <<taps, resets>>
  /\ UNCHANGED <<section, paging, pressed, moved, touches>>

\* Mutant of TouchesCancelled: the cell stays pressed.
TouchesCancelledPressed ==
  /\ finger = "cell"
  /\ finger' = "up"
  /\ UNCHANGED <<section, paging, cell, moved, touches>>

TouchesCancelled ==
  /\ finger = "cell"
  /\ finger' = "up"
  /\ pressed' = FALSE
  /\ UNCHANGED <<section, paging, resets, taps, moved, touches>>

\* The block of asyncAfter, which may come during another touch.
DelayedReset ==
  /\ resets > 0
  /\ resets' = resets - 1
  /\ pressed' = FALSE
  /\ UNCHANGED <<section, paging, taps, finger, moved, touches>>
-----------------------------------------------------------------------------
(* Paging of a SectionCell.                                                *)

\* Int(round(offset / pageLength)): halves are rounded away from zero.
PageAt(x) == IF x >= 0 THEN (x + 1) \div 2 ELSE -((1 - x) \div 2)

\* Mutant of WillBeginDragging: _pageAtStartOfSwipe is set once and kept.
BeginDraggingOnce ==
  /\ finger = "cell"
  /\ finger' = "drag"
  /\ moved' = TRUE
  /\ pressed' = FALSE
  /\ startPage' = IF startPage = NoPage THEN PageAt(offset) ELSE startPage
  /\ target' = NoPage
  /\ origin' = offset /\ replaced' = FALSE
  /\ shrunk' = (shrunk /\ offset \notin Reach(count))
  /\ UNCHANGED <<section, offset, resets, taps, touches>>

\* The scroll view takes a touch over from the cell.
WillBeginDragging ==
  /\ finger = "cell"
  /\ finger' = "drag"
  /\ moved' = TRUE
  /\ pressed' = FALSE
  /\ startPage' = PageAt(offset)
  /\ target' = NoPage
  /\ origin' = offset /\ replaced' = FALSE
  /\ shrunk' = (shrunk /\ offset \notin Reach(count))
  /\ UNCHANGED <<section, offset, resets, taps, touches>>

\* The page that scrollViewWillEndDragging chooses.
ChosenPage(velocity) ==
  LET minPage == greatest(0, startPage - 1)
      maxPage == least(greatest(0, count - 1), startPage + 1)
  IN  greatest(minPage, least(maxPage, PageAt(offset) + velocity))

\* velocity is the sign of velocity.x.
WillEndDragging(velocity) ==
  /\ finger = "drag"
  /\ finger' = "up"
  /\ target' = ChosenPage(velocity)
  /\ UNCHANGED <<section, offset, startPage, history, cell, moved, touches>>

\* UIKit (external): the list follows the finger, or runs to its target.
Scroll ==
  /\ \/ /\ finger = "drag"
        /\ offset' \in {offset - 1, offset + 1} \cap Offsets
        /\ offset' \in Reach(count) \/ offset' < offset
     \/ /\ finger # "drag" /\ target # NoPage /\ offset # 2 * target
        /\ offset' = IF offset < 2 * target THEN offset + 1 ELSE offset - 1
        /\ offset' \in Offsets
  /\ UNCHANGED <<section, startPage, target, history, cell, finger, moved, touches>>

\* The observers of section: another title starts at the first page, which also
\* ends a scroll.  A finger that drags goes on dragging, and _pageAtStartOfSwipe is
\* still that of the section before.
SetSection(t, n) ==
  /\ reloads < MaxReloads
  /\ reloads' = reloads + 1
  /\ title' = t /\ count' = n
  /\ IF t # title THEN offset' = 0 /\ target' = NoPage ELSE UNCHANGED <<offset, target>>
  /\ replaced' = (replaced \/ t # title)
  /\ shrunk' = (shrunk \/ n < count)
  /\ UNCHANGED <<startPage, origin, cell, finger, moved, touches>>
-----------------------------------------------------------------------------
Next ==
  \/ TouchesBegan \/ TouchesMoved \/ TouchesEnded \/ TouchesCancelled \/ DelayedReset
  \/ WillBeginDragging \/ Scroll
  \/ \E velocity \in -1..1 : WillEndDragging(velocity)
  \/ \E t \in Title, n \in 0..MaxArticles : SetSection(t, n)

Spec == Init /\ [][Next]_vars

\* Fingers are lifted, delayed blocks run and scrolling goes on.
Fairness ==
  /\ WF_vars(DelayedReset)
  /\ WF_vars(finger # "drag" /\ Scroll)
  /\ WF_vars(TouchesEnded \/ TouchesCancelled \/ \E v \in -1..1 : WillEndDragging(v))

FairSpec == Spec /\ Fairness
-----------------------------------------------------------------------------
(* Properties.                                                             *)

\* A swipe turns one page at most: it ends within a page of the one nearest to where
\* the list was when it began (one page and a half, then), also when a touch stopped a
\* list in flight or the section grew or shrank under the finger.  Only a section of
\* another title that comes during the drag is excepted: the list jumps to its start
\* while the limits are those of the old one, and the swipe may end pages away.  And the
\* page where it ends has an article (or is the first of an empty section), unless
\* articles were removed since.
OnePagePerSwipe ==
  target # NoPage =>
    /\ ~replaced => 2 * target \in (origin - 3)..(origin + 3)
    /\ ~shrunk => target \in 0..greatest(0, count - 1)

\* A pressed cell is under a finger that has not moved, and then a tap may follow, or
\* its reset is on its way: no swipe opens an article and no cell stays pressed,
\* whenever the delayed resets of former touches run.
PressedIsTouched ==
  pressed => \/ finger = "cell" /\ ~moved
             \/ finger = "up" /\ resets > 0

\* In the end the list rests on a whole page and no cell looks pressed.
ComesToRest == <>[](finger = "up" /\ ~pressed /\ (target # NoPage => offset = 2 * target))
=============================================================================
