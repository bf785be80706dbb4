------------------------ MODULE SectionSwipe_proofs ------------------------
(***************************************************************************)
(* A swipe turns one page at most from where the list was when it began,   *)
(* and ends on an article, and cells are pressed only as they should be,   *)
(* for sections of any length and any number of touches and reloads.       *)
(***************************************************************************)
EXTENDS SectionSwipe, TLAPS

\* The page that the list can show last: the index of the last article, or 0.
Last(n) == greatest(0, n - 1)

\* Unless articles were removed, the list is within the section, and a drag began at
\* most one page behind its end.
Within ==
  ~shrunk => /\ offset \in Reach(count)
             /\ finger = "drag" => startPage - 1 <= Last(count)

\* A drag has remembered the page where it began, which is that of this section unless
\* another one has replaced it.
Remembered ==
  finger = "drag" => startPage \in Pages /\ (~replaced => startPage = PageAt(origin))

\* Each tap belongs to a touch that has ended, and each reset to a tap.
Counts ==
  /\ resets <= taps
  /\ taps <= touches
  /\ finger = "cell" => taps < touches

IInv == TypeOK /\ Within /\ Remembered /\ Counts /\ OnePagePerSwipe /\ PressedIsTouched

\* Rounding half pages to pages.
LEMMA PageAtBounds ==
  ASSUME NEW x \in Int, NEW n \in Nat
  PROVE  /\ PageAt(x) \in Int
         /\ x >= -1 => PageAt(x) >= -1
         /\ x <= 2 * n - 1 => PageAt(x) <= n
  BY DEF PageAt

\* The page is the one nearest to the offset.
LEMMA PageAtNearest ==
  ASSUME NEW x \in Int PROVE 2 * PageAt(x) \in (x - 1)..(x + 1)
  BY DEF PageAt

\* Offsets of a section are offsets of a longer one.
LEMMA ReachGrows ==
  ASSUME NEW m \in Nat, NEW n \in Nat, m <= n
  PROVE  /\ Reach(m) \subseteq Reach(n)
         /\ 0 \in Reach(n)
         /\ Last(m) <= Last(n)
         /\ \A x \in Reach(n) : x \in Int /\ x >= -1 /\ x <= 2 * Last(n) + 1
         /\ \A x \in Int : x >= -1 /\ x <= 2 * Last(n) + 1 => x \in Reach(n)
  BY DEF Reach, Last, greatest

\* The page chosen at the end of a drag.
LEMMA ChosenPageBounds ==
  ASSUME IInv, finger = "drag", NEW velocity \in -1..1
  PROVE  /\ ~replaced => 2 * ChosenPage(velocity) \in (origin - 3)..(origin + 3)
         /\ ChosenPage(velocity) \in 0..MaxArticles
         /\ ~shrunk => ChosenPage(velocity) \in 0..Last(count)
<1>1. startPage \in Int /\ startPage >= -1 /\ startPage <= MaxArticles
  BY SwipeAssumption DEF IInv, Remembered, Pages
<1>2. offset \in Int /\ count \in Nat /\ count <= MaxArticles
  BY SwipeAssumption, ReachGrows DEF IInv, TypeOK, Offsets
<1>3. PageAt(offset) + velocity \in Int
  BY <1>2, PageAtBounds
<1>4. ~shrunk => startPage - 1 <= Last(count)
  BY DEF IInv, Within
<1>5. /\ ChosenPage(velocity) \in {startPage - 1, startPage, startPage + 1}
      /\ ChosenPage(velocity) \in 0..MaxArticles
      /\ ~shrunk => ChosenPage(velocity) \in 0..Last(count)
  BY <1>1, <1>2, <1>3, <1>4, SwipeAssumption DEF ChosenPage, greatest, least, Last
<1>6. origin \in Int
  BY SwipeAssumption, ReachGrows DEF IInv, TypeOK, Offsets
<1>7. ~replaced => 2 * startPage \in (origin - 1)..(origin + 1)
  BY <1>6, PageAtNearest DEF IInv, Remembered
<1>8. ~replaced => 2 * ChosenPage(velocity) \in (origin - 3)..(origin + 3)
  BY <1>1, <1>5, <1>6, <1>7
<1> QED BY <1>5, <1>8

\* At first the list shows its first page and nothing is pressed.
LEMMA InitIInv == Init => IInv
<1> SUFFICES ASSUME Init PROVE IInv
  OBVIOUS
<1>1. count \in Nat /\ count <= MaxArticles
  BY SwipeAssumption DEF Init
<1>2. offset \in Reach(count) /\ offset \in Offsets /\ origin \in Offsets
  BY <1>1, ReachGrows, SwipeAssumption DEF Init, Offsets
<1>3. count \in 0..MaxArticles /\ resets \in 0..MaxTouches /\ taps \in 0..MaxTouches
      /\ touches \in 0..MaxTouches /\ reloads \in 0..MaxReloads
  BY SwipeAssumption DEF Init
<1>4. TypeOK
  BY <1>2, <1>3 DEF Init, TypeOK
<1>5. Within /\ Remembered
  BY <1>2 DEF Init, Within, Remembered
<1>6. Counts
  BY DEF Init, Counts
<1>7. OnePagePerSwipe /\ PressedIsTouched
  BY DEF Init, OnePagePerSwipe, PressedIsTouched
<1> QED BY <1>4, <1>5, <1>6, <1>7 DEF IInv

\* Touches of a cell leave the list alone.
LEMMA TouchStep ==
  ASSUME IInv, TouchesBegan \/ TouchesMoved \/ TouchesEnded \/ TouchesCancelled \/ DelayedReset
  PROVE  IInv'
<1> USE DEF IInv, section, history, paging, cell
<1>1. (UNCHANGED <<section, paging>> /\ finger' # "drag") \/ UNCHANGED <<section, paging, finger>>
  BY DEF TouchesBegan, TouchesMoved, TouchesEnded, TouchesCancelled, DelayedReset
<1>2. resets \in Nat /\ taps \in Nat /\ touches \in Nat /\ touches <= MaxTouches
  BY SwipeAssumption DEF TypeOK
<1>3. Counts' /\ resets' \in Nat /\ taps' \in Nat /\ touches' \in Nat /\ touches' <= MaxTouches
  BY <1>2, SwipeAssumption
     DEF Counts, TouchesBegan, TouchesMoved, TouchesEnded, TouchesCancelled, DelayedReset
<1>4. resets' \in 0..MaxTouches /\ taps' \in 0..MaxTouches /\ touches' \in 0..MaxTouches
  BY <1>3, SwipeAssumption DEF Counts
<1>5. finger' \in {"up", "cell", "drag"} /\ moved' \in BOOLEAN /\ pressed' \in BOOLEAN
  BY DEF TypeOK, TouchesBegan, TouchesMoved, TouchesEnded, TouchesCancelled, DelayedReset
<1>6. TypeOK'
  BY <1>1, <1>4, <1>5 DEF TypeOK
<1>7. Within' /\ Remembered' /\ OnePagePerSwipe'
  BY <1>1 DEF Within, Remembered, OnePagePerSwipe
<1>8. PressedIsTouched'
  <2>1. CASE TouchesEnded
    <3>1. pressed => resets' > 0
      BY <1>2, <2>1 DEF TouchesEnded
    <3> QED BY <2>1, <3>1 DEF PressedIsTouched, TouchesEnded
  <2>2. CASE TouchesBegan \/ TouchesMoved \/ TouchesCancelled \/ DelayedReset
    BY <2>2 DEF PressedIsTouched, TouchesBegan, TouchesMoved, TouchesCancelled, DelayedReset
  <2> QED BY <2>1, <2>2
<1> QED BY <1>3, <1>6, <1>7, <1>8

\* The scroll view takes over a touch.
LEMMA BeginStep == ASSUME IInv, WillBeginDragging PROVE IInv'
<1> USE DEF IInv, section, history, paging, cell
<1>1. offset \in Int /\ offset >= -1 /\ offset <= 2 * MaxArticles - 1 /\ count \in Nat
  BY ReachGrows, SwipeAssumption DEF TypeOK, Offsets, Last, greatest
<1>2. startPage' \in Pages /\ target' = NoPage
  BY <1>1, PageAtBounds, SwipeAssumption DEF WillBeginDragging, Pages
<1>3. ~shrunk' => offset \in Reach(count)
  BY DEF WillBeginDragging, Within
<1>4. ~shrunk' => startPage' - 1 <= Last(count)
  <2> SUFFICES ASSUME offset \in Reach(count) PROVE PageAt(offset) - 1 <= Last(count)
    BY <1>3 DEF WillBeginDragging
  <2>1. offset <= 2 * (Last(count) + 1) - 1 /\ Last(count) \in Nat
    BY <1>1, ReachGrows DEF Last, greatest
  <2> QED BY <1>1, <2>1, PageAtBounds
<1>5. TypeOK'
  BY <1>2 DEF WillBeginDragging, TypeOK
<1>6. Within' /\ Remembered'
  BY <1>2, <1>3, <1>4 DEF WillBeginDragging, Within, Remembered
<1>7. Counts' /\ OnePagePerSwipe' /\ PressedIsTouched'
  BY <1>2 DEF WillBeginDragging, Counts, OnePagePerSwipe, PressedIsTouched
<1> QED BY <1>5, <1>6, <1>7

\* A drag ends on the chosen page.
LEMMA EndStep == ASSUME IInv, NEW velocity \in -1..1, WillEndDragging(velocity) PROVE IInv'
<1> USE DEF IInv, section, history, paging, cell
<1>1. finger = "drag" /\ target' = ChosenPage(velocity)
  BY DEF WillEndDragging
<1>2. target' \in Pages /\ OnePagePerSwipe'
  BY <1>1, ChosenPageBounds, SwipeAssumption DEF WillEndDragging, OnePagePerSwipe, Pages, Last
<1>3. TypeOK'
  BY <1>2 DEF WillEndDragging, TypeOK
<1>4. Within' /\ Remembered' /\ Counts' /\ PressedIsTouched'
  BY <1>1 DEF WillEndDragging, Within, Remembered, Counts, PressedIsTouched
<1> QED BY <1>2, <1>3, <1>4

\* The list moves with the finger or to its target.
LEMMA ScrollStep == ASSUME IInv, Scroll PROVE IInv'
<1> USE DEF IInv, section, history, paging, cell
<1>1. offset' \in Offsets /\ offset \in Int /\ count \in Nat
  BY ReachGrows, SwipeAssumption DEF Scroll, TypeOK, Offsets
<1>2. offset' \in Int /\ offset' >= -1
  BY <1>1, ReachGrows, SwipeAssumption DEF Offsets
<1>3. ASSUME ~shrunk PROVE offset' \in Reach(count)
  <2>1. offset \in Reach(count) /\ offset <= 2 * Last(count) + 1 /\ Last(count) \in Nat
    BY <1>1, <1>3, ReachGrows DEF Within, Last, greatest
  <2>2. CASE finger = "drag"
    BY <1>1, <1>2, <2>1, <2>2, ReachGrows DEF Scroll
  <2>3. CASE finger # "drag"
    <3>1. target \in 0..Last(count)
      BY <1>3, <2>3 DEF Scroll, OnePagePerSwipe, Last
    <3>2. offset' <= 2 * Last(count) + 1
      BY <1>1, <2>1, <2>3, <3>1 DEF Scroll
    <3> QED BY <1>1, <1>2, <3>2, ReachGrows
  <2> QED BY <2>2, <2>3
<1>4. TypeOK'
  BY <1>1 DEF Scroll, TypeOK
<1>5. Within'
  BY <1>3 DEF Scroll, Within
<1>6. Remembered' /\ Counts' /\ OnePagePerSwipe' /\ PressedIsTouched'
  BY DEF Scroll, Remembered, Counts, OnePagePerSwipe, PressedIsTouched
<1> QED BY <1>4, <1>5, <1>6

\* The cell is given another section.
LEMMA SectionStep ==
  ASSUME IInv, NEW t \in Title, NEW n \in 0..MaxArticles, SetSection(t, n) PROVE IInv'
<1> USE DEF IInv, section, history, paging, cell
<1>1. count \in Nat /\ n \in Nat /\ 0 \in Reach(n) /\ 0 \in Offsets
  BY ReachGrows, SwipeAssumption DEF TypeOK, Offsets
<1>2. reloads' \in 0..MaxReloads
  BY SwipeAssumption DEF SetSection, TypeOK
<1>3. /\ shrunk' \in BOOLEAN /\ (~shrunk' => ~shrunk /\ ~(n < count))
      /\ replaced' \in BOOLEAN /\ (~replaced' => ~replaced)
  BY Zenon DEF SetSection, TypeOK
<1>4. ~shrunk' => Reach(count) \subseteq Reach(n) /\ Last(count) <= Last(n)
  <2> SUFFICES ASSUME ~(n < count) PROVE Reach(count) \subseteq Reach(n) /\ Last(count) <= Last(n)
    BY <1>3
  <2> QED BY <1>1, ReachGrows
<1>5. TypeOK'
  BY <1>1, <1>2, <1>3 DEF SetSection, TypeOK
<1>6. Last(count) \in Int /\ Last(n) \in Int
  BY <1>1 DEF Last, greatest
<1>7. Within'
  <2> SUFFICES ASSUME ~shrunk'
               PROVE  offset' \in Reach(n) /\ (finger = "drag" => startPage - 1 <= Last(n))
    BY DEF Within, SetSection
  <2>1. offset' \in Reach(n)
    BY <1>1, <1>3, <1>4 DEF SetSection, Within
  <2>2. ASSUME finger = "drag" PROVE startPage - 1 <= Last(n)
    <3>1. startPage \in Int /\ startPage - 1 <= Last(count) /\ Last(count) <= Last(n)
      BY <1>3, <1>4, <2>2, SwipeAssumption DEF Within, Remembered, Pages
    <3> QED BY <1>6, <3>1
  <2> QED BY <2>1, <2>2
<1>8. Remembered' /\ Counts' /\ PressedIsTouched'
  BY DEF SetSection, Remembered, Counts, PressedIsTouched
<1>9. OnePagePerSwipe'
  <2> SUFFICES ASSUME target' # NoPage
               PROVE  /\ ~replaced' => 2 * target' \in (origin - 3)..(origin + 3)
                      /\ ~shrunk' => target' \in 0..Last(n)
    BY DEF OnePagePerSwipe, SetSection, Last
  <2>1. target' = target
    BY DEF SetSection
  <2>2. ~shrunk' => target \in 0..Last(count)
    BY <1>3, <2>1 DEF OnePagePerSwipe, Last
  <2>3. ~shrunk' => target \in 0..Last(n)
    BY <1>4, <1>6, <2>2
  <2> QED BY <1>3, <2>1, <2>3 DEF OnePagePerSwipe
<1> QED BY <1>5, <1>7, <1>8, <1>9

\* The invariant holds in every reachable state.
LEMMA Invariant == Spec => []IInv
<1>1. IInv /\ [Next]_vars => IInv'
  <2> SUFFICES ASSUME IInv, [Next]_vars PROVE IInv'
    OBVIOUS
  <2>1. CASE UNCHANGED vars
    BY <2>1 DEF vars, section, history, paging, cell, IInv, TypeOK, Within, Remembered, Counts,
       OnePagePerSwipe, PressedIsTouched
  <2>2. ASSUME NEW velocity \in -1..1, WillEndDragging(velocity) PROVE IInv'
    BY <2>2, EndStep
  <2>3. ASSUME NEW t \in Title, NEW n \in 0..MaxArticles, SetSection(t, n) PROVE IInv'
    BY <2>3, SectionStep
  <2> QED BY <2>1, <2>2, <2>3, TouchStep, BeginStep, ScrollStep DEF Next
<1> QED BY InitIInv, <1>1, PTL DEF Spec
-----------------------------------------------------------------------------
\* The state of the section and its cell is well typed, with pages in range.
THEOREM TypeCorrect == Spec => []TypeOK
<1>1. IInv => TypeOK
  BY DEF IInv
<1> QED BY Invariant, <1>1, PTL

\* A swipe ends within one page of the page that was shown when it began, unless a
\* section of another title came meanwhile, and on an article, unless articles were
\* removed.
THEOREM OnePagePerSwipeHolds == Spec => []OnePagePerSwipe
<1>1. IInv => OnePagePerSwipe
  BY DEF IInv
<1> QED BY Invariant, <1>1, PTL

\* A pressed cell is under a finger that has not moved or will be reset.
THEOREM PressedIsTouchedHolds == Spec => []PressedIsTouched
<1>1. IInv => PressedIsTouched
  BY DEF IInv
<1> QED BY Invariant, <1>1, PTL
=============================================================================
