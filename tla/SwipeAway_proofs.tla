-------------------------- MODULE SwipeAway_proofs --------------------------
(***************************************************************************)
(* The animator has what the flags of SwipeAwayViewController say, a       *)
(* dismissed article has left the screen, and a pan that is under way went *)
(* in the right direction, for any number of touches.                      *)
(***************************************************************************)
EXTENDS SwipeAway, TLAPS

\* The animator has behaviors from the presentation until the article leaves; an
\* entrance has not been touched yet, and a stale attachment was cancelled.
Phases ==
  /\ transitionState = "NotSetUp" => pan = "idle" /\ ~leaving /\ ~dismissed /\ ~held
  /\ transitionState # "NotSetUp" /\ behaviors = {} => leaving \/ dismissed
  /\ leaving \/ dismissed => behaviors = {}
  /\ behaviors # {} => "item" \in behaviors
  /\ leaving => pan = "idle"
  /\ "stale" \in behaviors => cancelled
  /\ transitionState = "Entrance" => ~held /\ ~Pinned

\* An article that leaves is already where its exit will have brought it.
Gone == (leaving \/ dismissed) /\ ~leftAtExit => place \in {-3, 3} /\ statusBar = Off

\* Until it fails, dragging says whether the direction has been checked; between
\* touches nothing has been.
Checked ==
  /\ pan # "failed" => heading = IF dragging THEN direction ELSE Zero
  /\ pan = "idle" => ~dragging

IInv == TypeOK /\ Phases /\ BehaviorsAsSet /\ Gone /\ Checked

USE TouchAssumption, DirectionAssumption

\* Before the presentation there are no behaviors.
LEMMA InitIInv == Init => IInv
<1> SUFFICES ASSUME Init PROVE IInv
  OBVIOUS
<1>1. TypeOK
  <2>1. place \in -3..3 /\ flight \in -1..1 /\ touches \in 0..MaxTouches /\ statusBar \in Off..Whole
    BY DEF Init, Off, Whole
  <2> QED BY <2>1 DEF Init, TypeOK, PanInit, PanTypeOK
<1>2. Phases /\ BehaviorsAsSet /\ Gone /\ Checked
  BY DEF Init, PanInit, Phases, BehaviorsAsSet, Gone, Pinned, touching, Checked
<1> QED BY <1>1, <1>2 DEF IInv

\* The recognizer by itself keeps its part of the invariant.
LEMMA RecognizerStep ==
  ASSUME PanTypeOK, Checked,
         \/ TouchesBegan \/ Reset \/ UNCHANGED recognizer
         \/ \E super \in SuperStates, velocity \in Direction \cup {Zero} : TouchesMoved(super, velocity)
  PROVE  PanTypeOK' /\ Checked'
<1>1. CASE TouchesBegan
  BY <1>1 DEF TouchesBegan, PanTypeOK, Checked
<1>2. CASE Reset
  BY <1>2 DEF Reset, PanTypeOK, Checked
<1>3. CASE UNCHANGED recognizer
  BY <1>3 DEF recognizer, PanTypeOK, Checked
<1>4. ASSUME NEW super \in SuperStates, NEW velocity \in Direction \cup {Zero},
             TouchesMoved(super, velocity)
      PROVE  PanTypeOK' /\ Checked'
  <2>1. CASE super = "failed" \/ dragging \/ velocity = Zero
    <3>1. pan' = super /\ dragging' = dragging /\ pan # "failed" /\ pan # "idle"
      BY <1>4, <2>1 DEF TouchesMoved
    <3>2. heading' = IF heading = Zero THEN velocity ELSE heading
      BY <1>4 DEF TouchesMoved
    <3>3. super \in {"possible", "began", "failed"}
      BY <1>4, <3>1 DEF SuperStates, PanTypeOK
    <3>4. PanTypeOK'
      BY <3>1, <3>2, <3>3 DEF PanTypeOK
    <3>5. Checked'
      BY <2>1, <3>1, <3>2, <3>3 DEF Checked
    <3> QED BY <3>4, <3>5
  <2>2. CASE super # "failed" /\ ~dragging /\ velocity # Zero
    <3>1. dragging' = TRUE /\ pan' = (IF velocity = direction THEN super ELSE "failed")
      BY <1>4, <2>2 DEF TouchesMoved
    <3>2. heading = Zero /\ heading' = velocity
      BY <1>4, <2>2 DEF TouchesMoved, Checked
    <3>3. super \in {"possible", "began", "failed"}
      BY <1>4, <2>2 DEF TouchesMoved, SuperStates
    <3>4. PanTypeOK'
      BY <3>1, <3>2, <3>3 DEF PanTypeOK
    <3>5. Checked'
      BY <3>1, <3>2, <3>3 DEF Checked
    <3> QED BY <3>4, <3>5
  <2> QED BY <2>1, <2>2
<1> QED BY <1>1, <1>2, <1>3, <1>4

\* A dismissal by a tick is all that a check does to the behaviors.
LEMMA CheckStep ==
  ASSUME TypeOK, NEW isActive, Check(isActive)
  PROVE  /\ transitionState' \in {"NotSetUp", "Entrance", "Presented", "Exit"}
         /\ transitionState' = "NotSetUp" <=> transitionState = "NotSetUp"
         /\ transitionState' = "Entrance" => transitionState = "Entrance"
         /\ place' = place \/ (place' = 0 /\ place \notin {-3, 3})
         /\ \/ dismissed' = dismissed /\ behaviors' = behaviors
            \/ dismissed' = TRUE /\ behaviors' = {} /\ place' = place /\ place \in {-3, 3}
               /\ transitionState = "Exit"
  BY DEF Check, TypeOK, Overlap, Off, Partly, Nearly, Whole

\* Tick and Pause keep the invariant.
LEMMA TickStep ==
  ASSUME IInv, NEW isActive, Check(isActive), statusBar' = Overlap, active' \in BOOLEAN,
         UNCHANGED <<snapActive, held, flight, finger, leaving, leftAtExit>>
  PROVE  IInv'
<1> USE DEF IInv
<1>9. Overlap \in Off..Whole /\ (place \in {-3, 3} => Overlap = Off)
  BY DEF TypeOK, Overlap, Off, Whole
<1>1. /\ transitionState' \in {"NotSetUp", "Entrance", "Presented", "Exit"}
      /\ transitionState' = "NotSetUp" <=> transitionState = "NotSetUp"
      /\ transitionState' = "Entrance" => transitionState = "Entrance"
      /\ place' = place \/ (place' = 0 /\ place \notin {-3, 3})
      /\ \/ dismissed' = dismissed /\ behaviors' = behaviors
         \/ dismissed' = TRUE /\ behaviors' = {} /\ place' = place /\ place \in {-3, 3}
            /\ transitionState = "Exit"
  BY CheckStep
<1>2. TypeOK'
  <2>1. place' \in -3..3 /\ statusBar' \in Off..Whole
    BY <1>1, <1>9 DEF TypeOK
  <2>2. PanTypeOK'
    BY RecognizerStep DEF TypeOK, finger
  <2> QED BY <1>1, <2>1, <2>2 DEF TypeOK, finger
<1>3. Phases'
  BY <1>1 DEF Phases, Pinned, finger, recognizer, touching
<1>4. BehaviorsAsSet'
  BY <1>1 DEF BehaviorsAsSet, Pinned, finger, recognizer, touching
<1>5. Gone'
  BY <1>1, <1>9 DEF Gone
<1>6. Checked'
  BY RecognizerStep DEF TypeOK, finger
<1> QED BY <1>2, <1>3, <1>4, <1>5, <1>6

\* What the animator and its delegate do outside a tick.
LEMMA MotionStep == ASSUME IInv, Present \/ Move \/ Resume PROVE IInv'
<1> USE DEF IInv, motion, finger
<1>0. (UNCHANGED recognizer) /\ PanTypeOK' /\ Checked'
  <2>1. UNCHANGED recognizer
    BY DEF Present, Move, Resume
  <2> QED BY <2>1, RecognizerStep DEF TypeOK
<1> USE DEF recognizer, touching
<1>1. CASE Present
  BY <1>0, <1>1 DEF Present, TypeOK, Phases, BehaviorsAsSet, Gone, Pinned
<1>2. CASE Move
  <2>1. behaviors # {} /\ place' \in -3..3
    BY <1>2 DEF Move, Pinned, Pulled, TypeOK
  <2> QED BY <1>0, <1>2, <2>1 DEF Move, TypeOK, Phases, BehaviorsAsSet, Gone, Pinned
<1>3. CASE Resume
  BY <1>0, <1>3 DEF Resume, TypeOK, Phases, BehaviorsAsSet, Gone, Pinned
<1> QED BY <1>1, <1>2, <1>3

\* What a call of _swiped that ends the gesture does.
LEMMA SwipedOverStep ==
  ASSUME IInv, ~leaving, ~dismissed, transitionState # "NotSetUp",
         NEW snap \in BOOLEAN, NEW velocities \in SUBSET (-1..1), SwipedOver(snap, velocities)
  PROVE  /\ flight' \in -1..1 /\ snapActive' \in BOOLEAN /\ held' \in BOOLEAN
         /\ behaviors' \subseteq {"item", "snap", "attachment", "stale"}
         /\ "item" \in behaviors'
         /\ held' = FALSE /\ "attachment" \notin behaviors'
         /\ snapActive' <=> "snap" \in behaviors'
         /\ "stale" \in behaviors' <=> "stale" \in behaviors
         /\ transitionState = "Entrance" => behaviors' = behaviors
<1> USE DEF IInv
<1>1. flight' \in -1..1
  BY DEF SwipedOver, TypeOK
<1>2. CASE transitionState = "Entrance"
  <2>1. behaviors' = behaviors /\ snapActive' = snapActive /\ held' = held
    BY <1>2 DEF SwipedOver
  <2>2. "item" \in behaviors /\ ~held
    BY <1>2 DEF Phases
  <2>3. (snapActive <=> "snap" \in behaviors) /\ "attachment" \notin behaviors
    BY <2>2 DEF BehaviorsAsSet
  <2>4. snapActive \in BOOLEAN /\ held = FALSE /\ behaviors \subseteq {"item", "snap", "attachment", "stale"}
    BY <2>2 DEF TypeOK
  <2> QED BY <1>1, <2>1, <2>2, <2>3, <2>4
<1>3. CASE transitionState # "Entrance"
  <2>1. held' = FALSE /\ snapActive' = snap
    BY <1>3 DEF SwipedOver, SetSnap
  <2>2. "item" \in behaviors /\ (snapActive <=> "snap" \in behaviors) /\ (held <=> "attachment" \in behaviors)
    BY DEF Phases, BehaviorsAsSet
  <2>3. CASE snap = snapActive
    <3>1. behaviors' = IF held THEN behaviors \ {"attachment"} ELSE behaviors
      BY <1>3, <2>3 DEF SwipedOver, SetSnap
    <3> QED BY <1>1, <1>3, <2>1, <2>2, <2>3, <3>1 DEF TypeOK
  <2>4. CASE snap # snapActive
    <3>1. behaviors' = LET rest == IF held THEN behaviors \ {"attachment"} ELSE behaviors
                       IN  IF snap THEN rest \cup {"snap"} ELSE rest \ {"snap"}
      BY <1>3, <2>4 DEF SwipedOver, SetSnap
    <3> QED BY <1>1, <1>3, <2>1, <2>2, <2>4, <3>1 DEF TypeOK
  <2> QED BY <2>3, <2>4
<1> QED BY <1>2, <1>3

\* A touch that begins, moves, ends or is cancelled.
LEMMA TouchDownStep == ASSUME IInv, TouchDown PROVE IInv'
<1> USE DEF IInv, motion
<1>1. PanTypeOK' /\ Checked'
  BY RecognizerStep DEF TouchDown, TypeOK
<1>2. touches' \in 0..MaxTouches
  BY DEF TouchDown, TypeOK
<1>3. TypeOK'
  BY <1>1, <1>2 DEF TouchDown, TypeOK
<1>4. ~touching /\ ~touching' /\ ~leaving /\ transitionState # "NotSetUp"
  BY DEF TouchDown, TouchesBegan, touching
<1>5. Phases' /\ BehaviorsAsSet' /\ Gone'
  BY <1>4 DEF TouchDown, TypeOK, Phases, BehaviorsAsSet, Gone, Pinned
<1> QED BY <1>1, <1>3, <1>5

\* The finger moves: the pan goes on, begins, or fails.
LEMMA MovedStep ==
  ASSUME IInv, NEW super \in SuperStates, NEW velocity \in Direction \cup {Zero}, Moved(super, velocity)
  PROVE  IInv'
<1> USE DEF IInv
<1>1. PanTypeOK' /\ Checked'
  <2>1. TouchesMoved(super, velocity)
    BY DEF Moved
  <2> QED BY <2>1, RecognizerStep DEF TypeOK
<1>2. /\ UNCHANGED <<transitionState, active, place, touches, leaving, leftAtExit, dismissed, statusBar>>
      /\ ~dismissed /\ pan \in {"possible", "began"}
  BY DEF Moved, TouchesMoved
<1>3. transitionState # "NotSetUp" /\ ~leaving
  BY <1>2 DEF Phases
<1>4. CASE NotSwiped /\ (pan' = "began" => pan = "began") /\ cancelled' \in BOOLEAN
           /\ (cancelled => cancelled') /\ (pan = "began" /\ pan' # "began" => cancelled')
  <2>1. TypeOK'
    BY <1>1, <1>2, <1>4 DEF NotSwiped, TypeOK
  <2>2. Phases' /\ BehaviorsAsSet' /\ Gone'
    BY <1>2, <1>3, <1>4 DEF NotSwiped, TypeOK, Phases, BehaviorsAsSet, Gone, Pinned, touching
  <2> QED BY <1>1, <2>1, <2>2
<1>5. CASE pan' = "began" /\ SwipedBegan /\ UNCHANGED cancelled /\ pan = "possible"
  <2>1. TypeOK'
    BY <1>1, <1>2, <1>5 DEF SwipedBegan, TypeOK
  <2>2. Phases' /\ BehaviorsAsSet' /\ Gone'
    BY <1>2, <1>3, <1>5 DEF SwipedBegan, TypeOK, Phases, BehaviorsAsSet, Gone, Pinned, touching
  <2> QED BY <1>1, <2>1, <2>2
<1>6. CASE pan' = "failed" /\ SwipedOver(TRUE, -1..1) /\ UNCHANGED cancelled
  <2>1. /\ flight' \in -1..1 /\ snapActive' \in BOOLEAN /\ held' \in BOOLEAN
        /\ behaviors' \subseteq {"item", "snap", "attachment", "stale"}
        /\ "item" \in behaviors'
        /\ held' = FALSE /\ "attachment" \notin behaviors'
        /\ snapActive' <=> "snap" \in behaviors'
        /\ "stale" \in behaviors' <=> "stale" \in behaviors
    <3>1. -1..1 \in SUBSET (-1..1)
      OBVIOUS
    <3> QED BY <1>2, <1>3, <1>6, <3>1, SwipedOverStep
  <2>2. TypeOK'
    BY <1>1, <1>2, <1>6, <2>1 DEF TypeOK
  <2>3. Phases' /\ BehaviorsAsSet' /\ Gone'
    BY <1>2, <1>3, <1>6, <2>1 DEF Phases, BehaviorsAsSet, Gone, Pinned, touching
  <2> QED BY <1>1, <2>2, <2>3
<1>7. cancelled \in BOOLEAN
  BY DEF TypeOK
<1>8. \/ pan' = pan /\ NotSwiped /\ UNCHANGED cancelled
      \/ pan' # pan /\ pan' = "began" /\ SwipedBegan /\ UNCHANGED cancelled
      \/ pan' = "failed" /\ pan = "possible" /\ NotSwiped /\ UNCHANGED cancelled
      \/ pan' = "failed" /\ pan = "began" /\ NotSwiped /\ cancelled' = TRUE
      \/ pan' = "failed" /\ super = "began" /\ SwipedOver(TRUE, -1..1) /\ UNCHANGED cancelled
  BY DEF Moved
<1>9. \/ NotSwiped /\ (pan' = "began" => pan = "began") /\ cancelled' \in BOOLEAN
         /\ (cancelled => cancelled') /\ (pan = "began" /\ pan' # "began" => cancelled')
      \/ pan' = "began" /\ SwipedBegan /\ UNCHANGED cancelled /\ pan = "possible"
      \/ pan' = "failed" /\ SwipedOver(TRUE, -1..1) /\ UNCHANGED cancelled
  BY <1>2, <1>7, <1>8
<1> HIDE DEF IInv
<1> QED BY <1>4, <1>5, <1>6, <1>9

\* The finger is lifted: the gesture ends or is cancelled.
LEMMA LiftStep == ASSUME IInv, Lift PROVE IInv'
<1> USE DEF IInv, motion
<1>1. Reset /\ PanTypeOK' /\ Checked'
  <2>1. Reset
    BY DEF Lift, Ended, Cancelled, TouchUp
  <2> QED BY <2>1, RecognizerStep DEF TypeOK
<1>2. pan' = "idle"
  BY <1>1 DEF Reset
<1>3. ASSUME NEW fast \in BOOLEAN, Ended(fast) PROVE IInv'
  <2>1. ~leaving /\ ~dismissed /\ transitionState # "NotSetUp"
    BY <1>3 DEF Ended, Phases, touching
  <2>2. /\ flight' \in -1..1 /\ snapActive' \in BOOLEAN /\ held' \in BOOLEAN
        /\ behaviors' \subseteq {"item", "snap", "attachment", "stale"}
        /\ "item" \in behaviors'
        /\ held' = FALSE /\ "attachment" \notin behaviors'
        /\ snapActive' <=> "snap" \in behaviors'
        /\ "stale" \in behaviors' <=> "stale" \in behaviors
    <3>1. (IF fast THEN {-1, 1} ELSE {0}) \in SUBSET (-1..1)
      OBVIOUS
    <3>2. (~fast) \in BOOLEAN
      OBVIOUS
    <3>3. SwipedOver(~fast, IF fast THEN {-1, 1} ELSE {0})
      BY <1>3 DEF Ended
    <3> QED BY <2>1, <3>1, <3>2, <3>3, SwipedOverStep
  <2>3. UNCHANGED <<transitionState, active, place, touches, cancelled, leaving, leftAtExit, dismissed, statusBar>>
    BY <1>3 DEF Ended
  <2>4. TypeOK'
    BY <1>1, <2>2, <2>3 DEF TypeOK
  <2>5. Phases' /\ BehaviorsAsSet' /\ Gone'
    BY <1>2, <2>1, <2>2, <2>3 DEF Phases, BehaviorsAsSet, Gone, Pinned, touching
  <2> QED BY <1>1, <2>4, <2>5
<1>4. CASE Cancelled
  <2>1. TypeOK'
    BY <1>1, <1>4 DEF Cancelled, TypeOK
  <2>2. Phases' /\ BehaviorsAsSet' /\ Gone'
    BY <1>2, <1>4 DEF Cancelled, TypeOK, Phases, BehaviorsAsSet, Gone, Pinned, touching
  <2> QED BY <1>1, <2>1, <2>2
<1>5. CASE TouchUp
  <2>1. TypeOK'
    BY <1>1, <1>5 DEF TouchUp, TypeOK
  <2>2. Phases' /\ BehaviorsAsSet' /\ Gone'
    BY <1>2, <1>5 DEF TouchUp, TypeOK, Phases, BehaviorsAsSet, Gone, Pinned, touching
  <2> QED BY <1>1, <2>1, <2>2
<1> QED BY <1>3, <1>4, <1>5 DEF Lift

\* The back button and the end of its animation.
LEMMA ExitStep == ASSUME IInv, InduceExit \/ ExitAnimated PROVE IInv'
<1> USE DEF IInv, motion
<1>1. CASE InduceExit
  <2>0. pan' = "idle" /\ PanTypeOK' /\ Checked'
    <3>1. Reset
      BY <1>1 DEF InduceExit
    <3>2. pan' = "idle"
      BY <3>1 DEF Reset
    <3> QED BY <3>1, <3>2, RecognizerStep DEF TypeOK
  <2>1. place' \in -3..3 /\ (place >= 0 => place' = 3)
    BY <1>1 DEF InduceExit, ExitPlaces, TypeOK
  <2>2. leftAtExit' \in BOOLEAN /\ (~leftAtExit' => place >= 0)
    <3>1. CASE place < 0
      BY <1>1, <3>1 DEF InduceExit
    <3>2. CASE ~(place < 0)
      <4>1. leftAtExit' \in BOOLEAN
        BY <1>1, <3>2 DEF InduceExit, TypeOK
      <4>2. place >= 0
        BY <3>2 DEF TypeOK
      <4> QED BY <4>1, <4>2
    <3> QED BY <3>1, <3>2
  <2>3. TypeOK'
    BY <1>1, <2>0, <2>1, <2>2 DEF InduceExit, TypeOK, Off, Whole
  <2>4. Phases' /\ BehaviorsAsSet' /\ Gone'
    BY <1>1, <2>0, <2>1, <2>2 DEF InduceExit, Phases, BehaviorsAsSet, Gone, Pinned, touching
  <2> QED BY <2>0, <2>3, <2>4
<1>2. CASE ExitAnimated
  <2>1. (UNCHANGED recognizer) /\ PanTypeOK' /\ Checked'
    <3>1. UNCHANGED recognizer
      BY <1>2 DEF ExitAnimated, finger
    <3> QED BY <3>1, RecognizerStep DEF TypeOK
  <2> QED BY <1>2, <2>1 DEF ExitAnimated, TypeOK, Phases, BehaviorsAsSet, Gone, Pinned, finger,
                              recognizer, touching
<1> QED BY <1>1, <1>2

\* The invariant holds in every reachable state.
LEMMA Invariant == Spec => []IInv
<1>1. IInv /\ [Next]_vars => IInv'
  <2> SUFFICES ASSUME IInv, [Next]_vars PROVE IInv'
    OBVIOUS
  <2>1. CASE Tick
    BY <2>1, TickStep DEF Tick, IInv, TypeOK
  <2>2. CASE Pause
    BY <2>2, TickStep DEF Pause
  <2>3. CASE UNCHANGED vars
    <3>1. (UNCHANGED recognizer) /\ PanTypeOK' /\ Checked'
      BY <2>3, RecognizerStep DEF vars, finger, IInv, TypeOK
    <3> QED BY <2>3, <3>1 DEF vars, motion, finger, recognizer, touching, IInv, TypeOK, Phases,
                                BehaviorsAsSet, Gone, Pinned
  <2> QED BY <2>1, <2>2, <2>3, MotionStep, TouchDownStep, MovedStep, LiftStep, ExitStep DEF Next
<1> QED BY InitIInv, <1>1, PTL DEF Spec
-----------------------------------------------------------------------------
\* The state of the view controller is well typed.
THEOREM TypeCorrect == Spec => []TypeOK
<1>1. IInv => TypeOK
  BY DEF IInv
<1> QED BY Invariant, <1>1, PTL

\* The animator has the snap and the attachment that the flags say, and nothing but
\* a cancelled gesture leaves an attachment behind.
THEOREM BehaviorsAsSetHolds == Spec => []BehaviorsAsSet
<1>1. IInv => BehaviorsAsSet
  BY DEF IInv
<1> QED BY Invariant, <1>1, PTL

\* Every pan that is under way was checked, or has yet to move, whatever happened to
\* the touches before it.
THEOREM PansTheRightWayHolds == Spec => []PansTheRightWay
<1>1. IInv => PansTheRightWay
  BY DEF IInv, Checked, PansTheRightWay
<1> QED BY Invariant, <1>1, PTL

\* A dismissed article has left the screen and given back the status bar.
THEOREM DismissedOffScreenHolds == Spec => []DismissedOffScreen
<1>1. IInv => DismissedOffScreen
  BY DEF IInv, Gone, DismissedOffScreen, Overlap, Off, Whole
<1> QED BY Invariant, <1>1, PTL
=============================================================================
