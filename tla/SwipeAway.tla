------------------------------ MODULE SwipeAway ------------------------------
(***************************************************************************)
(* SwipeAwayViewController (A1/A1/Article Viewing): an article slides in,  *)
(* can be dragged or flicked away, or is sent away with the back button.   *)
(* Everything happens on the main thread, but in an order that the finger, *)
(* UIKit's dynamic animator (external) and the display link decide; the    *)
(* finger is seen through its pan recognizer, DirectionalPan.  Where       *)
(* contentView is matters only through its side and its                    *)
(* _contentViewScreenOverlap, in four levels.                              *)
(***************************************************************************)
EXTENDS Integers, DirectionalPan

CONSTANTS MaxTouches   \* bound: touches

ASSUME TouchAssumption == MaxTouches \in Nat

VARIABLES
  transitionState,  \* _transitionState
  snapActive,       \* _snapActive
  held,             \* _attachment # nil
  behaviors,        \* what the animator has; "stale" is an attachment nobody refers to
  active,           \* _dynamicAnimatorActive
  place,            \* how far contentView is to the right (or, < 0, to the left)
  flight,           \* where a flick has sent contentView: -1, 1 or 0
  leaving,          \* the animation of _induceExit is running
  dismissed,
  statusBar,        \* the overlap that StatusBarHacks.opacity was last set for
  touches,          \* how many touches there were
  cancelled,        \* history: a pan that was under way was cancelled
  leftAtExit        \* history: it was on the left when the back button was pressed

motion == <<place, flight>>
finger == <<recognizer, touches, cancelled>>
vars == <<transitionState, snapActive, held, behaviors, active, motion, finger,
          leaving, leftAtExit, dismissed, statusBar>>

Off == 0      \* overlap == 0
Partly == 1
Nearly == 2   \* overlap > 0.95
Whole == 3    \* overlap == 1

\* The gesture has begun and not ended.
touching == pan = "began"

\* _contentViewScreenOverlap
Overlap == Whole - (IF place < 0 THEN -place ELSE place)

TypeOK ==
  /\ transitionState \in {"NotSetUp", "Entrance", "Presented", "Exit"}
  /\ behaviors \subseteq {"item", "snap", "attachment", "stale"}
  /\ place \in -3..3
  /\ statusBar \in Off..Whole
  /\ flight \in -1..1
  /\ touches \in 0..MaxTouches
  /\ snapActive \in BOOLEAN /\ held \in BOOLEAN /\ active \in BOOLEAN
  /\ PanTypeOK
  /\ leaving \in BOOLEAN /\ dismissed \in BOOLEAN
  /\ cancelled \in BOOLEAN /\ leftAtExit \in BOOLEAN

Init ==
  /\ transitionState = "NotSetUp"
  /\ snapActive = FALSE
  /\ held = FALSE
  /\ behaviors = {}
  /\ active = FALSE
  /\ place = 3
  /\ flight = 0
  /\ PanInit
  /\ leaving = FALSE
  /\ dismissed = FALSE
  /\ statusBar = Off
  /\ touches = 0
  /\ cancelled = FALSE
  /\ leftAtExit = FALSE

\* animateTransition of the presentation: _setupAnimator, then .Entrance, whose
\* observer turns the snap on.
Present ==
  /\ transitionState = "NotSetUp"
  /\ transitionState' = "Entrance"
  /\ snapActive' = TRUE
  /\ behaviors' = {"item", "snap"}
  /\ UNCHANGED <<held, active, motion, finger, leaving, leftAtExit, dismissed, statusBar>>
-----------------------------------------------------------------------------
(* The animator (external): a finger holds contentView where it is, the    *)
(* snap pulls it to the middle, and without either it flies on for ever.   *)

Pinned == behaviors \cap {"attachment", "stale"} # {}

AtRest ==
  \/ Pinned
  \/ "snap" \in behaviors /\ Overlap >= Nearly
  \/ "snap" \notin behaviors /\ ("item" \notin behaviors \/ flight = 0)

\* One step towards the middle; the snap may overshoot a little.
Pulled == IF place \in {-1, 1} THEN {0, -place} ELSE {IF place < 0 THEN place + 1 ELSE place - 1}

Move ==
  /\ active
  /\ \/ /\ "attachment" \in behaviors /\ touching
        /\ place' \in -3..3
     \/ /\ ~Pinned /\ "snap" \in behaviors
        /\ place # 0
        /\ place' \in Pulled
     \/ /\ ~Pinned /\ behaviors = {"item"}
        /\ place' = place + flight
        /\ place' \in -3..3
  /\ UNCHANGED <<transitionState, snapActive, held, behaviors, active, flight, finger,
                 leaving, leftAtExit, dismissed, statusBar>>

\* dynamicAnimatorWillResume starts the display link.
Resume ==
  /\ ~active
  /\ ~AtRest \/ ("attachment" \in behaviors /\ touching)
  /\ active' = TRUE
  /\ UNCHANGED <<transitionState, snapActive, held, behaviors, motion, finger,
                 leaving, leftAtExit, dismissed, statusBar>>
-----------------------------------------------------------------------------
(* _dynamicAnimationTick.                                                  *)

\* _checkIfDynamicEntranceCompleted, _checkIfDynamicExitBegan and
\* _checkIfDynamicExitCompleted, with their mutant, which dismisses too early.
CheckEarly(isActive) ==
  /\ dismissed' = (dismissed \/ Overlap <= Partly)
  /\ UNCHANGED <<transitionState, place, behaviors>>

Check(isActive) ==
  \/ /\ transitionState = "Entrance" /\ ~isActive /\ Overlap >= Nearly
     /\ place' = 0
     /\ transitionState' = "Presented"
     /\ UNCHANGED <<dismissed, behaviors>>
  \/ /\ transitionState = "Presented" /\ isActive /\ Overlap < Whole
     /\ transitionState' = "Exit"
     /\ UNCHANGED <<place, dismissed, behaviors>>
  \/ /\ transitionState = "Exit" /\ ~isActive /\ Overlap = Whole
     /\ transitionState' = "Presented"
     /\ UNCHANGED <<place, dismissed, behaviors>>
  \/ /\ transitionState = "Exit" /\ Overlap = Off
     /\ dismissed' = TRUE
     /\ behaviors' = {}
     /\ UNCHANGED <<transitionState, place>>
  \/ /\ \/ transitionState = "NotSetUp"
        \/ transitionState = "Entrance" /\ (isActive \/ Overlap < Nearly)
        \/ transitionState = "Presented" /\ (~isActive \/ Overlap = Whole)
        \/ transitionState = "Exit" /\ Overlap # Off /\ (isActive \/ Overlap < Whole)
     /\ UNCHANGED <<transitionState, place, dismissed, behaviors>>

\* The display link fires.
Tick ==
  /\ active
  /\ statusBar' = Overlap
  /\ Check(TRUE)
  /\ UNCHANGED <<snapActive, held, active, flight, finger, leaving, leftAtExit>>

\* dynamicAnimatorDidPause stops the display link and ticks once more.
Pause ==
  /\ active
  /\ AtRest
  /\ active' = FALSE
  /\ statusBar' = Overlap
  /\ Check(FALSE)
  /\ UNCHANGED <<snapActive, held, flight, finger, leaving, leftAtExit>>
-----------------------------------------------------------------------------
(* _swiped.                                                                *)

\* Mutant of SetSnap: the observer does nothing.
SetSnapOnly(on, rest) == snapActive' = on /\ behaviors' = rest

\* The observer of _snapActive adds or removes the snap when the value changes;
\* rest is what the animator has without the attachment that the gesture removes.
SetSnap(on, rest) ==
  /\ snapActive' = on
  /\ behaviors' = IF on = snapActive THEN rest
                  ELSE IF on THEN rest \cup {"snap"} ELSE rest \ {"snap"}

\* A finger touches the article, unless it has gone or a UIView animation keeps
\* touches away.
TouchDown ==
  /\ transitionState # "NotSetUp"
  /\ ~leaving /\ ~dismissed
  /\ touches < MaxTouches
  /\ touches' = touches + 1
  /\ TouchesBegan
  /\ UNCHANGED <<transitionState, snapActive, held, behaviors, active, motion, cancelled,
                 leaving, leftAtExit, dismissed, statusBar>>

\* _swiped is not called, or with a state that it has no case for; for .changed it
\* moves the anchor, see Move.
NotSwiped == UNCHANGED <<held, snapActive, behaviors, flight>>

\* .began; during the entrance every call returns at once.
SwipedBegan ==
  /\ \/ /\ transitionState = "Entrance"
        /\ UNCHANGED <<held, behaviors>>
     \/ /\ transitionState # "Entrance"
        /\ held' = TRUE
        /\ behaviors' = behaviors \cup {"attachment"} \cup (IF held THEN {"stale"} ELSE {})
  /\ UNCHANGED <<snapActive, flight>>

\* Mutant of SwipedOver: the snap stays as it is when the finger is slow.
SwipedOverUnsnapped(snap, velocities) ==
  /\ held' = FALSE
  /\ SetSnap(snapActive /\ snap, behaviors \ {"attachment"})
  /\ flight' \in velocities

\* .ended and .failed.  A gesture that began during the entrance has no attachment
\* and so passes on no velocity.
SwipedOver(snap, velocities) ==
  \/ /\ transitionState = "Entrance"
     /\ UNCHANGED <<held, snapActive, behaviors, flight>>
  \/ /\ transitionState # "Entrance"
     /\ SetSnap(snap, IF held THEN behaviors \ {"attachment"} ELSE behaviors)
     /\ held' = FALSE
     /\ IF held THEN flight' \in velocities ELSE UNCHANGED flight

\* The finger moves.  Whether UIKit calls the action when the recognizer fails after
\* its pan has begun, and as .failed or as .cancelled, is not documented.
Moved(super, velocity) ==
  /\ ~dismissed
  /\ TouchesMoved(super, velocity)
  /\ \/ pan' = pan /\ NotSwiped /\ UNCHANGED cancelled
     \/ pan' # pan /\ pan' = "began" /\ SwipedBegan /\ UNCHANGED cancelled
     \/ pan' = "failed" /\ pan = "possible" /\ NotSwiped /\ UNCHANGED cancelled
     \/ pan' = "failed" /\ pan = "began" /\ NotSwiped /\ cancelled' = TRUE
     \/ pan' = "failed" /\ super = "began" /\ SwipedOver(TRUE, -1..1) /\ UNCHANGED cancelled
  /\ UNCHANGED <<transitionState, active, place, touches, leaving, leftAtExit, dismissed, statusBar>>

\* It is lifted and ends the pan, fast (more than 50 points a second) or not.
Ended(fast) ==
  /\ touching /\ ~dismissed
  /\ Reset
  /\ SwipedOver(~fast, IF fast THEN {-1, 1} ELSE {0})
  /\ UNCHANGED <<transitionState, active, place, touches, cancelled, leaving, leftAtExit,
                 dismissed, statusBar>>

\* The pan is cancelled, by the system or because the view has gone: the switch has
\* no case for that, and the attachment stays.
Cancelled ==
  /\ touching
  /\ Reset
  /\ cancelled' = TRUE
  /\ UNCHANGED <<transitionState, snapActive, held, behaviors, active, motion, touches,
                 leaving, leftAtExit, dismissed, statusBar>>

\* A touch that was or became no pan is over.
TouchUp ==
  /\ pan \in {"possible", "failed"}
  /\ Reset
  /\ UNCHANGED <<transitionState, snapActive, held, behaviors, active, motion, touches, cancelled,
                 leaving, leftAtExit, dismissed, statusBar>>
-----------------------------------------------------------------------------
(* The back button.                                                        *)

\* Where contentView is after a shift to the right by its width.
ExitPlaces ==
  CASE place >= 0 -> {3} [] place = -1 -> {2} [] place = -2 -> {1, 2} [] OTHER -> -3..0

\* _induceExit; the center of contentView is at its end at once, only its picture
\* moves.  The finger that has pressed the button is lifted; one that pans keeps it
\* from being pressed.
InduceExit ==
  /\ transitionState # "NotSetUp"
  /\ ~touching /\ ~leaving /\ ~dismissed
  /\ Reset
  /\ behaviors' = {}
  /\ leaving' = TRUE
  /\ place' \in ExitPlaces
  /\ IF place < 0 THEN leftAtExit' = TRUE ELSE UNCHANGED leftAtExit
  /\ statusBar' = Off
  /\ UNCHANGED <<transitionState, snapActive, held, active, flight, touches, cancelled,
                 dismissed>>

\* The completion of that animation dismisses the article, if a tick has not yet.
ExitAnimated ==
  /\ leaving
  /\ leaving' = FALSE
  /\ dismissed' = TRUE
  /\ UNCHANGED <<transitionState, snapActive, held, behaviors, active, motion, finger, leftAtExit,
                 statusBar>>
-----------------------------------------------------------------------------
Lift == Ended(TRUE) \/ Ended(FALSE) \/ Cancelled \/ TouchUp

Next ==
  \/ Present \/ Move \/ Resume \/ Tick \/ Pause
  \/ TouchDown \/ Lift \/ InduceExit \/ ExitAnimated
  \/ \E super \in SuperStates, velocity \in Direction \cup {Zero} : Moved(super, velocity)

Spec == Init /\ [][Next]_vars

\* The presentation is begun, the animator and the display link run, animations
\* end, and so does every touch.  Nobody has to touch or to press anything.
Fairness ==
  /\ WF_vars(Present) /\ WF_vars(Resume) /\ WF_vars(Tick) /\ WF_vars(Pause)
  /\ WF_vars(Move) /\ WF_vars(ExitAnimated) /\ WF_vars(Lift)

FairSpec == Spec /\ Fairness
-----------------------------------------------------------------------------
(* Properties.                                                             *)

\* Once the article is dismissed nothing of it is on screen and the status bar is
\* back, whichever of the display link, the last tick and the exit animation comes
\* first.  (The back button shifts an article that is on the left not far enough, and
\* the last tick may then dim the bar again.)
DismissedOffScreen ==
  dismissed /\ ~leftAtExit => Overlap = Off /\ statusBar = Off

\* Until all behaviors are removed for good the animator does what the flags say: it
\* has the snap when _snapActive is set, the attachment when _attachment is, and only
\* a cancelled gesture leaves contentView attached to a finger that has gone.
BehaviorsAsSet ==
  transitionState # "NotSetUp" /\ behaviors # {} =>
    /\ snapActive <=> "snap" \in behaviors
    /\ held <=> "attachment" \in behaviors
    /\ Pinned /\ ~touching => cancelled

\* However it is dragged, thrown, caught and released, in the end the article
\* either covers the screen or is gone, unless a gesture was cancelled.
Settles == <>[](dismissed \/ cancelled \/ (Overlap >= Nearly /\ ~touching))
=============================================================================
