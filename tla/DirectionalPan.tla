---------------------------- MODULE DirectionalPan ----------------------------
(***************************************************************************)
(* SSWDirectionalPanGestureRecognizer (A1/A1/Article Viewing): a pan       *)
(* recognizer of UIKit (external) that fails when the finger first moves   *)
(* in another direction than the one it was given.  Followed is one touch; *)
(* what the owner's action does is left to the module that extends this.   *)
(***************************************************************************)

CONSTANTS
  Direction,   \* SSWPanDirection
  direction,   \* the one that was given, .right for an article
  Zero         \* CGPointZero and, for heading, not known yet

ASSUME DirectionAssumption == direction \in Direction /\ Zero \notin Direction

VARIABLES
  pan,        \* state of the recognizer ("began" is .changed too), "idle" without a touch
  dragging,
  heading     \* history: where the first velocity of this touch pointed

recognizer == <<pan, dragging, heading>>

PanTypeOK ==
  /\ pan \in {"idle", "possible", "began", "failed"}
  /\ dragging \in BOOLEAN
  /\ heading \in Direction \cup {Zero}

PanInit == pan = "idle" /\ dragging = FALSE /\ heading = Zero

TouchesBegan ==
  /\ pan = "idle"
  /\ pan' = "possible"
  /\ UNCHANGED <<dragging, heading>>

\* The states that touchesMoved of UIPanGestureRecognizer may leave behind: the pan
\* begins when the finger has gone far enough, or fails for reasons of its own.
SuperStates == IF pan = "possible" THEN {"possible", "began", "failed"} ELSE {pan}

\* touchesMoved; velocity is the direction of its largest component.
TouchesMoved(super, velocity) ==
  /\ pan \in {"possible", "began"}
  /\ super \in SuperStates
  /\ heading' = IF heading = Zero THEN velocity ELSE heading
  /\ \/ /\ super = "failed" \/ dragging \/ velocity = Zero
        /\ pan' = super
        /\ UNCHANGED dragging
     \/ /\ super # "failed" /\ ~dragging /\ velocity # Zero
        /\ pan' = IF velocity = direction THEN super ELSE "failed"
        /\ dragging' = TRUE

\* Mutant of Reset: dragging is not cleared, so that the next pan is not checked.
ResetSuper == pan' = "idle" /\ heading' = Zero /\ UNCHANGED dragging

\* reset, which UIKit calls when the touch is over.
Reset == pan' = "idle" /\ dragging' = FALSE /\ heading' = Zero
-----------------------------------------------------------------------------
\* A pan that is under way has first moved in the given direction or, as long as its
\* velocity was zero, in none: "checks if the pan gesture started in the correct
\* direction; it fails otherwise", for every touch and not only for the first.
PansTheRightWay == pan = "began" => heading \in {direction, Zero}
=============================================================================
