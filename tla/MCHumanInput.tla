---------------------------- MODULE MCHumanInput ----------------------------
(***************************************************************************)
(* A gamepad of which a stick, a D-pad and two buttons are moved, and a    *)
(* keyboard of which the arrows and three other keys are.                  *)
(***************************************************************************)
EXTENDS HumanInput, TLC

Still == [move |-> "none", vert |-> "none", dash |-> FALSE, shoot |-> FALSE, lock |-> FALSE,
          aim |-> "e"]

MCPositions ==
    [c \in {"ABS_Y"} |-> {-4, 0, 2}]
    @@ [c \in {"ABS_HAT0Y"} |-> {-4, 0}]
    @@ [c \in {"BTN_SOUTH", "BTN_DPAD_LEFT", "Left", "Right", "Down", "x", "c"} |-> {0, 1}]

MCScript ==
    <<Still, [Still EXCEPT !.shoot = TRUE]>>
=============================================================================
