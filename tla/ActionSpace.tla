---------------------------- MODULE ActionSpace ----------------------------
(***************************************************************************)
(* The factorized, pruned action space of control/action_space.py.  The    *)
(* deflection of a stick is counted in quarters, from -4 to 4, so that the *)
(* dead zone of 0.35 lies between one quarter and two.                     *)
(***************************************************************************)
EXTENDS Integers, FiniteSets

MOVE == {"none", "left", "right"}
VERT == {"none", "jump", "duck"}
AIM8 == {"n", "ne", "e", "se", "s", "sw", "w", "nw"}

Actions == [move : MOVE, vert : VERT, dash : BOOLEAN, shoot : BOOLEAN, lock : BOOLEAN, aim : AIM8]

Deflections == -4..4

\* What a device holds, before it is pruned.
RawStates == [x : Deflections, y : Deflections, jump : BOOLEAN, duck : BOOLEAN,
              dash : BOOLEAN, shoot : BOOLEAN, lock : BOOLEAN]

IsLegal(a) ==
    /\ ~(a.dash /\ a.vert = "duck")
    /\ ~(a.dash /\ a.shoot)
    /\ a.lock \/ a.aim = "e"
    /\ a.lock => a.move = "none" /\ a.vert # "duck" /\ (a.shoot \/ a.dash)

EnumerateActions == {a \in Actions : IsLegal(a)}

Abs(n) == IF n < 0 THEN -n ELSE n

\* The nearest of the eight directions: an angle below 22.5 degrees, whose
\* tangent lies between 2/5 and 5/12, is the one of the axis.
NearestAim8(x, y) ==
    LET near == 5 * Abs(x) > 12 * Abs(y)
        steep == 5 * Abs(y) > 12 * Abs(x)
    IN  IF x * x + y * y < 2 THEN "e"
        ELSE IF near THEN (IF x > 0 THEN "e" ELSE "w")
        ELSE IF steep THEN (IF y > 0 THEN "n" ELSE "s")
        ELSE IF y > 0 THEN (IF x > 0 THEN "ne" ELSE "nw")
        ELSE (IF x > 0 THEN "se" ELSE "sw")

Sideways(x) == IF x < -1 THEN "left" ELSE IF x > 1 THEN "right" ELSE "none"

\* Action.from_raw: "duck beats jump, dash drops duck and cancels the shot,
\* duck overrides lock, an idle lock is dropped."
FromRaw(raw) ==
    LET vert == IF raw.duck THEN (IF raw.dash THEN "none" ELSE "duck")
                ELSE IF raw.jump THEN "jump" ELSE "none"
        shoot == raw.shoot /\ ~raw.dash
        lock == raw.lock /\ vert # "duck" /\ (shoot \/ raw.dash)
    IN  [move |-> IF lock THEN "none" ELSE Sideways(raw.x), vert |-> vert,
         dash |-> raw.dash, shoot |-> shoot, lock |-> lock,
         aim |-> IF lock THEN NearestAim8(raw.x, raw.y) ELSE "e"]

\* ReflexOverride.merge: the planner's movement survives an evasion.
Merge(kind, planned) ==
    CASE kind = "parry" -> [move |-> planned.move, vert |-> "jump", dash |-> FALSE,
                            shoot |-> planned.shoot, lock |-> FALSE, aim |-> "e"]
      [] kind = "dash"  -> [move |-> planned.move, vert |-> "none", dash |-> TRUE,
                            shoot |-> FALSE, lock |-> FALSE, aim |-> "e"]
      [] OTHER          -> planned

\* The direction of the stick an aim stands for.
AimVector(aim) ==
    [x |-> CASE aim \in {"ne", "e", "se"} -> 1 [] aim \in {"nw", "w", "sw"} -> -1 [] OTHER -> 0,
     y |-> CASE aim \in {"nw", "n", "ne"} -> 1 [] aim \in {"sw", "s", "se"} -> -1 [] OTHER -> 0]

\* Action.to_buttons: what a replay stores of an action.
ToButtons(a) ==
    LET dx == CASE a.move = "left" -> -1 [] a.move = "right" -> 1 [] OTHER -> 0
        dy == IF a.vert = "duck" THEN -1 ELSE 0
        stick == IF a.lock THEN AimVector(a.aim) ELSE [x |-> dx, y |-> dy]
    IN  [stick |-> stick, a |-> a.vert = "jump", x |-> a.shoot, b |-> a.dash, rt |-> a.lock]
=============================================================================
