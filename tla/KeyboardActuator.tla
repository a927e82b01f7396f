--------------------------- MODULE KeyboardActuator ---------------------------
(***************************************************************************)
(* X11KeyboardActuator of control/x11_keyboard.py in the hands of          *)
(* TimedExecutor and of the clean-up of the memory agent's run: Ctrl+C, or *)
(* an error of the X connection, may come between any two keys.            *)
(***************************************************************************)
CONSTANT
    Inputs      (* BOUND: the sets of keys that the inputs of a run hold    *)

VARIABLES
    down,       (* the keys that are down at the X server                   *)
    held,       (* _held                                                    *)
    pc,         (* where the run is                                         *)
    raised      (* history: the last neutral() has raised                   *)

keyVars == <<down, held, pc, raised>>

KeyInit == down = {} /\ held = {} /\ pc = "idle" /\ raised = FALSE

\* _set: releases, then presses, then it notes what it has done.
SetKeys(desired) ==
    /\ pc = "idle"
    /\ down' = (down \ (held \ desired)) \cup (desired \ held)
    /\ held' = desired
    /\ pc' = "hold"
    /\ UNCHANGED raised

\* It is cut off: the window is gone, or some of the keys are out.
SetKeysFails(desired) ==
    /\ pc = "idle"
    /\ \E out \in SUBSET ((held \ desired) \cup (desired \ held)) :
          /\ out \cap desired # {} => held \ desired \subseteq out
          /\ down' = (down \ (held \cap out)) \cup (desired \cap out)
    /\ pc' = "failing"
    /\ UNCHANGED <<held, raised>>

\* The frames of the hold; one of them may raise.
HoldKeys ==
    /\ pc = "hold"
    /\ pc' \in {"release", "failing"}
    /\ UNCHANGED <<down, held, raised>>

\* neutral() in the finally of execute: all that is noted is released.  Then the
\* run goes on, or its clean-up begins.
ReleaseKeys ==
    /\ pc \in {"release", "failing"}
    /\ down' = down \ held /\ held' = {} /\ raised' = FALSE
    /\ pc' = IF pc = "release" THEN "idle" ELSE "cleanup"

\* neutral() is cut off: it notes nothing.
ReleaseKeysFails ==
    /\ pc \in {"release", "failing", "cleanup"}
    /\ \E out \in SUBSET held : down' = down \ out
    /\ raised' = TRUE
    /\ pc' = IF pc = "cleanup" THEN "over" ELSE "cleanup"
    /\ UNCHANGED held

\* close() of the clean-up: neutral() once more.
CloseKeys ==
    /\ pc = "cleanup"
    /\ down' = down \ held /\ held' = {} /\ raised' = FALSE
    /\ pc' = "over"

\* The run ends between two inputs.
RunEnds ==
    /\ pc = "idle"
    /\ pc' = "cleanup"
    /\ UNCHANGED <<down, held, raised>>

KeyNext ==
    \/ \E desired \in Inputs : SetKeys(desired) \/ SetKeysFails(desired)
    \/ HoldKeys \/ ReleaseKeys \/ ReleaseKeysFails \/ CloseKeys \/ RunEnds

KeySpec == KeyInit /\ [][KeyNext]_keyVars

-----------------------------------------------------------------------------

\* "The runner saves its bank on interruption and releases input": after the
\* clean-up no key is down, unless its release has raised.
InterruptReleasesKeys == pc = "over" /\ ~raised => down = {}
=============================================================================
