-------------------------- MODULE MCRunMemoryAgent --------------------------
(***************************************************************************)
(* A title screen, a fight, the death card and the victory card that is    *)
(* the goal.  The bank is new, or full from an earlier run.                *)
(***************************************************************************)
EXTENDS RecordedRun

MCLandmarks == {"title", "fight", "death", "victory"}
MCMode == "title" :> "menu" @@ "fight" :> "combat" @@ "death" :> "death" @@ "victory" :> "victory"
MCActionsOf == "menu" :> {"confirm", "right"} @@ "combat" :> {"shoot"} @@ "death" :> {"confirm"}
                 @@ "victory" :> {}
MCHoldFrames == [a \in {"confirm", "right", "shoot"} |-> 4]
MCCalibrated == <<Edge("title", "fight", "confirm"), Edge("death", "title", "confirm")>>

OldRow(n) == [step |-> n, scope |-> "title", action |-> "confirm", next |-> "fight",
              since |-> 0, before |-> <<4 * n>>, after |-> <<4 * n + 3>>]
MCBanks == {<<>>, <<OldRow(1), OldRow(2)>>}
=============================================================================
