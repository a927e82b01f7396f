--------------------------- MODULE RunMemoryAgent ---------------------------
(***************************************************************************)
(* The live run of scripts/run_memory_agent.py around the agent: load the  *)
(* bank, step until something ends the run, clean up.  Exceptions and      *)
(* Ctrl+C may come anywhere, also into the clean-up, and the process may   *)
(* be killed.  The file of the bank is what earlier runs have left.        *)
(***************************************************************************)
EXTENDS MemoryAgent

CONSTANTS
    MaxUnknown,     (* 300 unknown screens in a row end the run             *)
    SaveEvery,      (* the bank is saved every 10 steps                     *)
    Banks           (* BOUND: what the file of the bank may hold            *)

\* What earlier runs have left was learned as this run learns.
ASSUME RunAssumption ==
    /\ MaxUnknown \in Nat \ {0} /\ SaveEvery \in Nat \ {0}
    /\ Banks \subseteq Seq(Rows)
    /\ \A b \in Banks : Len(b) <= Capacity /\ \A i \in DOMAIN b : OfItsMoment(b[i])

VARIABLES
    unknown,    (* unknown screens in a row                                 *)
    victory,    (* cuphead_victory_verified                                 *)
    disk,       (* the rows in the file of the bank                         *)
    saved,      (* history: how many rows had been learned at the last save *)
    cut         (* history: the save at the end has failed or was skipped   *)

runVars == <<unknown, victory, disk, saved, cut>>
vars == <<agentVars, runVars>>

CleanUp == {"neutral", "close", "save", "report"}

\* LatentBank.load adds row by row.
Init ==
    /\ AgentInit
    /\ pc = "start"
    /\ disk \in Banks /\ rows = disk /\ learned = disk /\ saved = Len(disk)
    /\ unknown = 0 /\ victory = FALSE /\ cut = FALSE

\* The gamepad, the game, its window and the recorder come up.
SetUp ==
    /\ pc = "start"
    /\ Goto("loop")
    /\ UNCHANGED <<stepVars, encoderVars, termVars, padVars, bankVars, seen, since, runVars>>

\* One of them does not.
SetUpFails ==
    /\ pc = "start"
    /\ Goto("failed")
    /\ UNCHANGED <<stepVars, encoderVars, termVars, padVars, bankVars, seen, since, runVars>>

\* The recorder runs, there is time and the game is there: one more step.
NextStep ==
    /\ pc = "loop"
    /\ Goto("observe") /\ reply' = "none"
    /\ UNCHANGED <<step, locals, encoderVars, termVars,
                   padVars, bankVars, seen, since, runVars>>

\* time_budget, game_exited, or the recorder has failed.
NoMoreSteps ==
    /\ pc = "loop"
    /\ Goto("neutral")
    /\ UNCHANGED <<stepVars, encoderVars, termVars, padVars, bankVars, seen, since, runVars>>

Step == AgentStep /\ UNCHANGED runVars

EndsRun == reply \in {"goal_reached", "won"}

\* What the loop does with the result of a step.
AfterStep ==
    /\ pc = "stepped"
    /\ victory' = (reply = "won")
    /\ unknown' = IF reply = "unknown" THEN unknown + 1 ELSE 0
    /\ IF EndsRun \/ unknown' >= MaxUnknown THEN Goto("neutral") /\ UNCHANGED step
       ELSE IF step % SaveEvery = 0 THEN Goto("save_bank") /\ UNCHANGED step
       ELSE IF step < MaxSteps THEN Goto("loop") /\ step' = step + 1
       ELSE Goto("neutral") /\ UNCHANGED step
    /\ UNCHANGED <<locals, reply, encoderVars, termVars,
                   padVars, bankVars, seen, since, disk, saved, cut>>

\* LatentBank.save: a temporary file, then os.replace.
Save == disk' = rows /\ saved' = Len(learned)

SaveBank ==
    /\ pc = "save_bank"
    /\ Save
    /\ IF step < MaxSteps THEN Goto("loop") /\ step' = step + 1
                          ELSE Goto("neutral") /\ UNCHANGED step
    /\ UNCHANGED <<locals, reply, encoderVars, termVars,
                   padVars, bankVars, seen, since, unknown, victory, cut>>

\* Ctrl+C, SIGTERM or an exception in the loop, or one that the step has let out.
Broken ==
    /\ pc \in {"loop", "observe", "press", "sample", "settle", "stepped", "save_bank", "failed"}
    /\ Leaves("neutral")
    /\ UNCHANGED <<step, reply, encoderVars, termVars, padVars, bankVars, seen, since, runVars>>

-----------------------------------------------------------------------------
(* The clean-up: each part is tried, whatever became of the one before.    *)

\* Mutant: an error of the release ends the clean-up.
ReleaseInputOrStop ==
    /\ pc = "neutral"
    /\ \/ Neutral /\ Goto("close")
       \/ NeutralRaises /\ Goto("session")
    /\ UNCHANGED <<stepVars, encoderVars, termVars, bankVars, seen, since, runVars>>

ReleaseInput ==
    /\ pc = "neutral"
    /\ Neutral \/ NeutralRaises
    /\ Goto("close")
    /\ UNCHANGED <<stepVars, encoderVars, termVars, bankVars, seen, since, runVars>>

\* The recorder and the source.
CloseSources ==
    /\ pc = "close"
    /\ Goto("save")
    /\ UNCHANGED <<stepVars, encoderVars, termVars, padVars, bankVars, seen, since, runVars>>

SaveAtEnd ==
    /\ pc = "save"
    /\ Save
    /\ Goto("report")
    /\ UNCHANGED <<stepVars, encoderVars, termVars, padVars, bankVars, seen, since, unknown,
                   victory, cut>>

SaveFails ==
    /\ pc = "save"
    /\ cut' = TRUE
    /\ Goto("report")
    /\ UNCHANGED <<stepVars, encoderVars, termVars, padVars, bankVars, seen, since,
                   unknown, victory, disk, saved>>

Report ==
    /\ pc = "report"
    /\ Goto("session")
    /\ UNCHANGED <<stepVars, encoderVars, termVars, padVars, bankVars, seen, since, runVars>>

\* A second Ctrl+C skips what is left, except the close of the session.
CleanUpInterrupted ==
    /\ pc \in CleanUp
    /\ cut' = (cut \/ pc # "report")
    /\ Goto("session")
    /\ UNCHANGED <<stepVars, encoderVars, termVars, padVars, bankVars, seen, since,
                   unknown, victory, disk, saved>>

\* session.close, after which there is no gamepad; or the process is killed.
ProcessEnds ==
    /\ pc # "over"
    /\ cut' = (cut \/ pc \notin {"report", "session"})
    /\ Neutral
    /\ Leaves("over")
    /\ UNCHANGED <<step, reply, encoderVars, termVars, bankVars, seen, since, unknown, victory,
                   disk, saved>>

Next ==
    \/ SetUp \/ SetUpFails \/ NextStep \/ NoMoreSteps \/ Step \/ AfterStep \/ SaveBank
    \/ Broken
    \/ ReleaseInput \/ CloseSources \/ SaveAtEnd \/ SaveFails \/ Report \/ CleanUpInterrupted
    \/ ProcessEnds

Spec == Init /\ [][Next]_vars

-----------------------------------------------------------------------------

\* "Terminal results need repeated visual verification": a run that says it has
\* verified a victory, or reached its goal, has witnessed it.
VictoryIsWitnessed ==
    /\ reply \in {"won", "goal_reached"} => Witnessed
    /\ victory => Witnessed /\ Won(Goal)

\* "The runner saves its bank on interruption": at the end the file holds what
\* the bank held, unless saving it has failed or the run was killed; and what
\* was learned in the last SaveEvery steps is all that can be missing then.
BankIsSaved ==
    /\ pc = "over" /\ ~cut => disk = rows
    /\ Len(learned) - saved <= SaveEvery
=============================================================================
