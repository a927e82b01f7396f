-------------------------- MODULE MCBabysitterLoop --------------------------
(***************************************************************************)
(* A small queue: 1 and 2 in phase 0, where 2 needs 1, and 3 in phase 1    *)
(* with the highest priority.  2 and 3 share an owner.  The task 4 needs 2 *)
(* and is owned by QA, as eval-harness is in the shipped queue.            *)
(***************************************************************************)
EXTENDS BabysitterLoop, TLC

MCTasks == 1..4
MCAgents == {"vision", "data", "qa"}
MCWorkers == {"vision", "data"}
MCOwner == 1 :> "data" @@ 2 :> "vision" @@ 3 :> "vision" @@ 4 :> "qa"
MCPriority == 1 :> 80 @@ 2 :> 80 @@ 3 :> 90 @@ 4 :> 70
MCDependsOn == 1 :> {} @@ 2 :> {1} @@ 3 :> {} @@ 4 :> {2}
MCPhaseOf == 1 :> 0 @@ 2 :> 0 @@ 3 :> 1 @@ 4 :> 0
MCPhases == {0, 1}
NoPhases == {}

\* A queue whose first task was given up; one whose first task waits for QA, as
\* the tasks of phase 0 do in the shipped queue; and a fresh one.
Fresh == [t \in MCTasks |-> "OPEN"]
FreshQueue == {Fresh}
MCInitialQueues == {[Fresh EXCEPT ![1] = "ABANDONED"], [Fresh EXCEPT ![1] = "IMPLEMENTED"]}
=============================================================================
