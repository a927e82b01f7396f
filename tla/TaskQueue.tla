------------------------------ MODULE TaskQueue ------------------------------
(***************************************************************************)
(* The task queue of the babysitter loop: which tasks may run, which one   *)
(* runs next, and how the queue on disk is recomputed.  Pure operators of  *)
(* orchestration/tasks.py over a task status function and the set of       *)
(* phases that are done.                                                   *)
(***************************************************************************)
EXTENDS Integers, FiniteSets

CONSTANTS
    Tasks,      (* task ids, as numbers: the order of the ids breaks ties     *)
    Agents,     (* the agents .ai/agent_status.json knows                     *)
    Owner,      (* the agent each task names                                  *)
    Priority,   (* the priority of each task                                  *)
    DependsOn,  (* the tasks that must be closed before it                    *)
    PhaseOf,    (* the phase of each task                                     *)
    Phases      (* the phase ids of .ai/project_state.json                    *)

ASSUME QueueAssumption ==
    /\ Tasks \subseteq Nat
    /\ IsFiniteSet(Tasks)
    /\ Phases \subseteq Nat
    /\ Owner \in [Tasks -> Agents]
    /\ Priority \in [Tasks -> Int]
    /\ DependsOn \in [Tasks -> SUBSET Tasks]  \* StateStore.validate, in preflight
    /\ PhaseOf \in [Tasks -> Nat]

Accepted == {"VALIDATED", "SUCCESSFUL"}
Closed == Accepted \cup {"ABANDONED"}
InFlight == {"IN_PROGRESS", "IMPLEMENTED"}
Waiting == {"OPEN", "BLOCKED", "FAILED"}
Status == Closed \cup InFlight \cup Waiting

ClosedTasks(status) == {t \in Tasks : status[t] \in Closed}

\* A task may run when its phase is the lowest one not done or below it; once
\* every phase is done nothing is locked but phases that do not exist.
PhaseUnlocked(p, done) ==
    IF Phases \subseteq done
    THEN \E q \in Phases \cup {0} : p <= q
    ELSE \A q \in Phases \ done : p <= q

DependenciesClosed(t, status) == DependsOn[t] \subseteq ClosedTasks(status)

\* Mutant: a dependency counts as met as soon as its implementation is done.
UnblockedByImplemented(status, done) ==
    {t \in Tasks : /\ status[t] \notin Closed \cup InFlight
                   /\ PhaseUnlocked(PhaseOf[t], done)
                   /\ \A d \in DependsOn[t] : status[d] \in Closed \cup InFlight}

\* `unblocked`: the tasks that may run now.
Unblocked(status, done) ==
    {t \in Tasks : /\ status[t] \notin Closed \cup InFlight
                   /\ PhaseUnlocked(PhaseOf[t], done)
                   /\ DependenciesClosed(t, status)}

\* Sorted by priority, highest first, then by id.
Before(t, u) ==
    \/ Priority[t] > Priority[u]
    \/ Priority[t] = Priority[u] /\ t < u

IsFirst(t, S) == t \in S /\ \A u \in S \ {t} : Before(t, u)

\* `unblocked` starts with this task, if there is one.
SelectNext(status, done) == CHOOSE t \in Tasks : IsFirst(t, Unblocked(status, done))

RefreshBlocked(status, done) ==
    [t \in Tasks |->
        IF status[t] \in Closed \cup InFlight THEN status[t]
        ELSE IF t \in Unblocked(status, done) THEN "OPEN" ELSE "BLOCKED"]
=============================================================================
