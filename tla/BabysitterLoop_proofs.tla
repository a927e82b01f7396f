------------------------ MODULE BabysitterLoop_proofs ------------------------
(***************************************************************************)
(* Theorems about the babysitter loop, for every queue, every number of    *)
(* iterations and every sequence of failures, crashes and restarts: what   *)
(* its commits hold, in which order it works, what a strike rests on and   *)
(* who accepts a task.                                                     *)
(***************************************************************************)
EXTENDS BabysitterLoop, FiniteSetTheorems, SequenceTheorems, WellFoundedInduction, TLAPS

-----------------------------------------------------------------------------
(* The queue: which task is first, whatever the queue holds.               *)

\* The order by priority and id is a strict total order on the tasks.
LEMMA BeforeIsTotalOrder ==
    /\ \A t \in Tasks : ~Before(t, t)
    /\ \A t, u, v \in Tasks : Before(t, u) /\ Before(u, v) => Before(t, v)
    /\ \A t, u \in Tasks : t # u => Before(t, u) \/ Before(u, t)
<1> \A t \in Tasks : t \in Nat /\ Priority[t] \in Int
  BY QueueAssumption
<1> QED
  BY DEF Before

\* A sorted list that is not empty has a first element.
LEMMA FirstExists ==
    ASSUME NEW S \in SUBSET Tasks, S # {}
    PROVE  \E t \in S : IsFirst(t, S)
<1> DEFINE Ahead(t) == {u \in S : Before(u, t)}
           All == {Ahead(t) : t \in S}
<1>1. IsFiniteSet(S)
  BY FS_Subset, QueueAssumption
<1>2. \A t \in S : Ahead(t) \in FiniteSubsetsOf(S)
  BY <1>1, FS_Subset DEF FiniteSubsetsOf
<1>3. PICK A \in All : \A B \in All : <<B, A>> \notin StrictSubsetOrdering(S)
  <2>1. All \subseteq FiniteSubsetsOf(S) /\ All # {}
    BY <1>2
  <2> HIDE DEF All
  <2>2. QED
    BY <2>1, WFMin, FS_StrictSubsetOrderingWellFounded
<1>4. PICK t \in S : A = Ahead(t)
  OBVIOUS
<1>5. ASSUME NEW u \in S, Before(u, t) PROVE FALSE
  <2>1. Ahead(u) \subseteq Ahead(t) /\ u \in Ahead(t) /\ u \notin Ahead(u)
    BY <1>5, BeforeIsTotalOrder
  <2>2. <<Ahead(u), Ahead(t)>> \in StrictSubsetOrdering(S)
    BY <2>1 DEF StrictSubsetOrdering
  <2>3. QED
    BY <1>3, <1>4, <2>2
<1>6. \A u \in S \ {t} : Before(t, u)
  BY <1>5, BeforeIsTotalOrder
<1>7. QED
  BY <1>6 DEF IsFirst

LEMMA FirstIsUnique ==
    ASSUME NEW S \in SUBSET Tasks, NEW t, NEW u, IsFirst(t, S), IsFirst(u, S)
    PROVE  t = u
BY BeforeIsTotalOrder DEF IsFirst

\* What the loop selects is the first of the tasks that may run.
LEMMA SelectNextIsFirst ==
    ASSUME NEW queue, NEW phases, Unblocked(queue, phases) # {}
    PROVE  IsFirst(SelectNext(queue, phases), Unblocked(queue, phases))
<1>1. Unblocked(queue, phases) \subseteq Tasks
  BY DEF Unblocked
<1>2. \E t \in Tasks : IsFirst(t, Unblocked(queue, phases))
  BY <1>1, FirstExists
<1>3. QED
  BY <1>2 DEF SelectNext

\* Which tasks may run depends only on which are closed and which in flight.
LEMMA UnblockedDependsOnClasses ==
    ASSUME NEW s, NEW r, NEW phases,
           \A t \in Tasks : (s[t] \in Closed <=> r[t] \in Closed),
           \A t \in Tasks : (s[t] \in InFlight <=> r[t] \in InFlight)
    PROVE  Unblocked(s, phases) = Unblocked(r, phases) /\ ClosedTasks(s) = ClosedTasks(r)
<1>1. ClosedTasks(s) = ClosedTasks(r)
  BY DEF ClosedTasks
<1>2. QED
  BY <1>1 DEF Unblocked, DependenciesClosed

\* Recomputing OPEN and BLOCKED closes, reopens, blocks and unblocks nothing.
LEMMA RefreshKeepsUnblocked ==
    ASSUME NEW queue, NEW phases
    PROVE  /\ Unblocked(RefreshBlocked(queue, phases), phases) = Unblocked(queue, phases)
           /\ ClosedTasks(RefreshBlocked(queue, phases)) = ClosedTasks(queue)
           /\ \A t \in Unblocked(queue, phases) : RefreshBlocked(queue, phases)[t] = "OPEN"
<1> DEFINE r == RefreshBlocked(queue, phases)
<1>1. \A t \in Tasks : (queue[t] \in Closed <=> r[t] \in Closed)
  BY DEF RefreshBlocked, Closed, InFlight, Accepted
<1>2. \A t \in Tasks : (queue[t] \in InFlight <=> r[t] \in InFlight)
  BY DEF RefreshBlocked, Closed, InFlight, Accepted
<1>3. \A t \in Unblocked(queue, phases) : r[t] = "OPEN"
  BY DEF RefreshBlocked, Unblocked
<1> HIDE DEF r
<1>4. QED
  BY <1>1, <1>2, <1>3, UnblockedDependsOnClasses DEF r

-----------------------------------------------------------------------------
(* The loop.                                                               *)

LEMMA ConstantTypes ==
    /\ Owner \in [Tasks -> Agents]
    /\ QA \in Agents
    /\ None \notin Tasks
    /\ InitialQueues \subseteq [Tasks -> Status]
    /\ MaxIterations \in Nat \ {0}
    /\ MaxRuns \in Nat
BY QueueAssumption, LoopAssumption

\* When the process ends, its variables are typed whatever they were.
LEMMA EndedType ==
    ASSUME ProcessEnds
    PROVE  /\ pc' = "stopped" /\ mode' \in Modes /\ task' \in Tasks \cup {None}
           /\ iter' \in 0..MaxIterations /\ reply' = "none" /\ invoked' \in Seq(Agents)
           /\ missed' = {}
<1>1. 0 \in 0..MaxIterations
  BY ConstantTypes
<1>2. <<>> \in Seq(Agents)
  OBVIOUS
<1>3. QED
  BY <1>1, <1>2 DEF ProcessEnds, Modes

FailureRecord == [task : Tasks, kind : {"blocked", "rejected"}]

\* Where an iteration holds a task, it is a task of the queue.
TaskAtWork ==
    pc \notin {"stopped", "preflight", "announce", "select", "touch", "next", "finish",
    "halt"}
        => task \in Tasks

ReplyAtWork ==
    /\ pc = "close_task" => reply \in Accepted

TypeInv == TypeOK /\ TaskAtWork /\ ReplyAtWork

LEMMA RefreshType ==
    ASSUME NEW s \in [Tasks -> Status], NEW d
    PROVE  RefreshBlocked(s, d) \in [Tasks -> Status]
BY DEF RefreshBlocked, Status, Waiting

LEMMA SelectType ==
    ASSUME NEW s, NEW d, Unblocked(s, d) # {}
    PROVE  SelectNext(s, d) \in Tasks
BY SelectNextIsFirst DEF IsFirst, Unblocked

\* Every variable keeps its type: the documents, HEAD and the process.
THEOREM TypeCorrect == Spec => []TypeInv
<1>1. Init => TypeInv
  <2> SUFFICES ASSUME Init PROVE TypeInv
    OBVIOUS
  <2>1. failures \in Seq(FailureRecord) /\ invoked \in Seq(Agents)
    BY DEF Init
  <2>2. status \in [Tasks -> Status] /\ 0 \in 0..MaxIterations /\ 0 \in 0..MaxRuns
    BY ConstantTypes DEF Init
  <2>3. lastCommit \in [task : Tasks \cup {None}, closes : SUBSET Tasks,
  edits : SUBSET Tasks,
                         missed : SUBSET Tasks]
    BY DEF Init, NoCommit
  <2>4. TypeOK
    BY <2>1, <2>2, <2>3 DEF Init, TypeOK, Documents, Labels, Modes, FailureRecord
  <2>5. QED
    BY <2>4 DEF Init, TypeInv, TaskAtWork, ReplyAtWork
<1>2. TypeInv /\ [Next]_vars => TypeInv'
  <2> SUFFICES ASSUME TypeInv, [Next]_vars PROVE TypeInv'
    OBVIOUS
  <2> USE ConstantTypes DEF TypeInv, TypeOK, TaskAtWork, ReplyAtWork, Labels, Modes,
          disk, tree, proc, history, WorkerReplies, Verdicts
  <2>1. ASSUME NEW m \in Modes, Start(m) PROVE TypeInv'
    BY <2>1 DEF Start
  <2>2. CASE Preflight
    <3>1. pc' \in {"announce", "halt"}
      BY <2>2 DEF Preflight
    <3>2. QED
      BY <2>2, <3>1 DEF Preflight
  <2>3. CASE Announce
    BY <2>3 DEF Announce, SetRunning
  <2>4. CASE Select
    <3>1. status' \in [Tasks -> Status]
      BY <2>4, RefreshType DEF Select
    <3>2. CASE Unblocked(status, done) = {}
      BY <2>4, <3>1, <3>2 DEF Select
    <3>3. CASE Unblocked(status, done) # {}
      <4>1. Unblocked(status', done) # {}
        BY <2>4, <3>3, RefreshKeepsUnblocked DEF Select
      <4>2. task' \in Tasks
        BY <2>4, <3>3, <4>1, SelectType DEF Select
      <4>3. pc' \in {"halt", "finish", "claim_agent"}
        BY <2>4, <3>3 DEF Select, Admit
      <4>4. QED
        BY <2>4, <3>1, <4>2, <4>3 DEF Select
    <3>4. QED
      BY <3>2, <3>3
  <2>5. CASE ClaimAgent
    BY <2>5 DEF ClaimAgent, Write, SetAgent
  <2>6. CASE ClaimTask
    BY <2>6 DEF ClaimTask, Write, SetStatus, Status, InFlight
  <2>7. CASE ClaimLoop
    BY <2>7 DEF ClaimLoop, Write
  <2>8. ASSUME NEW r \in WorkerReplies, WorkerAnswers(r) PROVE TypeInv'
    BY <2>8 DEF WorkerAnswers, AgentAnswers, RunAgent
  <2>9. CASE WorkerFails
    BY <2>9, EndedType DEF WorkerFails, AgentFails, RunAgent
  <2>10. CASE LogBlocked
    BY <2>10 DEF LogBlocked, Write, Record
  <2>11. CASE BlockTask
    BY <2>11 DEF BlockTask, Write, SetStatus, Status, Waiting
  <2>12. CASE ReleaseBlocked
    BY <2>12 DEF ReleaseBlocked, Write, SetAgent
  <2>13. CASE MarkImplemented
    BY <2>13 DEF MarkImplemented, Write, SetStatus, Status, InFlight
  <2>14. CASE ClaimQA
    BY <2>14 DEF ClaimQA, Write, SetAgent
  <2>15. ASSUME NEW v \in Verdicts, QAAnswers(v) PROVE TypeInv'
    BY <2>15 DEF QAAnswers, AgentAnswers, RunAgent
  <2>16. CASE QAFails
    BY <2>16, EndedType DEF QAFails, AgentFails, RunAgent
  <2>17. CASE ReleaseQA
    BY <2>17 DEF ReleaseQA, Write, SetAgent
  <2>18. CASE CloseTask
    BY <2>18 DEF CloseTask, Write, SetStatus, Status, Closed
  <2>19. CASE ClearStrikes
    BY <2>19 DEF ClearStrikes, Write, SetAgent
  <2>20. CASE Commit
    BY <2>20 DEF Commit, CommitHolding, Documents, ClosedTasks
  <2>21. CASE NothingStaged \/ CommitFails
    BY <2>21 DEF NothingStaged, CommitFails
  <2>22. CASE LogFailure
    BY <2>22 DEF LogFailure, Write, Record
  <2>23. CASE ReopenTask
    BY <2>23 DEF ReopenTask, Write, SetStatus, Status, Waiting
  <2>24. CASE AddStrike
    BY <2>24 DEF AddStrike, Write, SetAgent
  <2>25. CASE Touch
    BY <2>25 DEF Touch, Write
  <2>26. CASE NextIteration
    BY <2>26 DEF NextIteration
  <2>27. CASE Finish
    BY <2>27, EndedType DEF Finish, SetRunning
  <2>28. CASE Interrupt
    BY <2>28 DEF Interrupt
  <2>29. CASE Crash
    BY <2>29, EndedType DEF Crash
  <2>30. CASE PersonCommits
    BY <2>30 DEF PersonCommits, Documents
  <2>31. CASE PersonStashes
    BY <2>31 DEF PersonStashes
  <2>32. ASSUME NEW p \in Phases, PersonAcceptsPhase(p) PROVE TypeInv'
    BY <2>32 DEF PersonAcceptsPhase
  <2>33. CASE UNCHANGED vars
    BY <2>33 DEF vars
  <2>34. QED
    BY <2>1, <2>2, <2>3, <2>4, <2>5, <2>6, <2>7, <2>8, <2>9, <2>10, <2>11, <2>12,
       <2>13, <2>14, <2>15, <2>16, <2>17, <2>18, <2>19, <2>20, <2>21, <2>22, <2>23,
       <2>24, <2>25, <2>26, <2>27, <2>28, <2>29, <2>30, <2>31, <2>32, <2>33
    DEF Next, Run, Iterate, Person
<1>3. QED
  BY <1>1, <1>2, PTL DEF Spec

-----------------------------------------------------------------------------
(* The inductive invariant.  What keeps stray work out of a commit is not   *)
(* the commit, which takes everything, but what the tree can hold when it   *)
(* is made: the run started from a clean tree, so HEAD and the queue agree  *)
(* on what is closed, but for the tasks whose own commit was missed; and    *)
(* edits that a failed attempt left behind belong to the task that the next *)
(* iteration selects again, because failing changes neither the tasks that  *)
(* may run nor their order.                                                 *)

AtWork == {"claim_agent", "claim_task", "claim_loop", "worker", "log_blocked",
           "block_task", "implemented", "claim_qa", "qa", "release_qa",
           "close_task", "log_failure", "reopen_task"}
Reopened == {"release_blocked", "add_strike"}
Closing == {"clear_strikes", "commit"}
Between == {"select", "touch", "next"}

\* The task would be selected (again) if it were open.
Restored(t) == [status EXCEPT ![t] = "OPEN"]
WouldBeSelected(t) == IsFirst(t, Unblocked(Restored(t), done))

HeadInSync ==
    /\ ClosedTasks(status) = ClosedTasks(head.status) \cup missed
    /\ missed \cap ClosedTasks(head.status) = {}

WorkInv ==
    /\ pc \in AtWork \cup Reopened => status[task] \notin Closed /\ WouldBeSelected(task)
    /\ pc \in Reopened => status[task] \in Waiting
    /\ pc = "commit" => mode = "commit"
    /\ pc \in {"stopped", "preflight", "announce"} => missed = {}

CommitInv ==
    mode = "commit" =>
        /\ pc = "announce" => ~unsaved /\ edits = {}
        /\ pc \in Between =>
              /\ HeadInSync
              /\ edits \subseteq missed \/ ( /\ edits \subseteq missed \cup {task}
                                            /\ status[task] \in Waiting
                                            /\ WouldBeSelected(task) )
        /\ pc \in AtWork \cup Reopened => HeadInSync /\ edits \subseteq missed \cup {task}
        /\ pc \in Closing =>
              /\ task \notin ClosedTasks(head.status) \cup missed
              /\ ClosedTasks(status) = ClosedTasks(head.status) \cup missed \cup {task}
              /\ missed \cap ClosedTasks(head.status) = {}
              /\ edits \subseteq missed \cup {task}

HeadInv ==
    /\ ClosedTasks(head.status) \subseteq ClosedTasks(status)
    /\ ~unsaved => head.status = status

IInv == WorkInv /\ CommitInv /\ HeadInv /\ AcceptedWorkIsInHead /\ NoStrayWorkInCommit

\* A step that leaves queue, phases and task alone leaves the selection alone.
LEMMA SelectionKept ==
    ASSUME UNCHANGED <<status, done, task>>
    PROVE  /\ WouldBeSelected(task)' <=> WouldBeSelected(task)
           /\ ClosedTasks(status)' = ClosedTasks(status)
           /\ status[task]' = status[task]
BY DEF WouldBeSelected, Restored, ClosedTasks, Unblocked, DependenciesClosed

LEMMA HeadKept ==
    ASSUME UNCHANGED head
    PROVE  ClosedTasks(head.status)' = ClosedTasks(head.status)
BY DEF ClosedTasks

\* Moving the task at hand between two statuses that are not closed changes
\* neither what is closed nor what would be selected if the task were open.
LEMMA StatusMoved ==
    ASSUME TypeOK, task \in Tasks, status[task] \notin Closed,
           NEW s \in Status \ Closed, SetStatus(task, s), UNCHANGED <<done, task>>
    PROVE  /\ WouldBeSelected(task)' <=> WouldBeSelected(task)
           /\ ClosedTasks(status)' = ClosedTasks(status)
           /\ status'[task'] = s
<1>1. [status' EXCEPT ![task] = "OPEN"] = [status EXCEPT ![task] = "OPEN"]
  BY DEF SetStatus, TypeOK
<1>2. status'[task] = s /\ \A t \in Tasks \ {task} : status'[t] = status[t]
  BY DEF SetStatus, TypeOK
<1>3. ClosedTasks(status') = ClosedTasks(status)
  BY <1>2 DEF ClosedTasks
<1>4. QED
  BY <1>1, <1>2, <1>3 DEF WouldBeSelected, Restored, ClosedTasks

\* A task that is open or blocked stands where it would stand if it were open.
LEMMA WaitingStandsAsOpen ==
    ASSUME TypeOK, task \in Tasks, status[task] \in Waiting, WouldBeSelected(task)
    PROVE  IsFirst(task, Unblocked(status, done))
<1> DEFINE r == Restored(task)
<1>1. r[task] = "OPEN" /\ \A t \in Tasks \ {task} : r[t] = status[t]
  BY DEF Restored, TypeOK
<1>2. Unblocked(r, done) = Unblocked(status, done)
  <2>1. \A t \in Tasks : r[t] \in Closed <=> status[t] \in Closed
    BY <1>1 DEF Closed, Accepted, Waiting
  <2>2. \A t \in Tasks : r[t] \in InFlight <=> status[t] \in InFlight
    BY <1>1 DEF InFlight, Waiting
  <2> HIDE DEF r
  <2>3. QED
    BY <2>1, <2>2, UnblockedDependsOnClasses
<1>3. QED
  BY <1>2 DEF WouldBeSelected

\* Choosing a task: it may run and is the first that may; a task whose failed
\* attempt left edits is the one that is chosen again.
LEMMA SelectStep ==
    ASSUME TypeInv, IInv, Select
    PROVE  IInv'
<1> USE DEF TypeInv, TypeOK
<1>1. ClosedTasks(status') = ClosedTasks(status)
      /\ Unblocked(status', done) = Unblocked(status, done)
  BY RefreshKeepsUnblocked DEF Select
<1>2. HeadInv' /\ AcceptedWorkIsInHead' /\ NoStrayWorkInCommit'
  BY <1>1 DEF Select, IInv, HeadInv, AcceptedWorkIsInHead, NoStrayWorkInCommit, ClosedTasks
<1>3. CASE Unblocked(status, done) = {}
  BY <1>2, <1>3 DEF Select, IInv, WorkInv, CommitInv, AtWork, Reopened, Closing, Between
<1>4. CASE Unblocked(status, done) # {}
  <2>1. IsFirst(task', Unblocked(status', done)) /\ task' \in Unblocked(status, done)
    BY <1>1, <1>4, SelectNextIsFirst DEF Select, IsFirst
  <2>2. status'[task'] = "OPEN" /\ task' \in Tasks /\ status' \in [Tasks -> Status]
    <3>1. task' \in Tasks
      BY <2>1 DEF Unblocked
    <3>2. status' = RefreshBlocked(status, done)
      BY DEF Select
    <3>3. status' \in [Tasks -> Status]
      BY <3>2, RefreshType
    <3>4. status'[task'] = "OPEN"
      BY <2>1, <3>2, RefreshKeepsUnblocked
    <3>5. QED
      BY <3>1, <3>3, <3>4
  <2>3. [status' EXCEPT ![task'] = "OPEN"] = status'
    BY <2>2
  <2>4. WouldBeSelected(task)'
    BY <2>1, <2>3 DEF WouldBeSelected, Restored, Select
  <2>5. status'[task'] \notin Closed
    BY <2>2 DEF Closed, Accepted
  <2>6. pc' \in {"halt", "finish", "claim_agent"}
    BY <1>4 DEF Select, Admit
  <2>7. WorkInv'
    BY <2>4, <2>5, <2>6 DEF WorkInv, Reopened
  <2>8. ASSUME mode = "commit" PROVE HeadInSync' /\ edits' \subseteq missed' \cup {task'}
    <3>1. HeadInSync /\ UNCHANGED <<head, edits, missed>>
      BY <2>8 DEF Select, IInv, CommitInv, Between
    <3>2. HeadInSync'
      BY <1>1, <3>1 DEF HeadInSync, ClosedTasks
    <3>3. CASE edits \subseteq missed
      BY <3>1, <3>2, <3>3
    <3>4. CASE ~(edits \subseteq missed)
      <4>1. /\ edits \subseteq missed \cup {task} /\ task \in edits
            /\ status[task] \in Waiting /\ WouldBeSelected(task)
        BY <2>8, <3>4 DEF Select, IInv, CommitInv, Between
      <4>2. IsFirst(task, Unblocked(status, done))
        BY <4>1, WaitingStandsAsOpen
      <4>3. task = task'
        <5>1. Unblocked(status, done) \in SUBSET Tasks
          BY DEF Unblocked
        <5>2. QED
          BY <1>1, <2>1, <4>2, <5>1, FirstIsUnique
      <4>4. QED
        BY <3>1, <3>2, <4>1, <4>3
    <3>5. QED
      BY <3>3, <3>4
  <2>9. CommitInv'
    BY <2>6, <2>8 DEF CommitInv, Select, AtWork, Reopened, Closing, Between
  <2>10. QED
    BY <1>2, <2>7, <2>9 DEF IInv
<1>5. QED
  BY <1>3, <1>4

\* An iteration that goes on with its task, whatever its agents edit.
LEMMA WorkGoesOn ==
    ASSUME TypeInv, IInv, pc \in AtWork, pc' \in AtWork \cup {"release_blocked"},
           UNCHANGED <<status, done, head, mode, task, missed, lastCommit>>,
           edits' \in {edits, edits \cup {task}}, unsaved => unsaved',
           pc' = "release_blocked" => status[task] \in Waiting
    PROVE  IInv'
<1> USE DEF TypeInv, TypeOK
<1>1. /\ WouldBeSelected(task)' <=> WouldBeSelected(task)
      /\ ClosedTasks(status)' = ClosedTasks(status)
      /\ ClosedTasks(head.status)' = ClosedTasks(head.status)
  BY SelectionKept, HeadKept
<1>2. task \in Tasks /\ status[task] \notin Closed /\ WouldBeSelected(task)
  BY DEF IInv, WorkInv, TaskAtWork, AtWork
<1>3. WorkInv'
  BY <1>1, <1>2 DEF WorkInv, AtWork, Reopened
<1>4. CommitInv'
  BY <1>1 DEF CommitInv, IInv, HeadInSync, AtWork, Reopened, Closing, Between
<1>5. HeadInv' /\ NoStrayWorkInCommit'
  BY <1>1 DEF IInv, HeadInv, NoStrayWorkInCommit
<1>6. head.status[task] \notin Accepted
  BY <1>2 DEF IInv, HeadInv, ClosedTasks, Closed
<1>7. AcceptedWorkIsInHead'
  BY <1>6 DEF IInv, AcceptedWorkIsInHead
<1>8. QED
  BY <1>3, <1>4, <1>5, <1>7 DEF IInv

\* An iteration that moves its task from one status that is not closed to
\* another.
LEMMA StatusStep ==
    ASSUME TypeInv, IInv, pc \in AtWork, pc' \in AtWork \cup Reopened,
           NEW s \in Status \ Closed, SetStatus(task, s),
           pc' \in Reopened => s \in Waiting,
           unsaved', UNCHANGED <<done, head, mode, task, edits, missed, lastCommit>>
    PROVE  IInv'
<1> USE DEF TypeInv
<1>1. task \in Tasks /\ status[task] \notin Closed /\ WouldBeSelected(task)
  BY DEF IInv, WorkInv, TaskAtWork, AtWork
<1>2. /\ WouldBeSelected(task)' <=> WouldBeSelected(task)
      /\ ClosedTasks(status)' = ClosedTasks(status)
      /\ status'[task] = s
  BY <1>1, StatusMoved
<1>3. ClosedTasks(head.status)' = ClosedTasks(head.status)
  BY HeadKept
<1>4. WorkInv'
  BY <1>1, <1>2 DEF WorkInv, AtWork, Reopened
<1>5. CommitInv'
  BY <1>2, <1>3 DEF CommitInv, IInv, HeadInSync, AtWork, Reopened, Closing, Between
<1>6. HeadInv' /\ NoStrayWorkInCommit' /\ AcceptedWorkIsInHead'
  BY <1>2, <1>3 DEF IInv, HeadInv, NoStrayWorkInCommit, AcceptedWorkIsInHead
<1>7. QED
  BY <1>4, <1>5, <1>6 DEF IInv

\* The process stops or is about to: what holds of its task no longer matters.
LEMMA WorkEnds ==
    ASSUME IInv, pc' \in {"stopped", "preflight", "halt", "finish"},
           UNCHANGED <<status, head, lastCommit>>,
           edits' \subseteq edits, unsaved => unsaved',
           pc' \in {"stopped", "preflight"} => missed' = {}
    PROVE  IInv'
<1>1. ClosedTasks(status)' = ClosedTasks(status)
      /\ ClosedTasks(head.status)' = ClosedTasks(head.status)
  BY DEF ClosedTasks
<1>2. WorkInv' /\ CommitInv'
  BY DEF WorkInv, CommitInv, AtWork, Reopened, Closing, Between
<1>3. HeadInv' /\ NoStrayWorkInCommit' /\ AcceptedWorkIsInHead'
  BY <1>1 DEF IInv, HeadInv, NoStrayWorkInCommit, AcceptedWorkIsInHead
<1>4. QED
  BY <1>2, <1>3 DEF IInv

\* The iteration leaves its task and goes on to the next.
LEMMA IterationEnds ==
    ASSUME IInv, pc \in Reopened \cup Between \cup {"clear_strikes"}, pc' \in Between,
           pc = "clear_strikes" => mode # "commit",
           UNCHANGED <<status, done, head, mode, task, edits, missed, lastCommit>>,
           unsaved => unsaved'
    PROVE  IInv'
<1>1. /\ WouldBeSelected(task)' <=> WouldBeSelected(task)
      /\ ClosedTasks(status)' = ClosedTasks(status)
      /\ ClosedTasks(head.status)' = ClosedTasks(head.status)
  BY SelectionKept, HeadKept
<1>2. WorkInv'
  BY DEF WorkInv, AtWork, Reopened, Between
<1>3. CommitInv'
  <2>1. ASSUME mode = "commit"
        PROVE  /\ HeadInSync
               /\ edits \subseteq missed \/ ( /\ edits \subseteq missed \cup {task}
                                             /\ status[task] \in Waiting
                                             /\ WouldBeSelected(task) )
    <3>1. CASE pc \in Between
      BY <2>1, <3>1 DEF IInv, CommitInv
    <3>2. CASE pc \in Reopened
      BY <2>1, <3>2 DEF IInv, CommitInv, WorkInv
    <3>3. QED
      BY <2>1, <3>1, <3>2
  <2>2. QED
    BY <1>1, <2>1 DEF CommitInv, HeadInSync, AtWork, Reopened, Closing, Between
<1>4. HeadInv' /\ NoStrayWorkInCommit' /\ AcceptedWorkIsInHead'
  BY <1>1 DEF IInv, HeadInv, NoStrayWorkInCommit, AcceptedWorkIsInHead
<1>5. QED
  BY <1>2, <1>3, <1>4 DEF IInv

LEMMA InitIInv == Init => IInv
BY DEF Init, IInv, WorkInv, CommitInv, HeadInv, AcceptedWorkIsInHead, NoStrayWorkInCommit,
       AtWork, Reopened, Closing, Between, NoCommit, Documents

LEMMA NextIInv == TypeInv /\ IInv /\ [Next]_vars => IInv'
<1> SUFFICES ASSUME TypeInv, IInv, [Next]_vars PROVE IInv'
  OBVIOUS
<1> USE DEF disk, tree, proc, history
<1>1. ASSUME NEW m \in Modes, Start(m) PROVE IInv'
  BY <1>1, WorkEnds DEF Start, IInv, WorkInv
<1>2. CASE Preflight
  <2>1. CASE pc' = "halt"
    BY <1>2, <2>1, WorkEnds DEF Preflight
  <2>2. CASE pc' = "announce"
    <3>1. mode = "commit" => ~unsaved /\ edits = {}
      BY <1>2, <2>2 DEF Preflight, Dirty
    <3>2. WorkInv' /\ CommitInv'
      BY <1>2, <2>2, <3>1
      DEF Preflight, IInv, WorkInv, CommitInv, AtWork, Reopened, Closing, Between
    <3>3. HeadInv' /\ AcceptedWorkIsInHead' /\ NoStrayWorkInCommit'
      BY <1>2 DEF Preflight, IInv, HeadInv, AcceptedWorkIsInHead, NoStrayWorkInCommit,
         ClosedTasks
    <3>4. QED
      BY <3>2, <3>3 DEF IInv
  <2>3. QED
    BY <1>2, <2>1, <2>2 DEF Preflight
<1>3. CASE Announce
  <2>1. WorkInv'
    BY <1>3 DEF Announce, WorkInv, AtWork, Reopened
  <2>2. missed' = {} /\ (mode = "commit" => head.status = status /\ edits = {})
    BY <1>3 DEF Announce, IInv, WorkInv, CommitInv, HeadInv
  <2>3. CommitInv'
    BY <1>3, <2>2
    DEF Announce, CommitInv, HeadInSync, ClosedTasks, AtWork, Reopened, Closing, Between
  <2>4. HeadInv' /\ AcceptedWorkIsInHead' /\ NoStrayWorkInCommit'
    BY <1>3 DEF Announce, SetRunning, IInv, HeadInv, AcceptedWorkIsInHead,
                NoStrayWorkInCommit, ClosedTasks
  <2>5. QED
    BY <2>1, <2>3, <2>4 DEF IInv
<1>4. CASE Select
  BY <1>4, SelectStep
<1>5. CASE ClaimAgent
  BY <1>5, WorkGoesOn DEF ClaimAgent, Write, AtWork
<1>6. CASE ClaimTask
  BY <1>6, StatusStep DEF ClaimTask, Write, AtWork, Reopened, Status, InFlight, Closed,
     Accepted
<1>7. CASE ClaimLoop
  BY <1>7, WorkGoesOn DEF ClaimLoop, Write, AtWork
<1>8. ASSUME NEW r \in WorkerReplies, WorkerAnswers(r) PROVE IInv'
  BY <1>8, WorkGoesOn DEF WorkerAnswers, AgentAnswers, RunAgent, AtWork
<1>9. ASSUME NEW a, NEW from \in {"worker", "qa"}, AgentFails(a, from) PROVE IInv'
  <2>1. task \in Tasks /\ status[task] \notin Closed
    BY <1>9 DEF AgentFails, RunAgent, TypeInv, TaskAtWork, IInv, WorkInv, AtWork
  <2>2. head.status[task] \notin Accepted
    BY <2>1 DEF IInv, HeadInv, ClosedTasks, Closed
  <2>3. AcceptedWorkIsInHead'
    BY <1>9, <2>2 DEF AgentFails, RunAgent, IInv, AcceptedWorkIsInHead
  <2>4. pc' = "halt" \/ (pc' = "stopped" /\ missed' = {})
    BY <1>9 DEF AgentFails, ProcessEnds
  <2>5. WorkInv' /\ CommitInv'
    BY <2>4 DEF WorkInv, CommitInv, AtWork, Reopened, Closing, Between
  <2>6. HeadInv' /\ NoStrayWorkInCommit'
    BY <1>9 DEF AgentFails, RunAgent, IInv, HeadInv, NoStrayWorkInCommit, ClosedTasks
  <2>7. QED
    BY <2>3, <2>5, <2>6 DEF IInv
<1>10. CASE WorkerFails
  BY <1>9, <1>10 DEF WorkerFails
<1>11. CASE LogBlocked
  BY <1>11, WorkGoesOn DEF LogBlocked, Write, AtWork
<1>12. CASE BlockTask
  BY <1>12, StatusStep
  DEF BlockTask, Write, AtWork, Reopened, Status, Waiting, Closed, Accepted
<1>13. CASE ReleaseBlocked
  BY <1>13, IterationEnds DEF ReleaseBlocked, Write, Reopened, Between
<1>14. CASE MarkImplemented
  BY <1>14, StatusStep
  DEF MarkImplemented, Write, AtWork, Reopened, Status, InFlight, Closed, Accepted
<1>15. CASE ClaimQA
  BY <1>15, WorkGoesOn DEF ClaimQA, Write, AtWork
<1>16. ASSUME NEW v \in Verdicts, QAAnswers(v) PROVE IInv'
  BY <1>16, WorkGoesOn DEF QAAnswers, AgentAnswers, RunAgent, AtWork
<1>17. CASE QAFails
  BY <1>9, <1>17 DEF QAFails
<1>18. CASE ReleaseQA
  BY <1>18, WorkGoesOn DEF ReleaseQA, Write, AtWork
<1>19. CASE CloseTask
  <2>1. task \in Tasks /\ reply \in Closed /\ status \in [Tasks -> Status]
    BY <1>19 DEF CloseTask, Write, TypeInv, TypeOK, TaskAtWork, ReplyAtWork, Closed
  <2>2. status'[task] = reply /\ \A t \in Tasks \ {task} : status'[t] = status[t]
    BY <1>19, <2>1 DEF CloseTask, SetStatus
  <2>3. ClosedTasks(status') = ClosedTasks(status) \cup {task}
    BY <2>1, <2>2 DEF ClosedTasks
  <2>4. task \notin ClosedTasks(status)
    BY <1>19 DEF CloseTask, Write, IInv, WorkInv, AtWork, ClosedTasks
  <2>5. WorkInv'
    BY <1>19 DEF CloseTask, Write, WorkInv, AtWork, Reopened
  <2>6. CommitInv'
    BY <1>19, <2>3, <2>4
    DEF CloseTask, Write, IInv, CommitInv, HeadInv, HeadInSync, ClosedTasks,
        AtWork, Reopened, Closing, Between
  <2>7. HeadInv' /\ AcceptedWorkIsInHead' /\ NoStrayWorkInCommit'
    BY <1>19, <2>3
    DEF CloseTask, Write, IInv, HeadInv, AcceptedWorkIsInHead, NoStrayWorkInCommit,
    ClosedTasks
  <2>8. QED
    BY <2>5, <2>6, <2>7 DEF IInv
<1>20. CASE ClearStrikes
  <2>1. CASE mode = "commit"
    <3>1. pc = "clear_strikes" /\ pc' = "commit" /\ unsaved'
          /\ UNCHANGED <<status, done, head, mode, task, edits, missed, lastCommit>>
      BY <1>20, <2>1 DEF ClearStrikes, Write
    <3>2. WorkInv'
      BY <2>1, <3>1 DEF WorkInv, AtWork, Reopened
    <3>3. CommitInv'
      BY <3>1
      DEF IInv, CommitInv, ClosedTasks, AtWork, Reopened, Closing, Between
    <3>4. HeadInv' /\ AcceptedWorkIsInHead' /\ NoStrayWorkInCommit'
      BY <3>1 DEF IInv, HeadInv, AcceptedWorkIsInHead, NoStrayWorkInCommit, ClosedTasks
    <3>5. QED
      BY <3>2, <3>3, <3>4 DEF IInv
  <2>2. CASE mode # "commit"
    BY <1>20, <2>2, IterationEnds DEF ClearStrikes, Write, Between
  <2>3. QED
    BY <2>1, <2>2
<1>21. CASE Commit
  <2>1. mode = "commit" /\ task \in Tasks
    BY <1>21 DEF Commit, CommitHolding, IInv, WorkInv, TypeInv, TaskAtWork
  <2>2. head'.status = status /\ status' = status /\ edits' = {} /\ missed' = {}
    BY <1>21 DEF Commit, CommitHolding, Documents
  <2>3. WorkInv' /\ CommitInv'
    BY <1>21, <2>2
    DEF Commit, CommitHolding, WorkInv, CommitInv, HeadInSync, ClosedTasks,
        AtWork, Reopened, Closing, Between
  <2>4. /\ ClosedTasks(status) \ ClosedTasks(head.status) = {task} \cup missed
        /\ edits \subseteq {task} \cup missed
    BY <1>21, <2>1 DEF Commit, CommitHolding, IInv, CommitInv, Closing
  <2>5. NoStrayWorkInCommit'
    BY <1>21, <2>4 DEF Commit, CommitHolding, NoStrayWorkInCommit
  <2>6. HeadInv' /\ AcceptedWorkIsInHead'
    BY <2>2 DEF HeadInv, AcceptedWorkIsInHead
  <2>7. QED
    BY <2>3, <2>5, <2>6 DEF IInv
<1>22. CASE CommitFails
  BY <1>22, WorkEnds DEF CommitFails
<1>22a. CASE NothingStaged
  <2>1. /\ pc = "commit" /\ pc' = "touch" /\ missed' = missed \cup {task}
        /\ UNCHANGED <<status, head, edits, unsaved, mode, task, done, lastCommit>>
    BY <1>22a DEF NothingStaged
  <2>2. /\ ClosedTasks(status)' = ClosedTasks(status)
        /\ ClosedTasks(head.status)' = ClosedTasks(head.status)
    BY <2>1 DEF ClosedTasks
  <2>3. WorkInv'
    BY <2>1 DEF WorkInv, AtWork, Reopened
  <2>4. mode = "commit" => HeadInSync' /\ edits' \subseteq missed'
    BY <2>1, <2>2 DEF IInv, CommitInv, HeadInSync, Closing
  <2>5. CommitInv'
    BY <2>1, <2>4 DEF CommitInv, AtWork, Reopened, Closing, Between
  <2>6. HeadInv' /\ AcceptedWorkIsInHead' /\ NoStrayWorkInCommit'
    BY <2>1, <2>2 DEF IInv, HeadInv, AcceptedWorkIsInHead, NoStrayWorkInCommit
  <2>7. QED
    BY <2>3, <2>5, <2>6 DEF IInv
<1>23. CASE LogFailure
  BY <1>23, WorkGoesOn DEF LogFailure, Write, AtWork
<1>24. CASE ReopenTask
  BY <1>24, StatusStep
  DEF ReopenTask, Write, AtWork, Reopened, Status, Waiting, Closed, Accepted
<1>25. CASE AddStrike
  BY <1>25, IterationEnds DEF AddStrike, Write, Reopened, Between
<1>26. CASE Touch
  BY <1>26, IterationEnds DEF Touch, Write, Between
<1>27. CASE NextIteration
  <2>1. CASE pc' = "select"
    BY <1>27, <2>1, IterationEnds DEF NextIteration, Between
  <2>2. CASE pc' = "finish"
    BY <1>27, <2>2, WorkEnds DEF NextIteration
  <2>3. QED
    BY <1>27, <2>1, <2>2 DEF NextIteration
<1>28. CASE Finish
  BY <1>28, WorkEnds DEF Finish, SetRunning, ProcessEnds
<1>29. CASE Interrupt
  BY <1>29, WorkEnds DEF Interrupt
<1>30. CASE Crash
  <2>1. unsaved' \in {unsaved, TRUE} /\ missed' = {}
    BY <1>30 DEF Crash, ProcessEnds
  <2>2. unsaved => unsaved'
    BY <2>1, Zenon
  <2>3. pc' = "stopped" /\ UNCHANGED <<status, head, lastCommit, edits>>
    BY <1>30 DEF Crash, ProcessEnds
  <2>4. QED
    BY <2>1, <2>2, <2>3, WorkEnds
<1>31. CASE PersonCommits
  <2>1. pc' = "stopped" /\ status' = status /\ head'.status = status /\ edits' = {}
        /\ lastCommit' = lastCommit /\ missed' = {}
    BY <1>31 DEF PersonCommits, Documents, IInv, WorkInv
  <2>2. WorkInv' /\ CommitInv'
    BY <2>1 DEF WorkInv, CommitInv, AtWork, Reopened, Closing, Between
  <2>3. HeadInv' /\ AcceptedWorkIsInHead' /\ NoStrayWorkInCommit'
    BY <2>1 DEF IInv, HeadInv, AcceptedWorkIsInHead, NoStrayWorkInCommit
  <2>4. QED
    BY <2>2, <2>3 DEF IInv
<1>32. CASE PersonStashes
  <2>1. pc' = "stopped" /\ status' = head.status /\ head' = head /\ edits' = {}
        /\ lastCommit' = lastCommit /\ missed' = {}
    BY <1>32 DEF PersonStashes, IInv, WorkInv
  <2>2. WorkInv' /\ CommitInv'
    BY <2>1 DEF WorkInv, CommitInv, AtWork, Reopened, Closing, Between
  <2>3. HeadInv' /\ AcceptedWorkIsInHead' /\ NoStrayWorkInCommit'
    BY <2>1 DEF IInv, HeadInv, AcceptedWorkIsInHead, NoStrayWorkInCommit
  <2>4. QED
    BY <2>2, <2>3 DEF IInv
<1>33. ASSUME NEW p \in Phases, PersonAcceptsPhase(p) PROVE IInv'
  BY <1>33, WorkEnds DEF PersonAcceptsPhase, IInv, WorkInv
<1>34. CASE UNCHANGED vars
  <2>1. UNCHANGED <<status, done, head, mode, task, edits, missed, lastCommit, pc, unsaved>>
    BY <1>34 DEF vars
  <2>2. /\ WouldBeSelected(task)' <=> WouldBeSelected(task)
        /\ ClosedTasks(status)' = ClosedTasks(status)
        /\ ClosedTasks(head.status)' = ClosedTasks(head.status)
    BY <2>1, SelectionKept, HeadKept
  <2>3. QED
    BY <2>1, <2>2 DEF IInv, WorkInv, CommitInv, HeadInv, HeadInSync,
                      AcceptedWorkIsInHead, NoStrayWorkInCommit
<1>35. QED
  BY <1>1, <1>2, <1>3, <1>4, <1>5, <1>6, <1>7, <1>8, <1>10, <1>11, <1>12, <1>13, <1>14,
     <1>15, <1>16, <1>17, <1>18, <1>19, <1>20, <1>21, <1>22, <1>23, <1>24, <1>25, <1>26,
     <1>27, <1>28, <1>29, <1>30, <1>31, <1>32, <1>33, <1>34, <1>22a
  DEF Next, Run, Iterate, Person

\* The conjunction that is inductive: types, and what is in the working tree and
\* not in HEAD belongs to the task the loop is at work on.
THEOREM InductiveInvariant == Spec => []IInv
<1>1. QED
  BY TypeCorrect, InitIInv, NextIInv, PTL DEF Spec

\* A commit of the loop closes its own task and those the same run accepted and
\* failed to stage, and holds the edits of no other: for every queue and every
\* sequence of failures and restarts.
THEOREM CommitsHoldNoStrayWork == Spec => []NoStrayWorkInCommit
<1>1. IInv => NoStrayWorkInCommit
  BY DEF IInv
<1>2. QED
  BY <1>1, InductiveInvariant, PTL

\* HEAD never calls a task accepted whose source edits it does not hold.
THEOREM HeadHoldsAcceptedWork == Spec => []AcceptedWorkIsInHead
<1>1. IInv => AcceptedWorkIsInHead
  BY DEF IInv
<1>2. QED
  BY <1>1, InductiveInvariant, PTL

\* The types of all variables hold in every reachable state.
THEOREM TypesHold == Spec => []TypeOK
<1>1. TypeInv => TypeOK
  BY DEF TypeInv
<1>2. QED
  BY <1>1, TypeCorrect, PTL

-----------------------------------------------------------------------------
(* The build order: what is closed stays closed and what is unlocked stays *)
(* unlocked, but for a stash, which goes back to a state of which the same *)
(* holds.                                                                  *)

Admissible(t, s, d) == DependenciesClosed(t, s) /\ PhaseUnlocked(PhaseOf[t], d)

OrderInv ==
    /\ \A a \in Agents : working[a] # None => Admissible(working[a], status, done)
    /\ \A a \in Agents : head.working[a] # None => Admissible(head.working[a], head.status, head.done)

LEMMA AdmissibleStays ==
    ASSUME NEW t \in Tasks, NEW s, NEW u, NEW d, NEW e,
           ClosedTasks(s) \subseteq ClosedTasks(u), d \subseteq e, Admissible(t, s, d)
    PROVE  Admissible(t, u, e)
<1> DEFINE p == PhaseOf[t]
<1>1. p \in Nat /\ Phases \subseteq Nat
  BY QueueAssumption
<1> HIDE DEF p
<1>2. DependenciesClosed(t, u)
  BY DEF Admissible, DependenciesClosed
<1>3. PhaseUnlocked(p, d)
  BY DEF Admissible, p
<1>4. PhaseUnlocked(p, e)
  <2>1. CASE Phases \subseteq d
    BY <1>3, <2>1 DEF PhaseUnlocked
  <2>2. CASE ~(Phases \subseteq d) /\ Phases \subseteq e
    <3>1. PICK q \in Phases : q \notin d
      BY <2>2
    <3>2. p <= q
      BY <1>3, <2>2, <3>1 DEF PhaseUnlocked
    <3>3. QED
      BY <2>2, <3>1, <3>2 DEF PhaseUnlocked
  <2>3. CASE ~(Phases \subseteq d) /\ ~(Phases \subseteq e)
    BY <1>3, <2>3 DEF PhaseUnlocked
  <2>4. QED
    BY <2>1, <2>2, <2>3
<1>5. QED
  BY <1>2, <1>4 DEF Admissible, p

\* The task of an iteration may be worked on.
LEMMA TaskIsAdmissible ==
    ASSUME TypeInv, IInv, pc \in AtWork
    PROVE  task \in Tasks /\ status[task] \notin Closed /\ Admissible(task, status, done)
<1>1. task \in Tasks /\ status[task] \notin Closed /\ WouldBeSelected(task)
  BY DEF IInv, WorkInv, TypeInv, TaskAtWork, AtWork
<1>2. DependenciesClosed(task, Restored(task)) /\ PhaseUnlocked(PhaseOf[task], done)
  BY <1>1 DEF WouldBeSelected, IsFirst, Unblocked
<1>3. ClosedTasks(Restored(task)) \subseteq ClosedTasks(status)
  BY <1>1 DEF Restored, ClosedTasks, TypeInv, TypeOK, Closed, Accepted
<1>4. QED
  BY <1>1, <1>2, <1>3 DEF Admissible, DependenciesClosed

\* Every step but a stash keeps what is closed and what is done.
LEMMA ClosedGrows ==
    ASSUME TypeInv, IInv, [Next]_vars, ~PersonStashes
    PROVE  ClosedTasks(status) \subseteq ClosedTasks(status') /\ done \subseteq done'
<1> USE DEF disk, tree, proc, history, RunAgent
<1>1. CASE UNCHANGED <<status, done>>
  BY <1>1
<1>2. CASE Select
  BY <1>2, RefreshKeepsUnblocked DEF Select, TypeInv, TypeOK
<1>3. CASE ClaimTask \/ BlockTask \/ MarkImplemented \/ CloseTask \/ ReopenTask
  <2>1. pc \in AtWork /\ done' = done /\ \E s : SetStatus(task, s)
    BY <1>3 DEF ClaimTask, BlockTask, MarkImplemented, CloseTask, ReopenTask, Write, AtWork
  <2>2. task \in Tasks /\ status[task] \notin Closed
    BY <2>1, TaskIsAdmissible
  <2>3. QED
    BY <2>1, <2>2 DEF SetStatus, ClosedTasks, TypeInv, TypeOK
<1>4. ASSUME NEW p \in Phases, PersonAcceptsPhase(p)
      PROVE  status' = status /\ done \subseteq done'
  BY <1>4 DEF PersonAcceptsPhase
<1>5. CASE \E p \in Phases : PersonAcceptsPhase(p)
  BY <1>4, <1>5
<1>6. CASE Preflight \/ Announce \/ ClaimAgent \/ ClaimLoop \/ WorkerFails \/ LogBlocked
           \/ ReleaseBlocked \/ ClaimQA \/ QAFails \/ ReleaseQA
  BY <1>1, <1>6 DEF Preflight, Announce, ClaimAgent, ClaimLoop, WorkerFails, LogBlocked,
     ReleaseBlocked, ClaimQA, QAFails, ReleaseQA, AgentFails
<1>7. CASE ClearStrikes \/ Commit \/ NothingStaged \/ CommitFails \/ LogFailure
           \/ AddStrike \/ Touch
           \/ NextIteration \/ Finish \/ Interrupt \/ Crash \/ PersonCommits
           \/ UNCHANGED vars
  BY <1>1, <1>7 DEF ClearStrikes, Commit, CommitHolding, NothingStaged, CommitFails,
     LogFailure, AddStrike, Touch,
     NextIteration, Finish, Interrupt, Crash, PersonCommits, vars
<1>8. CASE (\E m \in Modes : Start(m)) \/ (\E r \in WorkerReplies : WorkerAnswers(r))
           \/ (\E v \in Verdicts : QAAnswers(v))
  BY <1>1, <1>8 DEF Start, WorkerAnswers, QAAnswers, AgentAnswers
<1>9. QED
  BY <1>2, <1>3, <1>5, <1>6, <1>7, <1>8 DEF Next, Run, Iterate, Person

\* An agent starts only on the task of the iteration.
LEMMA WorkingMoves ==
    ASSUME TypeInv, [Next]_vars, ~PersonStashes
    PROVE  \/ working' = working
           \/ \E a \in Agents : working' = [working EXCEPT ![a] = None]
           \/ pc \in AtWork /\ \E a \in Agents : working' = [working EXCEPT ![a] = task]
<1> USE DEF disk, tree, proc, history, RunAgent, SetAgent
<1>1. CASE UNCHANGED working
  BY <1>1
<1>2. CASE ClaimAgent \/ ClaimQA
  <2>1. pc \in AtWork /\ task \in Tasks
    BY <1>2 DEF ClaimAgent, ClaimQA, Write, AtWork, TypeInv, TaskAtWork
  <2>2. Owner[task] \in Agents /\ QA \in Agents
    BY <2>1, ConstantTypes
  <2>3. QED
    BY <1>2, <2>1, <2>2 DEF ClaimAgent, ClaimQA
<1>3. CASE ReleaseBlocked \/ ReleaseQA \/ ClearStrikes \/ AddStrike
  <2>1. task \in Tasks
    BY <1>3 DEF ReleaseBlocked, ReleaseQA, ClearStrikes, AddStrike, Write, TypeInv,
       TaskAtWork
  <2>2. Owner[task] \in Agents /\ QA \in Agents
    BY <2>1, ConstantTypes
  <2>3. QED
    BY <1>3, <2>2 DEF ReleaseBlocked, ReleaseQA, ClearStrikes, AddStrike
<1>4. CASE Preflight \/ Announce \/ Select \/ ClaimTask \/ ClaimLoop \/ WorkerFails
           \/ LogBlocked
           \/ BlockTask \/ MarkImplemented \/ QAFails \/ CloseTask
  BY <1>1, <1>4 DEF Preflight, Announce, Select, ClaimTask, ClaimLoop, WorkerFails,
     LogBlocked,
     BlockTask, MarkImplemented, QAFails, CloseTask, AgentFails
<1>5. CASE Commit \/ NothingStaged \/ CommitFails \/ LogFailure \/ ReopenTask \/ Touch
           \/ NextIteration \/ Finish
           \/ Interrupt \/ Crash \/ PersonCommits \/ UNCHANGED vars
  BY <1>1, <1>5 DEF Commit, CommitHolding, NothingStaged, CommitFails, LogFailure,
     ReopenTask, Touch, NextIteration, Finish,
     Interrupt, Crash, PersonCommits, vars
<1>6. CASE (\E m \in Modes : Start(m)) \/ (\E r \in WorkerReplies : WorkerAnswers(r))
           \/ (\E v \in Verdicts : QAAnswers(v))
           \/ (\E p \in Phases : PersonAcceptsPhase(p))
  BY <1>1, <1>6 DEF Start, WorkerAnswers, QAAnswers, AgentAnswers, PersonAcceptsPhase
<1>7. QED
  BY <1>2, <1>3, <1>4, <1>5, <1>6 DEF Next, Run, Iterate, Person

\* HEAD changes only to what the documents say.
LEMMA HeadMoves ==
    ASSUME [Next]_vars
    PROVE  head' = head \/ (head' = Documents /\ UNCHANGED disk)
<1> USE DEF disk, tree, proc, history, RunAgent
<1>1. CASE UNCHANGED head
  BY <1>1
<1>2. CASE Commit \/ PersonCommits
  BY <1>2 DEF Commit, CommitHolding, PersonCommits
<1>3. CASE Preflight \/ Announce \/ Select \/ ClaimAgent \/ ClaimTask \/ ClaimLoop
           \/ WorkerFails
           \/ LogBlocked \/ BlockTask \/ ReleaseBlocked \/ MarkImplemented \/ ClaimQA
           \/ QAFails
  BY <1>1, <1>3 DEF Preflight, Announce, Select, ClaimAgent, ClaimTask, ClaimLoop,
     WorkerFails,
     LogBlocked, BlockTask, ReleaseBlocked, MarkImplemented, ClaimQA, QAFails,
     AgentFails, Write
<1>4. CASE ReleaseQA \/ CloseTask \/ ClearStrikes \/ NothingStaged \/ CommitFails
           \/ LogFailure \/ ReopenTask
           \/ AddStrike \/ Touch \/ NextIteration \/ Finish \/ Interrupt \/ Crash
           \/ PersonStashes \/ UNCHANGED vars
  BY <1>1, <1>4 DEF ReleaseQA, CloseTask, ClearStrikes, NothingStaged, CommitFails,
     LogFailure, ReopenTask,
     AddStrike, Touch, NextIteration, Finish, Interrupt, Crash, PersonStashes, Write, vars
<1>5. CASE (\E m \in Modes : Start(m)) \/ (\E r \in WorkerReplies : WorkerAnswers(r))
           \/ (\E v \in Verdicts : QAAnswers(v))
           \/ (\E p \in Phases : PersonAcceptsPhase(p))
  BY <1>1, <1>5 DEF Start, WorkerAnswers, QAAnswers, AgentAnswers, PersonAcceptsPhase
<1>6. QED
  BY <1>2, <1>3, <1>4, <1>5 DEF Next, Run, Iterate, Person

LEMMA OrderStep == TypeInv /\ IInv /\ OrderInv /\ [Next]_vars => OrderInv'
<1> SUFFICES ASSUME TypeInv, IInv, OrderInv, [Next]_vars PROVE OrderInv'
  OBVIOUS
<1>1. CASE PersonStashes
  BY <1>1 DEF PersonStashes, OrderInv
<1>2. CASE ~PersonStashes
  <2>1. ClosedTasks(status) \subseteq ClosedTasks(status') /\ done \subseteq done'
    BY <1>2, ClosedGrows
  <2>2. ASSUME NEW a \in Agents, working'[a] # None
        PROVE  working'[a] \in Tasks /\ Admissible(working'[a], status, done)
    <3>1. working \in [Agents -> Tasks \cup {None}]
      BY DEF TypeInv, TypeOK
    <3>2. \/ working'[a] = working[a] /\ working[a] # None
          \/ pc \in AtWork /\ working'[a] = task
      BY <1>2, <2>2, <3>1, WorkingMoves
    <3>3. QED
      BY <2>2, <3>1, <3>2, TaskIsAdmissible DEF OrderInv
  <2>3. \A a \in Agents : working'[a] # None => Admissible(working'[a], status', done')
    BY <2>1, <2>2, AdmissibleStays
  <2>4. CASE head' = head
    BY <2>3, <2>4 DEF OrderInv
  <2>5. CASE head' = Documents /\ UNCHANGED disk
    BY <2>3, <2>5 DEF OrderInv, Documents, disk
  <2>6. QED
    BY <2>4, <2>5, HeadMoves
<1>3. QED
  BY <1>1, <1>2

\* An agent is at work only on a task whose dependencies are closed and whose
\* phase is unlocked, for every queue and every sequence of crashes and stashes.
THEOREM BuildOrderIsRespected == Spec => []WorkRespectsBuildOrder
<1>1. Init => OrderInv
  BY DEF Init, OrderInv, Documents
<1>2. OrderInv => WorkRespectsBuildOrder
  BY DEF OrderInv, WorkRespectsBuildOrder, Admissible
<1>3. QED
  BY <1>1, <1>2, OrderStep, TypeCorrect, InductiveInvariant, PTL DEF Spec

-----------------------------------------------------------------------------
(* Strikes: the record comes first, and is never taken back but by a stash *)
(* that takes back the strike with it.                                     *)

Rejections(f, a) == {i \in DOMAIN f : f[i].kind = "rejected" /\ Owner[f[i].task] = a}

StrikeInv ==
    /\ \A a \in Agents : strikes[a] <= Cardinality(Rejections(failures, a))
    /\ \A a \in Agents : head.strikes[a] <= Cardinality(Rejections(head.failures, a))
    /\ pc \in {"reopen_task", "add_strike"} =>
          strikes[Owner[task]] + 1 <= Cardinality(Rejections(failures, Owner[task]))

\* A record that is appended counts for the owner of its task.
LEMMA RecordCounts ==
    ASSUME NEW f \in Seq(FailureRecord), NEW r \in FailureRecord, NEW a \in Agents
    PROVE  /\ Cardinality(Rejections(f, a)) \in Nat
           /\ Cardinality(Rejections(Append(f, r), a)) =
                 IF r.kind = "rejected" /\ Owner[r.task] = a
                 THEN Cardinality(Rejections(f, a)) + 1 ELSE Cardinality(Rejections(f, a))
<1> DEFINE n == Len(f)
           g == Append(f, r)
           S == Rejections(f, a)
<1>1. n \in Nat /\ DOMAIN f = 1..n /\ DOMAIN g = 1..(n + 1)
  OBVIOUS
<1>2. g[n + 1] = r /\ \A i \in 1..n : g[i] = f[i]
  OBVIOUS
<1>3. IsFiniteSet(S) /\ n + 1 \notin S
  <2>1. S \subseteq 1..n
    BY <1>1 DEF Rejections
  <2>2. IsFiniteSet(1..n)
    BY <1>1, FS_Interval
  <2>3. QED
    BY <1>1, <2>1, <2>2, FS_Subset
<1>4. Rejections(g,
a) = IF r.kind = "rejected" /\ Owner[r.task] = a THEN S \cup {n + 1} ELSE S
  BY <1>1, <1>2 DEF Rejections
<1> HIDE DEF S, g, n
<1>5. Cardinality(S) \in Nat /\ Cardinality(S \cup {n + 1}) = Cardinality(S) + 1
  BY <1>3, FS_CardinalityType, FS_AddElement
<1>6. QED
  BY <1>4, <1>5 DEF S, g

\* Steps that leave strikes, failures and HEAD alone.
LEMMA StrikesKept ==
    ASSUME StrikeInv, UNCHANGED <<strikes, failures>>,
           head' = head \/ head' = Documents,
           pc' \in {"reopen_task", "add_strike"} =>
               pc \in {"reopen_task", "add_strike"} /\ task' = task
    PROVE  StrikeInv'
<1>1. \A a \in Agents : strikes'[a] <= Cardinality(Rejections(failures', a))
  BY DEF StrikeInv
<1>2. \A a \in Agents : head'.strikes[a] <= Cardinality(Rejections(head'.failures, a))
  <2>1. CASE head' = head
    BY <2>1 DEF StrikeInv
  <2>2. CASE head' = Documents
    <3>1. head'.strikes = strikes /\ head'.failures = failures
      BY <2>2 DEF Documents
    <3>2. QED
      BY <3>1 DEF StrikeInv
  <2>3. QED
    BY <2>1, <2>2
<1>3. pc' \in {"reopen_task", "add_strike"} =>
         strikes'[Owner[task']] + 1 <= Cardinality(Rejections(failures', Owner[task']))
  BY DEF StrikeInv
<1>4. QED
  BY <1>1, <1>2, <1>3 DEF StrikeInv

LEMMA StrikeStep == TypeInv /\ StrikeInv /\ [Next]_vars => StrikeInv'
<1> SUFFICES ASSUME TypeInv, StrikeInv, [Next]_vars PROVE StrikeInv'
  OBVIOUS
<1> USE DEF disk, tree, proc, history, RunAgent
<1>0. /\ failures \in Seq(FailureRecord) /\ strikes \in [Agents -> Nat]
      /\ \A a \in Agents : Cardinality(Rejections(failures, a)) \in Nat
  <2>1. failures \in Seq(FailureRecord) /\ strikes \in [Agents -> Nat]
    BY DEF TypeInv, TypeOK, FailureRecord
  <2>2. ASSUME NEW a \in Agents PROVE Cardinality(Rejections(failures, a)) \in Nat
    <3>1. Rejections(failures,
    a) \subseteq 1..Len(failures) /\ Len(failures) \in Int /\ 1 \in Int
      BY <2>1 DEF Rejections
    <3>2. IsFiniteSet(1..Len(failures))
      BY <3>1, FS_Interval
    <3>3. QED
      BY <3>1, <3>2, FS_Subset, FS_CardinalityType
  <2>3. QED
    BY <2>1, <2>2
<1>1. ASSUME NEW kind \in {"blocked", "rejected"}, Record(kind), task \in Tasks,
task' = task,
             UNCHANGED <<strikes, head>>,
             pc' \in {"reopen_task", "add_strike"} => kind = "rejected"
      PROVE  StrikeInv'
  <2> DEFINE r == [task |-> task, kind |-> kind]
  <2>1. r \in FailureRecord /\ r.kind = kind /\ r.task = task /\ failures' = Append(failures, r)
    BY <1>1 DEF FailureRecord, Record
  <2> HIDE DEF r
  <2>2. \A a \in Agents : Cardinality(Rejections(failures', a)) =
           IF kind = "rejected" /\ Owner[task] = a
           THEN Cardinality(Rejections(failures,
           a)) + 1 ELSE Cardinality(Rejections(failures, a))
    BY <1>0, <2>1, RecordCounts
  <2>3. Owner[task] \in Agents
    BY <1>1, ConstantTypes
  <2>4. \A a \in Agents : strikes'[a] <= Cardinality(Rejections(failures', a))
    BY <1>0, <1>1, <2>2 DEF StrikeInv
  <2>5. pc' \in {"reopen_task", "add_strike"} =>
           strikes'[Owner[task]] + 1 <= Cardinality(Rejections(failures', Owner[task]))
    BY <1>0, <1>1, <2>2, <2>3 DEF StrikeInv
  <2>6. QED
    BY <1>1, <2>4, <2>5 DEF StrikeInv, Rejections
<1>2. CASE LogBlocked
  BY <1>1, <1>2 DEF LogBlocked, Write, TypeInv, TaskAtWork
<1>3. CASE LogFailure
  BY <1>1, <1>3 DEF LogFailure, Write, TypeInv, TaskAtWork
<1>4. CASE AddStrike
  <2>1. /\ pc = "add_strike" /\ pc' = "touch" /\ UNCHANGED <<head, failures>>
        /\ strikes' = [strikes EXCEPT ![Owner[task]] = strikes[Owner[task]] + 1]
    BY <1>4 DEF AddStrike, Write
  <2>2. QED
    BY <1>0, <2>1 DEF StrikeInv, Rejections
<1>5. CASE ClearStrikes
  <2>1. /\ pc' \in {"commit", "touch"} /\ UNCHANGED <<head, failures>>
        /\ strikes' = [strikes EXCEPT ![Owner[task]] = 0]
    BY <1>5 DEF ClearStrikes, Write
  <2>2. QED
    BY <1>0, <2>1 DEF StrikeInv, Rejections
<1>6. CASE PersonStashes
  <2>1. /\ strikes' = head.strikes /\ failures' = head.failures /\ head' = head /\ pc' = "stopped"
    BY <1>6 DEF PersonStashes
  <2>2. QED
    BY <2>1 DEF StrikeInv, Rejections
<1>7. CASE Commit \/ PersonCommits
  <2>1. UNCHANGED <<strikes, failures>> /\ head' = Documents /\ pc' \in {"touch", "stopped"}
    BY <1>7 DEF Commit, CommitHolding, PersonCommits
  <2>2. QED
    BY <2>1, StrikesKept
<1>8. CASE ReopenTask
  BY <1>8, StrikesKept DEF ReopenTask, Write
<1>9. CASE Preflight \/ Announce \/ ClaimAgent \/ ClaimTask \/ ClaimLoop \/ WorkerFails
           \/ BlockTask \/ ReleaseBlocked \/ MarkImplemented \/ ClaimQA \/ QAFails
  <2>1. UNCHANGED <<strikes, failures, head>> /\ pc' \notin {"reopen_task", "add_strike"}
    BY <1>9 DEF Preflight, Announce, ClaimAgent, ClaimTask, ClaimLoop, WorkerFails,
       BlockTask, ReleaseBlocked, MarkImplemented, ClaimQA, QAFails, AgentFails,
       ProcessEnds, Write
  <2>2. QED
    BY <2>1, StrikesKept
<1>10. CASE ReleaseQA \/ CloseTask \/ NothingStaged \/ CommitFails \/ Touch
           \/ NextIteration \/ Finish
            \/ Interrupt \/ Crash
  <2>1. UNCHANGED <<strikes, failures, head>> /\ pc' \notin {"reopen_task", "add_strike"}
    BY <1>10 DEF ReleaseQA, CloseTask, NothingStaged, CommitFails, Touch, NextIteration,
       Finish,
       Interrupt, Crash, ProcessEnds, Write
  <2>2. QED
    BY <2>1, StrikesKept
<1>11. CASE Select
  <2>1. UNCHANGED <<strikes, failures, head>> /\ pc' \notin {"reopen_task", "add_strike"}
    BY <1>11 DEF Select, Admit
  <2>2. QED
    BY <2>1, StrikesKept
<1>12. CASE (\E m \in Modes : Start(m)) \/ (\E r \in WorkerReplies : WorkerAnswers(r))
            \/ (\E v \in Verdicts : QAAnswers(v))
            \/ (\E p \in Phases : PersonAcceptsPhase(p))
  <2>1. UNCHANGED <<strikes, failures, head>> /\ pc' \notin {"reopen_task", "add_strike"}
    BY <1>12 DEF Start, WorkerAnswers, QAAnswers, AgentAnswers, PersonAcceptsPhase
  <2>2. QED
    BY <2>1, StrikesKept
<1>13. CASE UNCHANGED vars
  BY <1>13, StrikesKept DEF vars
<1>14. QED
  BY <1>2, <1>3, <1>4, <1>5, <1>6, <1>7, <1>8, <1>9, <1>10, <1>11, <1>12, <1>13
  DEF Next, Run, Iterate, Person

\* No strike without its record, whatever is killed, stashed or committed between
\* the two writes.
THEOREM StrikesHaveRecords == Spec => []StrikesAreOnRecord
<1>1. Init => StrikeInv
  <2> SUFFICES ASSUME Init PROVE StrikeInv
    OBVIOUS
  <2>1. \A a : Rejections(<<>>, a) = {}
    BY DEF Rejections
  <2>2. Cardinality({}) = 0
    BY FS_EmptySet
  <2>3. pc = "stopped" /\ head = Documents /\ failures = <<>> /\ strikes = [a \in Agents |-> 0]
    BY DEF Init
  <2>4. head.strikes = strikes /\ head.failures = failures
    BY <2>3 DEF Documents
  <2>5. \A a \in Agents : strikes[a] = 0 /\ Cardinality(Rejections(failures, a)) = 0
    BY <2>1, <2>2, <2>3
  <2>6. \A a \in Agents : strikes[a] <= Cardinality(Rejections(failures, a))
    BY <2>5
  <2>7. QED
    BY <2>3, <2>4, <2>6 DEF StrikeInv
<1>2. StrikeInv => StrikesAreOnRecord
  BY DEF StrikeInv, StrikesAreOnRecord, Rejections
<1>3. QED
  BY <1>1, <1>2, StrikeStep, TypeCorrect, PTL DEF Spec

-----------------------------------------------------------------------------
(* Whom an iteration has run when it comes to close its task.              *)

GradeInv ==
    /\ pc \in {"claim_agent", "claim_task", "claim_loop", "worker"} => invoked = <<>>
    /\ pc \in {"implemented", "claim_qa", "qa"} => invoked = <<Owner[task]>>
    /\ pc \in {"release_qa", "close_task"} => invoked = <<Owner[task], QA>>
    /\ pc \in AtWork => Owner[task] \in WorkerAgents

\* Appending to a sequence of one gives the sequence of the two.
LEMMA PairOfTwo == ASSUME NEW S, NEW x \in S, NEW y \in S PROVE Append(<<x>>, y) = <<x, y>>
<1> DEFINE s == <<x>>
           v == <<x, y>>
<1>1. s \in Seq(S) /\ v \in Seq(S) /\ Len(s) = 1 /\ s[1] = x
  OBVIOUS
<1>2. Len(v) = 2 /\ v[1] = x /\ v[2] = y
  OBVIOUS
<1> HIDE DEF s, v
<1>3. /\ Append(s, y) \in Seq(S) /\ Len(Append(s, y)) = 2
      /\ Append(s, y)[1] = x /\ Append(s, y)[2] = y
  <2>1. ASSUME NEW q \in Seq(S), Len(q) = 1
        PROVE  /\ Append(q, y) \in Seq(S) /\ Len(Append(q, y)) = 2
               /\ Append(q, y)[1] = q[1] /\ Append(q, y)[2] = y
    <3> DEFINE g == Append(q, y)
    <3>1. g \in Seq(S)
      OBVIOUS
    <3>2. Len(g) = Len(q) + 1 /\ g[Len(q) + 1] = y
      BY AppendProperties
    <3>3. g[1] = q[1]
      BY <2>1, AppendProperties
    <3> HIDE DEF g
    <3>4. Len(g) = 2 /\ g[2] = y
      BY <3>2, <2>1
    <3>5. QED
      BY <3>1, <3>3, <3>4 DEF g
  <2>2. QED
    BY <1>1, <2>1
<1>4. Append(s, y) = v
  BY <1>1, <1>2, <1>3, SeqEqual
<1>5. QED
  BY <1>4 DEF s, v

LEMMA GradeStep == TypeInv /\ GradeInv /\ [Next]_vars => GradeInv'
<1> SUFFICES ASSUME TypeInv, GradeInv, [Next]_vars PROVE GradeInv'
  OBVIOUS
<1> USE DEF disk, tree, proc, history, RunAgent, GradeInv, AtWork
<1>1. CASE UNCHANGED vars \/ Announce \/ ClaimAgent \/ ClaimTask \/ ClaimLoop \/ LogBlocked
           \/ BlockTask \/ ReleaseBlocked \/ MarkImplemented \/ ClaimQA
  BY <1>1 DEF vars, Announce, ClaimAgent, ClaimTask, ClaimLoop, LogBlocked, BlockTask,
     ReleaseBlocked, MarkImplemented, ClaimQA, Write
<1>2. CASE ReleaseQA \/ CloseTask \/ ClearStrikes \/ LogFailure \/ ReopenTask
           \/ AddStrike \/ Touch
  BY <1>2 DEF ReleaseQA, CloseTask, ClearStrikes, LogFailure, ReopenTask, AddStrike,
     Touch, Write
<1>3. CASE Preflight \/ Commit \/ NothingStaged \/ CommitFails \/ NextIteration
           \/ Finish \/ Interrupt \/ Crash
           \/ PersonCommits \/ PersonStashes \/ WorkerFails \/ QAFails
  BY <1>3 DEF Preflight, Commit, CommitHolding, NothingStaged, CommitFails,
     NextIteration, Finish, Interrupt, Crash,
     PersonCommits, PersonStashes, WorkerFails, QAFails, AgentFails, ProcessEnds
<1>4. CASE (\E m \in Modes : Start(m)) \/ (\E p \in Phases : PersonAcceptsPhase(p))
  BY <1>4 DEF Start, PersonAcceptsPhase
<1>5. CASE Select
  <2>1. pc' \in {"finish", "halt"} \/ (pc' = "claim_agent" /\ Owner[task'] \in WorkerAgents)
    BY <1>5 DEF Select, Admit
  <2>2. QED
    BY <1>5, <2>1 DEF Select
<1>6. ASSUME NEW r \in WorkerReplies, WorkerAnswers(r) PROVE GradeInv'
  <2>1. /\ pc = "worker" /\ pc' \in {"log_blocked", "implemented"} /\ task' = task
        /\ invoked' = Append(<<>>, Owner[task])
    BY <1>6 DEF WorkerAnswers, AgentAnswers
  <2>2. invoked' = <<Owner[task]>>
    BY <2>1
  <2>3. QED
    BY <2>1, <2>2
<1>7. ASSUME NEW v \in Verdicts, QAAnswers(v) PROVE GradeInv'
  <2>1. /\ pc = "qa" /\ pc' = "release_qa" /\ task' = task
        /\ invoked' = Append(<<Owner[task]>>, QA)
    BY <1>7 DEF QAAnswers, AgentAnswers
  <2>2. invoked' = <<Owner[task], QA>>
    <3> DEFINE S == {Owner[task], QA}
    <3>1. Owner[task] \in S /\ QA \in S
      OBVIOUS
    <3> HIDE DEF S
    <3>2. Append(<<Owner[task]>>, QA) = <<Owner[task], QA>>
      BY <3>1, PairOfTwo
    <3>3. QED
      BY <2>1, <3>2
  <2>3. QED
    BY <2>1, <2>2
<1>8. QED
  BY <1>1, <1>2, <1>3, <1>4, <1>5, <1>6, <1>7 DEF Next, Run, Iterate, Person

\* Only the step that closes a task accepts one.
LEMMA OnlyCloseAccepts ==
    ASSUME TypeInv, [Next]_vars, pc # "stopped",
           NEW t \in Tasks, status[t] \notin Accepted, status'[t] \in Accepted
    PROVE  pc = "close_task" /\ t = task
<1> USE DEF disk, tree, proc, history, RunAgent
<1>0. ~UNCHANGED status
  OBVIOUS
<1>1. CASE Select
  BY <1>1 DEF Select, RefreshBlocked, Accepted
<1>2. CASE ClaimTask \/ BlockTask \/ MarkImplemented \/ ReopenTask
  <2>1. \E s \in {"IN_PROGRESS", "BLOCKED", "IMPLEMENTED", "OPEN"} : SetStatus(task, s)
    BY <1>2 DEF ClaimTask, BlockTask, MarkImplemented, ReopenTask
  <2>2. QED
    BY <2>1 DEF SetStatus, Accepted, TypeInv, TypeOK
<1>3. CASE CloseTask
  BY <1>3 DEF CloseTask, Write, SetStatus, TypeInv, TypeOK
<1>4. CASE Preflight \/ Announce \/ ClaimAgent \/ ClaimLoop \/ WorkerFails \/ LogBlocked
           \/ ReleaseBlocked \/ ClaimQA \/ QAFails \/ ReleaseQA
  BY <1>0, <1>4 DEF Preflight, Announce, ClaimAgent, ClaimLoop, WorkerFails, LogBlocked,
     ReleaseBlocked, ClaimQA, QAFails, ReleaseQA, AgentFails
<1>5. CASE ClearStrikes \/ Commit \/ NothingStaged \/ CommitFails \/ LogFailure
           \/ AddStrike \/ Touch
           \/ NextIteration \/ Finish \/ Interrupt \/ Crash \/ PersonCommits
           \/ PersonStashes
           \/ UNCHANGED vars
  BY <1>0, <1>5 DEF ClearStrikes, Commit, CommitHolding, NothingStaged, CommitFails,
     LogFailure, AddStrike, Touch,
     NextIteration, Finish, Interrupt, Crash, PersonCommits, PersonStashes, vars
<1>6. CASE (\E m \in Modes : Start(m)) \/ (\E r \in WorkerReplies : WorkerAnswers(r))
           \/ (\E v \in Verdicts : QAAnswers(v))
           \/ (\E p \in Phases : PersonAcceptsPhase(p))
  BY <1>0, <1>6 DEF Start, WorkerAnswers, QAAnswers, AgentAnswers, PersonAcceptsPhase
<1>7. QED
  BY <1>1, <1>2, <1>3, <1>4, <1>5, <1>6 DEF Next, Run, Iterate, Person

\* "The worker never grades itself": a task is accepted only by an iteration that
\* has run its owner and then, as another agent, QA.
THEOREM NobodyGradesHimself == Spec => AcceptedByAnotherAgent
<1>1. Init => GradeInv
  BY DEF Init, GradeInv, AtWork
<1>2. TypeInv /\ GradeInv /\ [Next]_vars =>
         [\A t \in Tasks :
             status[t] \notin Accepted /\ status'[t] \in Accepted /\ pc # "stopped" =>
                 /\ invoked = <<Owner[t], QA>>
                 /\ Owner[t] # QA]_vars
  <2> SUFFICES ASSUME TypeInv, GradeInv, [Next]_vars, pc # "stopped",
                      NEW t \in Tasks, status[t] \notin Accepted, status'[t] \in Accepted
               PROVE  invoked = <<Owner[t], QA>> /\ Owner[t] # QA
    OBVIOUS
  <2>1. pc = "close_task" /\ t = task
    BY OnlyCloseAccepts
  <2>2. QED
    BY <2>1, LoopAssumption DEF GradeInv, AtWork
<1>3. QED
  BY <1>1, <1>2, GradeStep, TypeCorrect, PTL DEF Spec, AcceptedByAnotherAgent
=============================================================================
