--------------------------- MODULE BabysitterLoop ---------------------------
(***************************************************************************)
(* The outer development loop, scripts/babysitter_loop.py, over the four   *)
(* documents of .ai/ and the git tree it commits.  Every write of a        *)
(* document is atomic (a temporary file and os.replace) but one iteration  *)
(* makes up to nine of them, so each write is a step of its own: the       *)
(* process may die, or be interrupted, between any two.                    *)
(***************************************************************************)
EXTENDS TaskQueue, Sequences

CONSTANTS
    WorkerAgents,   (* the agents a task may be delegated to                *)
    QA,             (* the agent that runs the acceptance check             *)
    MaxStrikes,     (* MAX_CONSECUTIVE_FAILURES                             *)
    MaxIterations,  (* --max-iterations                                     *)
    MaxRuns,        (* BOUND: how often the loop is started                 *)
    InitialQueues,  (* the task statuses a person may start from            *)
    None            (* no task                                              *)

ASSUME LoopAssumption ==
    /\ WorkerAgents \subseteq Agents
    /\ QA \in Agents \ WorkerAgents
    /\ MaxStrikes \in Nat \ {0}
    /\ MaxIterations \in Nat \ {0}
    /\ MaxRuns \in Nat
    /\ InitialQueues \subseteq [Tasks -> Status]
    /\ None \notin Tasks

VARIABLES
    \* the documents of .ai/
    status,     (* tasks.json: the status of each task                      *)
    working,    (* agent_status.json: the current task of each agent        *)
    strikes,    (* agent_status.json: consecutive_failures of each agent    *)
    running,    (* agent_status.json: loop.running                          *)
    failures,   (* failures.json, in the order of recording                 *)
    done,       (* project_state.json: the phases that are done             *)
    \* the git tree
    head,       (* what the documents say in the HEAD commit                *)
    unsaved,    (* a file of .ai/ differs from HEAD, or is not tracked      *)
    edits,      (* tasks with source edits that no commit holds             *)
    \* the process
    pc, mode, task, iter, reply,
    \* history
    invoked,    (* the agents this iteration has run, in order              *)
    missed,     (* tasks this run closed whose own commit found nothing     *)
                (* staged, since the last commit of the run                 *)
    lastCommit, (* the last commit of the loop: its task, the tasks it      *)
                (* closes, the tasks whose source edits it holds, and what  *)
                (* was missed before it                                     *)
    runs

disk == <<status, working, strikes, running, failures, done>>
tree == <<head, unsaved, edits>>
proc == <<mode, task, iter, reply>>
history == <<invoked, missed, lastCommit, runs>>
vars == <<disk, tree, pc, proc, history>>

Documents == [status |-> status, working |-> working, strikes |-> strikes,
              running |-> running, failures |-> failures, done |-> done]

Modes == {"commit", "no_commit", "dry_run"}
WorkerReplies == {"implemented", "blocked"}
Verdicts == Accepted \cup {"FAILED"}
Labels == {"stopped", "preflight", "announce", "select",
           "claim_agent", "claim_task", "claim_loop", "worker",
           "log_blocked", "block_task", "release_blocked",
           "implemented", "claim_qa", "qa", "release_qa",
           "close_task", "clear_strikes", "commit",
           "log_failure", "reopen_task", "add_strike",
           "touch", "next", "finish", "halt"}

NoCommit == [task |-> None, closes |-> {}, edits |-> {}, missed |-> {}]

Dirty == unsaved \/ edits # {}

Init ==
    /\ status \in InitialQueues
    /\ working = [a \in Agents |-> None]
    /\ strikes = [a \in Agents |-> 0]
    /\ running = FALSE
    /\ failures = <<>>
    /\ done = {}
    /\ head = Documents
    /\ unsaved = FALSE
    /\ edits = {}
    /\ pc = "stopped" /\ mode = "commit" /\ task = None /\ iter = 0 /\ reply = "none"
    /\ invoked = <<>> /\ missed = {} /\ lastCommit = NoCommit /\ runs = 0

-----------------------------------------------------------------------------
(* main(): preflight, and the writes around the iterations.                *)

Start(m) ==
    /\ pc = "stopped" /\ runs < MaxRuns
    /\ pc' = "preflight"
    /\ mode' = m
    /\ runs' = runs + 1
    /\ UNCHANGED <<disk, tree, task, iter, reply, invoked, missed, lastCommit>>

\* The process ends, and what only its memory held is gone.
ProcessEnds ==
    /\ pc' = "stopped"
    /\ mode' = "commit" /\ task' = None /\ iter' = 0 /\ reply' = "none"
    /\ invoked' = <<>> /\ missed' = {}

\* Mutant: the clean-tree check is left to preflight.py, which only warns.
PreflightTreeUnchecked ==
    /\ pc = "preflight"
    /\ pc' \in {"announce", "halt"}
    /\ UNCHANGED <<disk, tree, proc, history>>

\* preflight.py exits 0 when the foundation is sound, which is decided outside.
Preflight ==
    /\ pc = "preflight"
    /\ \/ pc' = IF mode # "dry_run" /\ Dirty THEN "halt" ELSE "announce"
       \/ pc' = "halt"
    /\ UNCHANGED <<disk, tree, proc, history>>

\* set_loop(running=flag)
SetRunning(flag) == running' = flag /\ unsaved' = TRUE

Announce ==
    /\ pc = "announce"
    /\ SetRunning(TRUE)
    /\ pc' = "select" /\ iter' = 1
    /\ UNCHANGED <<status, working, strikes, failures, done, head, edits,
                   mode, task, reply, history>>

\* The end of the iterations, and the handlers of Halt and KeyboardInterrupt.
Finish ==
    /\ pc \in {"finish", "halt"}
    /\ SetRunning(FALSE)
    /\ ProcessEnds
    /\ UNCHANGED <<status, working, strikes, failures, done, head, edits,
                   lastCommit, runs>>

\* Mutant: one iteration too many.
NextIterationOnceMore ==
    /\ pc = "next"
    /\ IF iter <= MaxIterations
       THEN pc' = "select" /\ iter' = iter + 1
       ELSE pc' = "finish" /\ UNCHANGED iter
    /\ UNCHANGED <<disk, tree, mode, task, reply, history>>

NextIteration ==
    /\ pc = "next"
    /\ IF iter < MaxIterations
       THEN pc' = "select" /\ iter' = iter + 1
       ELSE pc' = "finish" /\ UNCHANGED iter
    /\ UNCHANGED <<disk, tree, mode, task, reply, history>>

-----------------------------------------------------------------------------
(* iterate(): refresh the queue, choose a task, claim it.                  *)

\* Mutants: the owner is not checked; a task nobody may work on is passed over.
AdmitAnyOwner(t) ==
    IF strikes[Owner[t]] >= MaxStrikes THEN "halt"
    ELSE IF mode = "dry_run" THEN "finish" ELSE "claim_agent"

AdmitPassesOver(t) ==
    IF Owner[t] \notin WorkerAgents \/ strikes[Owner[t]] >= MaxStrikes THEN "select"
    ELSE IF mode = "dry_run" THEN "finish" ELSE "claim_agent"

\* Where the iteration goes with the selected task t.
Admit(t) ==
    IF Owner[t] \notin WorkerAgents \/ strikes[Owner[t]] >= MaxStrikes THEN "halt"
    ELSE IF mode = "dry_run" THEN "finish" ELSE "claim_agent"

Select ==
    /\ pc = "select"
    /\ status' = RefreshBlocked(status, done)
    /\ unsaved' = TRUE
    /\ invoked' = <<>> /\ reply' = "none"
    /\ IF Unblocked(status, done) = {}
       THEN pc' = "finish" /\ UNCHANGED task
       ELSE /\ task' = SelectNext(status', done)
            /\ pc' = Admit(task')
    /\ UNCHANGED <<working, strikes, running, failures, done, head, edits,
                   mode, iter, missed, lastCommit, runs>>

-----------------------------------------------------------------------------
(* iterate(): claim the task and run its owner.                            *)

\* A write of a document and nothing else; control moves on to label l.
Write(from, l) == pc = from /\ pc' = l /\ unsaved' = TRUE /\ UNCHANGED <<head, edits>>

\* set_agent(a, state, current_task) and set_status(t, s)
SetAgent(a, t) == working' = [working EXCEPT ![a] = t]
SetStatus(t, s) == status' = [status EXCEPT ![t] = s]

ClaimAgent ==
    /\ Write("claim_agent", "claim_task")
    /\ SetAgent(Owner[task], task)
    /\ UNCHANGED <<status, strikes, running, failures, done, proc, history>>

ClaimTask ==
    /\ Write("claim_task", "claim_loop")
    /\ SetStatus(task, "IN_PROGRESS")
    /\ UNCHANGED <<working, strikes, running, failures, done, proc, history>>

ClaimLoop ==
    /\ Write("claim_loop", "worker")
    /\ running' = TRUE
    /\ UNCHANGED <<status, working, strikes, failures, done, proc, history>>

\* An agent edits the tree, or not, whatever becomes of it: it answers, its
\* command fails (Halt), or it runs out of time (TimeoutExpired, not caught).
RunAgent(a, from) ==
    /\ pc = from
    /\ edits' \in {edits, edits \cup {task}}
    /\ UNCHANGED <<disk, head, unsaved, lastCommit, runs>>

AgentAnswers(a, from, r) ==
    /\ RunAgent(a, from)
    /\ invoked' = Append(invoked, a)
    /\ reply' = r
    /\ UNCHANGED <<mode, task, iter, missed>>

AgentFails(a, from) ==
    /\ RunAgent(a, from)
    /\ \/ pc' = "halt" /\ UNCHANGED <<proc, invoked, missed>>
       \/ ProcessEnds

\* A reply that is not valid JSON is returned as it is: a truncated one is
\* handled as any reply without the line STATUS: BLOCKED.
WorkerAnswers(r) ==
    /\ AgentAnswers(Owner[task], "worker", r)
    /\ pc' = IF r = "blocked" THEN "log_blocked" ELSE "implemented"

WorkerFails == AgentFails(Owner[task], "worker")

\* Mutant: one record per task, the last failure replaces the first.
RecordOncePerTask(kind) ==
    /\ failures' = SelectSeq(failures, LAMBDA f : f.task # task)
                        \o <<[task |-> task, kind |-> kind]>>

\* record_failure: appended, never overwritten.
Record(kind) ==
    /\ failures' = Append(failures, [task |-> task, kind |-> kind])

LogBlocked ==
    /\ Write("log_blocked", "block_task")
    /\ Record("blocked")
    /\ UNCHANGED <<status, working, strikes, running, done, proc, history>>

BlockTask ==
    /\ Write("block_task", "release_blocked")
    /\ SetStatus(task, "BLOCKED")
    /\ UNCHANGED <<working, strikes, running, failures, done, proc, history>>

ReleaseBlocked ==
    /\ Write("release_blocked", "next")
    /\ SetAgent(Owner[task], None)
    /\ UNCHANGED <<status, strikes, running, failures, done, proc, history>>

-----------------------------------------------------------------------------
(* iterate(): the QA gate and what it leads to.                            *)

MarkImplemented ==
    /\ Write("implemented", "claim_qa")
    /\ SetStatus(task, "IMPLEMENTED")
    /\ UNCHANGED <<working, strikes, running, failures, done, proc, history>>

ClaimQA ==
    /\ Write("claim_qa", "qa")
    /\ SetAgent(QA, task)
    /\ UNCHANGED <<status, strikes, running, failures, done, proc, history>>

\* parse_verdict: a reply without a VERDICT line, or with any other word in
\* it, is a failure.
QAAnswers(v) ==
    /\ AgentAnswers(QA, "qa", v)
    /\ pc' = "release_qa"

QAFails == AgentFails(QA, "qa")

ReleaseQA ==
    /\ Write("release_qa", IF reply \in Accepted THEN "close_task" ELSE "log_failure")
    /\ SetAgent(QA, None)
    /\ UNCHANGED <<status, strikes, running, failures, done, proc, history>>

CloseTask ==
    /\ Write("close_task", "clear_strikes")
    /\ SetStatus(task, reply)
    /\ UNCHANGED <<working, strikes, running, failures, done, proc, history>>

ClearStrikes ==
    /\ Write("clear_strikes", IF mode = "commit" THEN "commit" ELSE "touch")
    /\ SetAgent(Owner[task], None)
    /\ strikes' = [strikes EXCEPT ![Owner[task]] = 0]
    /\ UNCHANGED <<status, running, failures, done, proc, history>>

\* HEAD takes the documents as they are, and the given source edits.
CommitHolding(taken) ==
    /\ pc = "commit"
    /\ pc' = "touch"
    /\ head' = Documents /\ unsaved' = FALSE /\ edits' = edits \ taken
    /\ lastCommit' = [task |-> task,
                      closes |-> ClosedTasks(status) \ ClosedTasks(head.status),
                      edits |-> taken,
                      missed |-> missed]
    /\ missed' = {}
    /\ UNCHANGED <<disk, proc, invoked, runs>>

\* Mutant: git commit -a, which leaves new files where they are.
CommitTrackedFiles == CommitHolding({})

\* git add -A staged the tree, and git commit: everything it holds goes in.
Commit == CommitHolding(edits)

\* git add -A failed (a file it cannot read, a locked index): its return code is
\* not looked at, nothing is staged, and commit() returns None as if there had
\* been nothing to commit.  The agents are taken to stage nothing themselves.
NothingStaged ==
    /\ pc = "commit"
    /\ pc' = "touch"
    /\ missed' = missed \cup {task}
    /\ UNCHANGED <<disk, tree, proc, invoked, lastCommit, runs>>

\* git commit failed (Halt).
CommitFails ==
    /\ pc = "commit"
    /\ pc' = "halt"
    /\ UNCHANGED <<disk, tree, proc, history>>

LogFailure ==
    /\ Write("log_failure", "reopen_task")
    /\ Record("rejected")
    /\ UNCHANGED <<status, working, strikes, running, done, proc, history>>

ReopenTask ==
    /\ Write("reopen_task", "add_strike")
    /\ SetStatus(task, "OPEN")
    /\ UNCHANGED <<working, strikes, running, failures, done, proc, history>>

AddStrike ==
    /\ Write("add_strike", "touch")
    /\ SetAgent(Owner[task], None)
    /\ strikes' = [strikes EXCEPT ![Owner[task]] = @ + 1]
    /\ UNCHANGED <<status, running, failures, done, proc, history>>

\* touch_project_state: a time stamp and the iteration, which nothing reads.
Touch ==
    /\ Write("touch", "next")
    /\ UNCHANGED <<disk, proc, history>>

-----------------------------------------------------------------------------
(* What may happen to the process, and what is done while it is stopped.   *)

\* KeyboardInterrupt inside the try block of main.
Interrupt ==
    /\ pc \notin {"stopped", "finish", "halt"}
    /\ pc' = "halt"
    /\ UNCHANGED <<disk, tree, proc, history>>

\* The process dies; the temporary file of a write may stay behind.
Crash ==
    /\ pc # "stopped"
    /\ ProcessEnds
    /\ unsaved' \in {unsaved, TRUE}
    /\ UNCHANGED <<disk, head, edits, lastCommit, runs>>

\* "commit or stash first": a person commits the whole tree, or drops it.
PersonCommits ==
    /\ pc = "stopped" /\ Dirty
    /\ head' = Documents /\ unsaved' = FALSE /\ edits' = {}
    /\ UNCHANGED <<disk, pc, proc, history>>

PersonStashes ==
    /\ pc = "stopped" /\ Dirty
    /\ status' = head.status /\ working' = head.working /\ strikes' = head.strikes
    /\ running' = head.running /\ failures' = head.failures /\ done' = head.done
    /\ unsaved' = FALSE /\ edits' = {}
    /\ UNCHANGED <<head, pc, proc, history>>

\* No code writes the status of a phase: its exit criterion is judged outside.
PersonAcceptsPhase(p) ==
    /\ pc = "stopped" /\ p \notin done
    /\ done' = done \cup {p}
    /\ unsaved' = TRUE
    /\ UNCHANGED <<status, working, strikes, running, failures, head, edits,
                   pc, proc, history>>

-----------------------------------------------------------------------------

Iterate ==
    \/ Select
    \/ ClaimAgent \/ ClaimTask \/ ClaimLoop
    \/ \E r \in WorkerReplies : WorkerAnswers(r)
    \/ WorkerFails
    \/ LogBlocked \/ BlockTask \/ ReleaseBlocked
    \/ MarkImplemented \/ ClaimQA
    \/ \E v \in Verdicts : QAAnswers(v)
    \/ QAFails
    \/ ReleaseQA
    \/ CloseTask \/ ClearStrikes \/ Commit \/ NothingStaged \/ CommitFails
    \/ LogFailure \/ ReopenTask \/ AddStrike
    \/ Touch

Run == Preflight \/ Announce \/ Iterate \/ NextIteration \/ Finish

Person ==
    \/ PersonCommits \/ PersonStashes
    \/ \E p \in Phases : PersonAcceptsPhase(p)

Next ==
    \/ \E m \in Modes : Start(m)
    \/ Run
    \/ Interrupt \/ Crash
    \/ Person

Spec == Init /\ [][Next]_vars

\* The loop runs on: every agent call has a wall-clock cap (timeout_s), so a
\* step that is enabled is taken.
FairSpec == Spec /\ WF_vars(Run)

-----------------------------------------------------------------------------

TypeOK ==
    /\ status \in [Tasks -> Status]
    /\ working \in [Agents -> Tasks \cup {None}]
    /\ strikes \in [Agents -> Nat]
    /\ running \in BOOLEAN
    /\ failures \in Seq([task : Tasks, kind : {"blocked", "rejected"}])
    /\ done \subseteq Phases
    /\ head \in [status : [Tasks -> Status],
                 working : [Agents -> Tasks \cup {None}],
                 strikes : [Agents -> Nat],
                 running : BOOLEAN,
                 failures : Seq([task : Tasks, kind : {"blocked", "rejected"}]),
                 done : SUBSET Phases]
    /\ unsaved \in BOOLEAN
    /\ edits \subseteq Tasks
    /\ pc \in Labels
    /\ mode \in Modes
    /\ task \in Tasks \cup {None}
    /\ iter \in 0..MaxIterations
    /\ reply \in {"none"} \cup WorkerReplies \cup Verdicts
    /\ invoked \in Seq(Agents)
    /\ missed \subseteq Tasks
    /\ lastCommit \in [task : Tasks \cup {None}, closes : SUBSET Tasks, edits : SUBSET Tasks,
                       missed : SUBSET Tasks]
    /\ runs \in 0..MaxRuns

\* "One task per commit", as far as the code keeps it: besides its own task a
\* commit of the loop closes and holds the source edits of the tasks that the
\* same run accepted and failed to stage since its last commit, and nothing of
\* any other task -- whatever crashes, failed attempts, halts and restarts came
\* before it.  (After a git add that failed it does hold several tasks.)
NoStrayWorkInCommit ==
    lastCommit.task # None =>
        /\ lastCommit.closes = {lastCommit.task} \cup lastCommit.missed
        /\ lastCommit.edits \subseteq {lastCommit.task} \cup lastCommit.missed

\* Nothing a person finds in HEAD claims more than HEAD holds: a task that
\* HEAD calls accepted has no source edits outside HEAD.
AcceptedWorkIsInHead ==
    \A t \in edits : head.status[t] \notin Accepted

\* An agent is only ever recorded at work on a task whose dependencies are
\* closed and whose phase is unlocked, also after a crash or a stash.
WorkRespectsBuildOrder ==
    \A a \in Agents :
        working[a] # None =>
            /\ DependenciesClosed(working[a], status)
            /\ PhaseUnlocked(PhaseOf[working[a]], done)

\* "The worker never grades itself": when a task becomes accepted, this very
\* iteration ran its worker and then, as another agent, QA.
AcceptedByAnotherAgent ==
    [][\A t \in Tasks :
          status[t] \notin Accepted /\ status'[t] \in Accepted /\ pc # "stopped" =>
              /\ invoked = <<Owner[t], QA>>
              /\ Owner[t] # QA]_vars

\* No strike without its record: a strike is written after the failure it
\* counts, so agent_status.json never says more than failures.json.
StrikesAreOnRecord ==
    \A a \in Agents :
        strikes[a] <= Cardinality({i \in DOMAIN failures :
                          failures[i].kind = "rejected" /\ Owner[failures[i].task] = a})

\* Every run of the loop comes to an end.
EveryRunEnds == pc # "stopped" ~> pc = "stopped"

-----------------------------------------------------------------------------
(* What the documentation says of the loop and the code does not do.       *)

\* tasks.py: an IMPLEMENTED task survives a restart to be routed to QA.  So a
\* run that finds no work to do leaves no task waiting for QA.
ImplementedIsRoutedToQA ==
    pc = "finish" /\ mode # "dry_run" /\ Unblocked(status, done) = {}
        => \A t \in Tasks : status[t] # "IMPLEMENTED"
=============================================================================
