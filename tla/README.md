# A verification project for cuphead-ai

TLA+ models of the control logic of cuphead-ai, checked with TLC and, where it
matters most, proved with TLAPS. The repository is a research harness for an
agent that plays Cuphead: most of its lines are numerical (encoders, planners,
metrics), but what makes it trustworthy is control: who may hold the gamepad,
which result belongs to which frame, what a recording on disk means after a
crash, and what the unattended development loop may commit. That is what is
modelled here. Paths below are relative to the repository (`src/` of this
checkout).

## 1. Inventory

| Part | State it keeps | Operations | What is hard |
|---|---|---|---|
| **Task queue** `orchestration/tasks.py` | the statuses in `.ai/tasks.json`, phases in `.ai/project_state.json` | `unblocked`, `select_next`, `set_status`, `refresh_blocked` | a status written by one stage and skipped by another |
| **State store** `orchestration/state_store.py` | four JSON documents of `.ai/` | atomic `write`, read-modify-write helpers, `validate` | several documents, one write each; crash between two |
| **Babysitter loop** `scripts/babysitter_loop.py` | the documents, the git tree, the process | `preflight`, `iterate`, `main` | crash, interrupt, timeout, failed agents, restart, retry |
| **Preflight** `scripts/preflight.py` | none | `run_checks` | reads the environment only |
| **Evaluation gates** `orchestration/gates.py` | none | `evaluate_gate`, bootstrap | statistics |
| **GPU recorded agent** `orchestration/gpu_recorded_agent.py`, `scripts/run_gpu_recorded_agent.py` | a ring of buffer slots, three CUDA streams, events, a pending queue | `try_submit`, `poll`, `close`; the capture loop | asynchronous copies and graph replays, buffer reuse, full ring, late answers, failed submit |
| **Controller** `control/controller_lease.py`, `control/actuator.py`, `control/session.py`, `control/windows_gamepad.py` | a file lock, a virtual gamepad with held buttons, the game process | lease, open, send, neutral, close, `GamepadSession` | two processes, failures while opening and closing, a held button left behind |
| **Timed input** `control/timed_input.py` | none beyond the actuator | `TimedExecutor.execute` | an exception while a button is held |
| **Keyboard and human input** `control/keyboard_input.py`, `control/human_input.py` | key state, a reader thread | `poll`, `_read_loop` | a thread and a poller, focus lost during a poll |
| **Keyboard actuator** `control/x11_keyboard.py` | the keys it holds | `_set`, `neutral`, `close` | cut off between two keys |
| **Action space** `control/action_space.py` | none | `from_raw`, `to_buttons`, `is_legal`, `ReflexOverride.merge` | 56 legal actions out of many encodings |
| **Memory agent** `orchestration/memory_agent.py`, `scripts/run_memory_agent.py` | temporal encoder, terminal counters, route, memory bank | `step` | a result learned from an unverified transition, terminal counts, clean-up order |
| **Latent bank** `memory/latent_bank.py` | transitions, capacity | `add`, `lookup`, `save`, `load` | eviction at capacity, atomic save |
| **Route** `strategist/landmark_route.py` | current landmark | `next_edge`, `observe` | observations that skip an edge |
| **Replay** `memory/replay.py` | `meta.json`, `events.json`, `actions.jsonl`, `frames.jsonl` | `ReplayWriter`, `ReplayReader`, `write_replay` | crash between writes, reuse of a run id |
| **Session recorder** `scripts/record_session.py` | frames, actions, times | the record loop, the review at its end | interrupt between a frame and its action |
| **Video recorder** `perception/video_recorder.py` | a writer thread, `_stop`, `_ready`, `error` | constructor, `_run`, `check`, `close`, `summary` | a thread that fails, hangs or dies while its owner starts, goes on or ends |
| **Capture** `perception/capture.py`, `perception/dxcam_capture.py`, `perception/window_capture.py` | last frame index and time | `IntegrityTracker`, sources | dropped and duplicated frames |
| **Dataset gate** `evaluation/dataset_gate.py`, `scripts/check_gameplay_dataset.py` | labels in `meta.json`, the report | `label_segment`, `select_samples`, `inspect_dataset`, the audit | a label that outlives what it labels, a report that outlives an audit, strata of one frame |
| **Menu navigation** `world_model/menu_navigation.py` | menu state | `MiniCEMPlanner.plan`, `ClosedLoopMenuNavigator.step` | a failed step leaves a button held |
| **Encoders, dynamics, planners** `perception/*jepa*`, `perception/latent_encoder.py`, `world_model/knn_dynamics.py`, `world_model/sequence_model.py`, `planner/*` | weights | numerical | numerical |
| **Landmarks** `perception/landmarks.py` | none | `classify` | thresholds |
| **Latency, metrics, synthetic agent** `evaluation/*` | histograms | measurement | statistics |
| **Event and state schemas** `events/schema.py`, `state/schema.py` | none | dataclasses, `dps_uptime` | interval arithmetic |
| **Capture pilot** `scripts/windows_capture_pilot.py` | mode, what is held, release and retry times, commands | the capture loop | focus lost and regained, timers, two command channels, clean-up |
| **Launcher and tools** `scripts/*` | none of their own | command lines around the parts above | clean-up |

How they interact: a script owns one session (lease, gamepad, game), one frame
source and one agent; the agent answers each frame with an action that the
script sends to the gamepad; a recorder writes frames and actions in lock-step
to a replay. The babysitter loop is a separate program that changes the
repository itself: it reads the queue, has a worker agent implement a task and
a QA agent judge it, and commits. The parts share state in few places, and
those are what the modules compose: the queue and the loop share `.ai/`; the
capture loop calls the GPU engine; sessions of different processes share one
lock file and one machine; the recorder calls the replay writer; the memory
agent calls the timed executor, the route and the bank, and its script calls
them all.

What makes each part correct, in the terms of its promises:

- *Queue and loop.* A commit holds the source edits of its own task and of no
  other, unless the commit of an accepted task found nothing staged before it;
  HEAD never calls work accepted that it does not hold; nobody works on
  a task before what it depends on, and nobody grades himself; failures are on
  record; every run ends. Whatever is killed or fails, whenever.
- *GPU engine.* Each accepted frame is answered once, in order, by its own
  pixels, and never with a late action; buffers are reused only when no stream
  can touch them; an engine that is marked closed is quiet.
- *Controller.* At most one gamepad per user, up to the last moments of a
  process; it does not vanish under a running game as long as its session is
  there, does not join one, and does not keep a button held.
- *Replay and recorder.* What reads is one attempt, complete and aligned; what
  was finalized reads; what was not does not.
- *Memory agent.* A win is witnessed; input is released; what is learned pairs
  the moments it says it pairs; the route is a shortest one; the bank reaches
  its file.
- *Human input.* A sample is a legal action, is what is held, comes from the game's
  window, and does not come from a thread that is dead; the platforms agree.
- *Capture pilot.* A press comes to its end; a frame is recorded with the input
  that was held for it.
- *Video recorder.* A report that names a video and no error tells the truth about
  the file.
- *Dataset gate.* What counts for training was recorded to its end and reviewed
  since; a pass does not outlive the next audit; the probed frames cover every
  stratum.
- *Keyboard actuator.* No key stays down after the clean-up. (It may: section 5.)

## 2. Plan

Order: first what can do lasting damage or silently spoil results, then the
parts around it. Modules extend each other rather than copy; an MC module and
one or more `.cfg` files instantiate each component.

| Step | Modules | Composition | State |
|---|---|---|---|
| 1 | `TaskQueue`, `BabysitterLoop` | the loop extends the queue | checked, its safety proved |
| 2 | `FrameFifo`, `GpuRing`, `ActiveLoop` | the ring implements the queue `FrameFifo`; the loop extends the ring | checked; ring, refinement and loop proved |
| 3 | `ControllerSession` | processes over one lease and one machine | checked, its safety proved |
| 4 | `Replay`, `RecordSession` | the recorder extends the writer and reader | checked, its safety proved |
| 5 | `LandmarkRoute`, `MemoryAgent`, `RunMemoryAgent` | each extends the one before | checked, its safety proved, the route's search with it |
| 6 | `ActionSpace`, `HumanInput` | the sources extend the action space they decode into | checked, its safety proved |
| 7 | `CapturePilot` | the loop over a controller whose session is `ControllerSession`'s | checked and proved |
| 8 | `VideoRecorder`, `RecordedRun` | the writer thread beside the run of the memory agent that owns it | checked and proved |
| 9 | `SampleSelection`, `DatasetGate` | reviews and audits over the directory that `RecordSession` leaves | checked and proved |
| 10 | `KeyboardActuator` | the actuator in the hands of the executor and the clean-up | a finding |

The plan is carried out. Abstract specifications: the bounded queue of the GPU
engine (`FrameFifo`), which `GpuRing` implements. `DatasetGate` implements
`RecordSession` and `RecordedRun` implements `RunMemoryAgent`, so that what is
proved of the inner module holds of the outer one. What could still be proved or
modelled, and why it is not, is in sections 6 and 7.

## 3. The modules and the code

Every definition that stands for code is listed with its file and lines in
`PROJECT.json` under `map`. Names are the source's names where TLA+ allows it.
Definitions introduced by a comment "Mutant:" are plausible bugs, one per
property: they are not part of a specification, and each of them, put in the
place of the definition it varies, makes TLC report that property violated.

### The babysitter loop: `TaskQueue`, `BabysitterLoop`

`TaskQueue` holds the pure part of `orchestration/tasks.py`: which tasks are
unblocked (phase lock, dependencies, not closed and not in flight), the order
(priority, then id), and the recomputation `refresh_blocked`.

`BabysitterLoop` is `scripts/babysitter_loop.py` write by write. The documents
of `.ai/` are the variables `status`, `working`, `strikes`, `running`,
`failures` and `done`; git is what HEAD holds of them (`head`), whether a file
of `.ai/` differs from it (`unsaved`), and which tasks have source edits that no
commit holds (`edits`). Each call that writes a document is one action, because
each write is atomic (`os.replace`) and the process may die or be interrupted
between any two of the up to nine writes of an iteration. Agents are processes
outside: a call answers, fails, or times out, and may have edited the tree in
every case. `missed` is history: `commit` ignores the return code of `git add -A`
(line 128), so when that fails nothing is staged, `commit` returns as if there had
been nothing to commit, and the iterations go on with an accepted task whose edits
lie in the tree (`NothingStaged`); the next commit takes them with its own, and
only then is `NoStrayWorkInCommit` excused. Agents are taken to stage nothing
themselves. While the loop is stopped a person may commit everything, drop
everything, or accept a phase; these three are external.

Worth knowing, and not flagged by any property:

- a successful run leaves the tree dirty: `touch_project_state` and
  `set_loop(running=False)` write after the commit (lines 295 and 338), so the
  next run in commit mode halts in preflight until a person has committed or
  stashed, although the text on line 10 speaks of a clean tree per iteration;
- a worker's reply that is cut off is not valid JSON, is returned as plain text
  (line 106, cf. 75-77), contains no `STATUS: BLOCKED`, and so counts as an
  implementation for QA to judge;
- `tree_is_clean` ignores git's return code, and two loops started side by side
  are not kept apart by a lock. The model runs one process at a time.

### The GPU engine: `FrameFifo`, `GpuRing`, `ActiveLoop`

`GpuRing` models `RingBufferedGPURecordedAgentEngine`: the CPU fields
(`pending`, `nextSlot`, `sequence`, `faulted`, `closed`, the label of each
slot), four buffers per slot that hold the frame their content stems from, and
three streams, each a queue of launches that are not executed. A stream
executes its launches in order; streams are ordered among each other only by
the three events. `try_submit` is one action although it enqueues three
launches: a GPU step between two of its launches commutes with the later
launch, so every behaviour with such steps has the same states outside the call.
The exceptional exits that do not commute are actions of their own:
`SubmitFails` with any number of launches out, and in `ActiveLoop` the
interrupt after the last launch and before `_pending.append`. A rejected
submission and a poll without a result change nothing. Calls from another
thread and rejected arguments raise before they change anything and are left
out. A synchronize in `close` that raises, for a CUDA error or a second Ctrl+C,
leaves the ring as it was, and so it is no action of `GpuRing`; in `ActiveLoop`,
where the with-statement is left by it, it is `CloseRaises`: the engine is then
not marked closed and its work may be outstanding. Time is a tick that ages every label; `Budget` is the deadline.

`FrameFifo` is what the caller may rely on, without slots, streams and buffers.
`GpuRing` implements it under the mapping at its end: the queue is the pending
slots with their labels.

`ActiveLoop` is `active_loop` of `scripts/run_gpu_recorded_agent.py` inside the
with-statement of `main`, over the engine.

### The controller: `ControllerSession`

Every process runs `GamepadSession` of `control/session.py` over the actuator
and the lease, step by step: check the process list (Windows), take the lock,
open the device, settle, launch the game, play; then release, poll the child,
wait for the game with retries of the release, unplug, free the lock, end. A call
on the device may fail at any point and may have written before it failed. A kill
frees lock and device at once, as the operating system does. The platform is a
variable that no step changes.

Where no handler is around, Ctrl+C is an action of its own: `LaunchInterrupted`
(in `Popen`, or before `child` is assigned, so that the game runs and `close`
knows of none) and `Escape` (in `close`: before the first `neutral()`, at the poll
and the announcement of lines 65-69, and in the handler at line 82, which is what
a Ctrl+C repeated at once can hit). An `Escape` ends the process and takes the
gamepad along.

On Linux `close` of the device removes the gamepad. On Windows nothing does but
the end of the last reference (`windows_gamepad.py` 56-64, 67-76): an exception
raised inside the gamepad holds it through its traceback. So a gamepad whose
first report failed (`OpenFails`) or whose session ends with an exception
(`Unplug`) may be connected until its process ends (`Exit`), although the lock is
free; how long that is, is up to the caller of the session.
`docs/CONTROLLER_RECOVERY.md` 21-22 says "an OS file lock for the device
lifetime". `OnePad` excuses exactly this: one of two processes is on Windows at
its end, past its lock.

`escaped` and `unlisted` are history: the sessions that an interrupt took from
their running game, and those for whom a game began to run, or lost its session,
after they had read the process list. `PadOutlivesGame` and `NoPadJoinsAGame`
excuse these and no others. The last `neutral()` of the actuator's close has no
effect that outlives the device. An interrupt in the few bytecodes between the
return of any other call and the assignment of its result is a kill here.

### Replays: `Replay`, `RecordSession`

A directory is `meta.json`, `events.json` (both written atomically, so each is
from one writer) and `actions.jsonl` (appended line by line, so it may mix
writers and end in a torn line). Each `ReplayWriter` opened on it is a *take*.
`Readable` is what `ReplayReader` checks, `WriteMeta` and `WriteEvents` are the
two halves of `finalize`. The HUD log takes part in no check and is left out; a
complete last line without its line feed is treated like a torn one; a second
`finalize` on a writer whose first one failed is left out. A replay of no frames
is read without a check of its log, and the model does the same.

`RecordSession` is the loop of `scripts/record_session.py` with its three
records per frame (the action line, the timestamp row, the count) and every
place at which Ctrl+C, an error or a kill may come between them. `OtherProgram`
lets any other user of the writer act on the same directory before or after;
one writer is open at a time.

### The dataset gate: `SampleSelection`, `DatasetGate`

`DatasetGate` extends the recorder by what is done with a recording.
`meta.json` has a second part here, `doc`: the labels the recorder has put into
it, and the ones a person has (`Label`, from the end of the recorder or from the
command line; its read, change and write of `meta.json`, which no lock guards, are
one step here, so two reviews of one segment at the same time are left out). An audit is a process of four steps: the old report is
invalidated, the segments are inspected, the encoder is probed, the report is
written; it may die between any two of them. The first two may happen at any
moment of the recorder. After that an audit works on what it has read and
touches nothing that a recorder or a review touches, so these steps commute
with theirs, and are taken next. The segments beside the recorder's own are a
constant: finished, reviewed, and of one of a few shapes.

`SampleSelection` is `select_samples`: strata, the round-robin that deals the
samples to them, and the evenly spaced frames of each. The round-robin is stated
as the order of its deals, without a loop; its constant lists the strata in the
order of `sorted()`, each once. `CoversDataset` is the reference it is checked
against and proved to meet.

### The memory agent: `LandmarkRoute`, `MemoryAgent`, `RunMemoryAgent`

`LandmarkRoute` is the search and the learning of
`strategist/landmark_route.py`; its two loops are recursive functions of the
number of turns taken, `Turns` of the landmarks visited and `Meets` of the edges
looked at. `MemoryAgent` is one call of `MemoryAgent.step` with
`TimedExecutor.execute` and `LatentBank.add` inside it: look, choose, press,
hold, release, look again until the screen has settled, learn. A frame is the
moment of its step it was taken at (the look, while the input is held, after it
and showing nothing known, after it and showing a landmark), a latent is the
frames it is made of: enough to tell which moments a row of the bank pairs.
`observed` are the frames since the press, of which the wait keeps the last three
and the new one, and `encode_clip` the last `Clip`. Which action the planner
prefers is left open: any input of the mode. `RunMemoryAgent` is the loop of
`scripts/run_memory_agent.py` with its saves and its clean-up, in which any part
may raise and a second interrupt may come. `session.close` at its end belongs to
`ControllerSession`; here the gamepad is gone after it.

`MemoryAgent` takes for granted that `neutral()` lets go of what the device holds,
which is what the gamepad does; `KeyboardActuator` is about the fallback that
does not always.

`since` is history, the boundary that `LatentsAreOfTheirMoment` holds the latents
to: the last look at an unknown screen, the last step that acted in another mode,
the last death card, the last transition that was not verified. Two things the
reader of `frozen_jepa.py` 145 ("menu/level boundaries") might expect are not
among them, since the code does not reset there and the property would be false:
a victory card that is seen and goes away again (`memory_agent.py` 85-99) leaves
the clip of the fight in place, and the frames of an unknown screen that a fight
shows while it settles (138-150) are part of the clip after the action, and of the
one before the next.

### The video of a run: `VideoRecorder`, `RecordedRun`

`VideoRecorder` is the thread of `WindowVideoRecorder` with the two events and
two attributes it shares with its owner; it can fail wherever it calls
something, and can be anywhere when its owner gives up. `RecordedRun` is the
owner: the constructor that waits for `_ready`, `check` before each step, `close`
and `summary` in the clean-up, and the report, around the actions of
`RunMemoryAgent`, each of which it takes whole. The two waits of ten seconds end
either way: the thread is there or it is not. Between two looks of its owner at
it, what the thread does touches nothing the agent touches; so the thread moves
only at the places where the owner could tell. A frame handed to the writer of
OpenCV is taken to be in the file: `write` reports nothing, and a frame that it
drops is beyond what the code can see.

### The keyboard: `KeyboardActuator`

The X server's keys and the actuator's own note of them, under `TimedExecutor`
and the clean-up of a run. `_set` may be cut off after any of its releases and
presses. Its one property is what the documentation says and the code does not
do (section 5).

### Input of a person: `ActionSpace`, `HumanInput`

`ActionSpace` is the pruned action space: legality, `from_raw`, the nearest of
eight aims, `to_buttons` and the reflex override. A deflection is counted in
quarters, so the dead zone of 0.35 lies between one and two; the angle that
separates two aims is decided by a rational tangent between the real one's
neighbours on that grid.

`HumanInput` has the four sources. *evdev*: the kernel queues changes from the
moment the device is open, `active_keys` and the axes are read after that, a
poll drains the queue into `_physical`, and a full queue turns into
`SYN_DROPPED` and the last event. *inputs* (Windows): a thread blocks in
`read()`, which returns what has changed since the last one, and folds it event
by event into the raw state that a poll copies; the thread ends with an error
when the gamepad is gone. *x11*: the focus is looked at, the keys are read, the
focus is looked at again. *scripted*: a sequence of actions. `Reported` is the
wire of each device: the sign of its vertical axis, its range, its hat. A person
moves any control, pulls the plug or switches the window between any two steps.
Device discovery, `wait_for_focus` and the snapshots that repeat the last sample
are left out.

`untold`, `away`, `stray` and `late` are history: they record what the
properties compare and are read by no guard.

Worth knowing, and not flagged by any property: a focus that is lost before the
key query and regained before the second look is not noticed, so keys of another
window may be recorded (`LostFocusIsNoticed` says that this is the only way);
the Windows source starts blank and does not see a button that is held when it
is opened until it moves; an exception that `_apply` itself raised, for an event of a
shape the driver does not send, would end the thread without an error and is not
modelled (`human_input.py` 255); on evdev and keyboard, stick down is a duck, a duck
overrides a lock (`action_space.py` 118 and below), and so the downward aims of a
locked shot cannot be recorded.

### The capture pilot: `CapturePilot`

One turn of the loop of `scripts/windows_capture_pilot.py` is look for a command
(`Top`), press (`SendSetup`), budget, look at focus, timers and exploration
(`Look`), read a frame, judge it (`Judge`: the retry after three death cards,
the record). Commands come from a file that is read again and again and from a
queue that stdin fills. Times are in units of the shortest hold. `Stops` is
every way out of the loop (the game exits, a call raises, Ctrl+C), and `CleanUp`
the two releases after it. `regained` is history: the focus came back since the
pilot last set what it believes it holds. The preview image and the statistics
of the summary are left out.

Worth knowing, and excused in `RecordedInputIsHeld` by `regained`: a press that
was released because the focus was lost while a frame was taken (lines 182-187),
and one that was never sent because the focus was gone at its second check (line
144), stay in `active`; frames taken after the focus is back are recorded with
an input that nothing holds until the next change. An exploration press whose
time is due is replaced by the next without a release between them.

## 4. The runs

| Run | Instance | What it shows |
|---|---|---|
| `babysitter_loop` | 4 tasks, 2 phases, 3 agents, 2 strikes, 2 starts of 2 iterations, 2 starting queues, fair | the safety of commits, HEAD, build order, strikes and grading; a started loop ends |
| `gpu_ring` | 3 slots, 5 submissions, 3 frames of which one is unusable, deadline 2 | buffers, labels, refinement of `FrameFifo` |
| `active_loop` | 2 slots, 4 submissions, 4 results, deadline 1, fair | the loop drops no frame, ends, and an engine it closed is quiet |
| `controller_session` | 2 processes that run again and again, either platform, every failure, kill, interrupt and game started by hand, fair | one gamepad at a time, it outlives its game and joins none, release and end |
| `record_session` | 2 takes of up to 2 frames; audits of 5 samples over 6 libraries of other segments | recordings, reuse of a run id, reviews, audits and samples |
| `memory_agent` | 4 landmarks, 3 steps, bank of 2 rows (empty or full at the start), clip of 4 frames, holds of 4, 2 confirmations, a save every 2 steps; with a recorder, 1 step and 2 frames of video | the agent, its script and its video |
| `human_input` | 4 sources, 9 controls of two positions (one of three), a kernel queue of 2, a script of 2 | answers are legal and current; a dead reader and a lost focus are noticed |
| `capture_pilot` | budget of 3 and 2, 2 commands, holds of 1 and 2 | no press without a release; frames carry what was held |
| `babysitter_qa`, `controller_interrupt`, `human_platforms`, `keyboard_release` | the loop from a fresh queue; the controller as above; the Windows source alone; two keys | disagreements between code and documentation, below |

Why the bounds are enough. *Babysitter*: the fourth task is owned by nobody who
may work, one owner has two tasks, one phase is locked and one dependency is
not met, so every branch of the selection is taken; two starts let leftovers of
a crash meet a fresh run, two iterations let a failed attempt meet a later
commit; the queues start with a task that was given up and with one that waits
for QA. *GPU*: five submissions over three slots wrap the ring and leave two
slots in flight while a third is reused; a deadline of two ticks separates
early, last-moment and late. *Controller*: two processes are one that owns and
one that competes or comes after, as often as they like; the safety proofs cover
any number.
*Replay*: two takes are a dead attempt and the recorder, or the recorder and what
came after; two frames are a first and a last one; the proof covers any number of
both. *Samples*: the libraries are none; enough to train; two segments in one
stratum; too few attempts; too little play; more strata than samples. The first
frame, the last one, strata of one frame and strata that run out are all among
them. *Memory agent*: three steps let two
sightings be separated by something else, fill a bank of two and drop a row, and
make one periodic save fall into the run; clips and holds of four frames are the
ones the code uses, and let a clip reach over two steps or hold one to three
frames of the wait; the recorder runs beside one step, since
further steps look at it in the same way; edges can be learned that make a
second way and a cycle. *Input*: one stick, one hat, one button D-pad, one button
and two keys against each other give every way two controls can contend for a
field; a queue of two overflows with the third event. Positions are at rest or
at an end of their range, and the vertical axis of the stick between the two as
well, so that a sign that is lost and a deflection that is rounded are told apart. *Pilot*:
two commands are one that replaces another; the budgets let a hold end before
and after each.

Deadlock is not checked where the system may stop: the loop and the engine when
their bounds are used up or they are closed, the recorder, the agent and the
keyboard when their process is over, the sources and the pilot once they are
closed.
`ControllerSession` is checked for deadlock.

**Fairness.** `babysitter_loop`: every call of an agent has a wall-clock limit
(`timeout_s`), so a step of the loop that is enabled is taken. `active_loop`: the
CPU thread runs on, each stream executes what was launched, and the producer
has a frame again and again (strong fairness of a fetch); no fairness is assumed
of exceptions. `controller_session`: each process goes on through its close;
nothing makes a person close a game or a device work, except that `InputIsReleased` says what holds if a
retry that is possible again and again succeeds at some time.

## 5. Findings

1. `babysitter_qa`: a task left `IMPLEMENTED` by a restart is never routed to QA
   (`tasks.py` says it is).
2. `human_platforms`: the Windows source never sets `raw["duck"]`
   (`human_input.py`, `_apply`), so stick or D-pad down is a duck in a Linux
   recording and nothing in a Windows one, although line 34 calls the
   demonstrations of the two interchangeable.
3. `keyboard_release`: when Ctrl+C or an error cuts `_set` of `x11_keyboard.py`
   off before line 30, the keys it has already pressed are in no set, and neither
   the `finally` of the executor nor the clean-up releases them, although
   `docs/FROZEN_LATENT_MEMORY.md` says that the runner "releases input" on an
   interruption (104) and that release is protected by `finally` (34).

4. `controller_interrupt`: a Ctrl+C while the one before it is being handled
   (`session.py` 82), or before the wait has begun (65-69), leaves `close`; the
   process ends and the gamepad is gone while the game runs, although
   `docs/CONTROLLER_RECOVERY.md` 31-32 says that repeated Ctrl+C "leaves the
   controller connected".

Met while modelling, and not the subject of a run: a worker that answers BLOCKED
is selected again without a strike (`babysitter_loop.py` 257), so "three
consecutive failures" (15-16) do not halt the loop; a `git add` that fails
goes unnoticed (128), and the next commit then holds two tasks, against "One task
per commit" (17); a Windows gamepad may outlive its lock (section 3), against
"an OS file lock for the device lifetime" (`docs/CONTROLLER_RECOVERY.md` 21-22);
a victory card and the unknown frames of a wait stay in the motion context
(section 3), against "at menu/level boundaries" (`frozen_jepa.py` 145) and "not
silently paired with a later action" (`memory_agent.py` 155); a run id used again
after a crash is finalized and cannot be read (`replay.py` 153 and 175), which
`RecordingIsReadable` excludes by asking for a fresh directory.

## 6. The proofs

TLAPS checks the following for every value of the constants, under the
assumptions named in the modules (`QueueAssumption`, `LoopAssumption`,
`RingAssumption`, `SessionAssumption`, `ReplayAssumption`, `InputAssumption` and
so on), which TLC evaluates on each run. Each `*_proofs` module extends the module
it is about.

**Babysitter** (`BabysitterLoop_proofs`):
`CommitsHoldNoStrayWork`, `HeadHoldsAcceptedWork`, `BuildOrderIsRespected`,
`StrikesHaveRecords`, `NobodyGradesHimself`, `TypesHold`. A commit takes the whole
tree, so that it holds no stray edits is a fact about everything before it:
`CommitInv` says where edits may be while an iteration is at each of its steps
(none when a task is selected in a clean tree, only the task's while it is worked
on, and those of closed tasks whose commit was missed), `WorkInv` what the task at
hand was when it was selected, `HeadInv` that what HEAD calls closed is closed. A
failed attempt leaves its edits in the tree, so the task must be the one that is
selected next: the lemmas on the queue say that selection is the first of a total
order, and that neither `refresh_blocked` nor the statuses the task itself goes
through change that.
`OrderInv`: whoever is at work, in the tree or in HEAD, may be: what is closed
stays closed and what is unlocked stays unlocked, but for a stash, which goes back
to a HEAD of which the same holds. `StrikeInv`: no more strikes than records, in
the tree and in HEAD, and one fewer between the two writes; it rests on a lemma
on the number of records after an append. `GradeInv`: whom an iteration has run
at each of its steps.

**GPU engine** (`GpuRing_proofs`): `ActionsAreOfTheirFrames`, `ClosingIsQuiet`,
`StagingFindsFreeSlots`, `RingImplementsFifo`, `TypesHold`, and of `ActiveLoop`
`LoopClosesQuiet` and `LoopDropsNoFrame`. `RingInv`: the
pending slots are the last ones taken, in order, counted from the next slot.
`StreamInv`: every launch that is outstanding belongs to the submission its slot
is labelled with, whose event is still to come, and launches of a stream are in
order of submission. `EventInv`: the three events of a slot come in order and
each vouches for the content of one buffer. The refinement follows because the
label of a pending slot is the queue entry it maps to.

**Controller** (`ControllerSession_proofs`), with interrupts, kills and failures
everywhere: `OneControllerOwner` from `PadInv` (a device exists only at the labels
at which the lock is held, but on Windows also past it until the process ends);
`PadsOutliveGames` and `NoPadJoins` from `GameInv` (the game of a session that no
interrupt has escaped runs only at the labels after the launch; a game that runs
without a session is one that whoever is about to open a gamepad did not find in
the list).

**Replays** (`RecordSession_proofs`): `ReadsAreOfOneTake`,
`ReadingMeansFinalized`, `CertifiedRecordingsAreAligned`, `RecordingsAreReadable`,
`TypesHold`; of the gate `AuditedRecordingsAreRecordings`, `WhatCountsIsReviewed`,
`PassesAreInvalidated`, `OffsetsIncrease`, `SelectionCovers` and
`ProbesCoverTheDataset`. `LogInv`: as long as the log parses, the writer's own lines are its
last ones, and `meta.json` counts lines of one take. `RecInv`: the recorder's
directory is fresh, so its take is the first, and its three records agree at each
place of the loop up to what an interrupt may have cut off. An audited recording is
a recording, so these hold under the gate too; `DocInv` adds that the labels lie
beside the recorder's own meta data and are verified only by a review of that very
take. `OffsetsIncrease` is the arithmetic of the spacing, for strata and quotas
of any size. `SelectionCovers` counts. Ranks in a strict total order are the
numbers up to the size of a finite set, so the first `wanted` deals are as many
as wanted and with a deal contain every earlier one; a stratum is therefore dealt
an initial stretch of its rounds (`DealsAre`), two strata differ by at most one
round unless one is exhausted (`RoundsAre`), and each has a first one when as
many are wanted as there are strata (`EnoughDeals`). Each deal is then a frame of
its own, because the frame of a given rank exists (`LocatedIs`) and offsets
increase. The audit adds only that what it has found are segments of listed
strata (`FoundInv`).

**Memory agent** (`RunMemoryAgent_proofs`): `InputIsLetGo` (inductive as it
stands), `AWinIsWitnessed` from `CountInv` and `WinInv` (the terminal counter is
never ahead of the looks that were really made), `LatentsAreKeptApart` and
`BankIsTheNewest` from `RowInv` (the frames of the context lie between `since` and
now; the bank is the tail of what was learned, by the lemma on tails of tails) and
`ObservedInv` (what is observed in a step is from after its press, and ends with
what was seen last), `WhatIsLearnedIsSaved` from `SavedInv` (what is unsaved is
at most the step modulo `SaveEvery`). A recorded run is a run
(`RecordedRunsAreRuns`); `ReportedVideosAreComplete` follows from `FilesInv` (a frame
is in the video, then in the log, then counted, and only an error comes between),
`WriterInv` (the file is opened before the first frame and released after the
last) and `OwnerInv` (the owner is told of all that could be wrong).

**Route** (`LandmarkRoute_proofs`, which `RunMemoryAgent_proofs` extends):
`TheSearchIsRight` for any finite graph, and from it `TheRouteIsShortest` for
every moment of every run, since a run only adds edges between known landmarks
(`GraphInv`). The reference is `Near`, the landmarks at most *n* edges from the
goal, which the search does not compute: it goes the other way, from the current
landmark. Its invariant (`Layered`) gives each visited landmark a depth that the
code does not keep: the queue is ordered by depth and spans two layers, what has
left the queue has all its targets visited, and the first edge that is queued
with a landmark is such that, if the goal is *m* edges from that landmark, it is
no farther than *m* plus the depth less one from the end of that first edge. When
the goal is met no landmark of a lesser depth leads to it, so the answer is a
shortest way; when the queue is empty the visited landmarks are closed under the
edges and the goal is not among them. The search ends within as many turns as
there are landmarks, as no landmark is queued twice. The inductions over turns,
edges and rings are over sets of numbers and over functions, which the provers
can instantiate, unlike the operators that the library's induction theorems take.

**Input** (`HumanInput_proofs`): the pruning returns a legal action for whatever
integers and flags a device holds (`FromRawIsLegal`), an override is legal
(`MergeIsLegal`) and the buttons a replay stores determine the action
(`ButtonsTellActionsApart`). Of the sources: `AnswersAreLegal`;
`RawStateKeepsUp` from `FoldedInv` (the raw state of the Windows thread is right
about whatever the thread was told and does not have to fold still, at any
position of a control); `NothingIsMissed` from `CopyInv` (unless events were lost,
the last queued event of each control says where it is, or nothing is queued and
the copy does, or it is still to be read), with two lemmas on what appending and
taking the head does to that; `Noticed` and `OnlyTheGamesKeys` from one small
invariant each.

**Pilot** (`CapturePilot_proofs`): `PressesEnd` from `PressInv` (within the loop,
nothing is held or there is a release time) and `FramesCarryTheirInput` from
`BeliefInv` (what the pilot believes is held is held, or the focus is gone, or it
has come back since).

**Only model-checked.** The four liveness properties `EveryRunEnds`,
`LoopDelivers`, `InputIsReleased` and `ControllerComesFree`: fairness is stated
with `ENABLED`, which is out of the prover's reach. Every other property of the
passing runs is a theorem.

## 7. What is not modelled

`PROJECT.json` lists every part with its reason.

- Encoders, dynamics, planners, landmarks, metrics and the bootstrap of the gates
  are numerical; the models take their verdict as a free choice.
- Preflight, launcher and audit tools are one-shot command lines without state;
  their verdicts are inputs.
- Frame sources are calls into the graphics system, whose frame or failure is an
  input. The integrity tracker compares a frame with the one before it; where the
  recorder uses it, its verdict is a frame or an error at any read.
- Menu navigation has a closed loop of its own, but no program of the repository
  runs it; the memory agent and the timed executor took its place.
- Event and state schemas are records and their encoding; `dps_uptime` is float
  arithmetic over intervals.
- Two babysitter loops, or a loop and a person, that write `.ai/` at the same time:
  there is no lock, and neither code nor documentation says what should happen.
- Within modelled parts: the command lines, time stamps, prompts, statistics and
  texts; validation of read documents; the HUD log; device discovery; lookup and
  distances in the latent bank. The components' notes name them one by one.
