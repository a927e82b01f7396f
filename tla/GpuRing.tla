------------------------------- MODULE GpuRing -------------------------------
(***************************************************************************)
(* RingBufferedGPURecordedAgentEngine of orchestration/                    *)
(* gpu_recorded_agent.py: a ring of slots with buffers on both sides of    *)
(* the bus, and three CUDA streams that work on them while the one CPU     *)
(* thread goes on.  A stream executes its launches in order; streams are   *)
(* ordered among each other only by the events the code has them wait for. *)
(* A copy or a replay takes effect at one moment between its launch and    *)
(* its event: a buffer that is touched too early or too late in that time  *)
(* makes a state with the wrong content.                                   *)
(***************************************************************************)
EXTENDS Integers, Sequences

CONSTANTS
    Frames,         (* the frames a caller may submit                       *)
    Unusable,       (* the frames whose embedding is not finite or is zero  *)
    Capacity,       (* slots                                                *)
    Budget,         (* budget_ms, in ticks                                  *)
    MaxSequence,    (* BOUND: accepted submissions                          *)
    None            (* no frame and no action                               *)

ASSUME RingAssumption ==
    /\ Unusable \subseteq Frames
    /\ Capacity \in Nat \ {0, 1}
    /\ Budget \in Nat \ {0}
    /\ MaxSequence \in Nat
    /\ None \notin Frames

VARIABLES
    \* the engine, in CPU memory
    pending,    (* _pending: the slots that wait to be consumed, in order   *)
    nextSlot,   (* _next_slot                                               *)
    sequence,   (* _sequence                                                *)
    faulted,    (* _faulted                                                 *)
    closed,     (* _closed                                                  *)
    slot,       (* of each slot: sequence, frame_id and the time since      *)
                (* submitted_at                                             *)
    last,       (* the last result handed out                               *)
    \* the buffers of each slot: the frame whose pixels or result they hold
    host_input, device_input, outputs, host_outputs,
    \* the streams: launches that are not executed, and the events of each
    \* slot: the sequence number for which it was last signalled
    copying, computing, reading,
    copy_done, graph_done, done

engine == <<pending, nextSlot, sequence, faulted, closed, slot, last>>
buffers == <<host_input, device_input, outputs, host_outputs>>
streams == <<copying, computing, reading>>
events == <<copy_done, graph_done, done>>
vars == <<engine, buffers, streams, events>>

Slots == 0..(Capacity - 1)
Ages == 0..Budget
NoResult == [sequence |-> -1, frame |-> None, action |-> None]

\* A launch on a stream, for the submission with number n in slot s.
Launch(s, n) == [slot |-> s, sequence |-> n]

\* After _capture: every event was recorded once, no work is outstanding.
Init ==
    /\ pending = <<>> /\ nextSlot = 0 /\ sequence = 0
    /\ faulted = FALSE /\ closed = FALSE
    /\ slot = [s \in Slots |-> [sequence |-> -1, frame |-> None, age |-> Budget]]
    /\ last = NoResult
    /\ host_input = [s \in Slots |-> None]
    /\ device_input = [s \in Slots |-> None]
    /\ outputs = [s \in Slots |-> None]
    /\ host_outputs = [s \in Slots |-> None]
    /\ copying = <<>> /\ computing = <<>> /\ reading = <<>>
    /\ copy_done = [s \in Slots |-> -1]
    /\ graph_done = [s \in Slots |-> -1]
    /\ done = [s \in Slots |-> -1]

-----------------------------------------------------------------------------
(* The CPU thread.                                                         *)

\* Mutant: a faulted engine is still used.
UsableWhenFaulted == ~closed

\* _check_owner, for the thread that owns the engine.
Usable == ~closed /\ ~faulted

Full == Len(pending) = Capacity

\* Mutant: the ring does not wrap.
SlotAfterNoWrap(s) == s + 1

SlotAfter(s) == (s + 1) % Capacity

\* The labels of the slot and its staging buffer, written before any launch.
Stage(s, f, age) ==
    /\ slot' = [slot EXCEPT ![s] = [sequence |-> sequence, frame |-> f, age |-> age]]
    /\ host_input' = [host_input EXCEPT ![s] = f]

\* The first k of the three launches of a submission.
LaunchFirst(k) ==
    LET l == Launch(nextSlot, sequence)
    IN  /\ copying' = IF k >= 1 THEN Append(copying, l) ELSE copying
        /\ computing' = IF k >= 2 THEN Append(computing, l) ELSE computing
        /\ reading' = IF k >= 3 THEN Append(reading, l) ELSE reading

\* The whole submission, and the slot handed out.
Take(f, age) ==
    /\ Stage(nextSlot, f, age)
    /\ LaunchFirst(3)
    /\ pending' = Append(pending, nextSlot)
    /\ nextSlot' = SlotAfter(nextSlot)
    /\ sequence' = sequence + 1

\* Mutant: the labels are written before the ring is found full.
SubmitLabelsFirst(f, age) ==
    /\ Usable /\ sequence < MaxSequence
    /\ \/ ~Full /\ Take(f, age)
       \/ /\ Full
          /\ Stage(nextSlot, f, age)
          /\ UNCHANGED <<pending, nextSlot, sequence, streams>>
    /\ UNCHANGED <<faulted, closed, last, device_input, outputs, host_outputs, events>>

\* try_submit with a slot to take.  A full ring rejects at once (None) and
\* changes nothing.  Age is what has passed since the frame was captured.
Submit(f, age) ==
    /\ Usable /\ ~Full /\ sequence < MaxSequence
    /\ Take(f, age)
    /\ UNCHANGED <<faulted, closed, last, device_input, outputs, host_outputs, events>>

\* An exception inside the try block: some of the launches are out already.
SubmitFails(f, age) ==
    /\ Usable /\ ~Full /\ sequence < MaxSequence
    /\ Stage(nextSlot, f, age)
    /\ \E k \in 0..3 : LaunchFirst(k)
    /\ faulted' = TRUE
    /\ UNCHANGED <<pending, nextSlot, sequence, closed, last,
                   device_input, outputs, host_outputs, events>>

\* done.query() of the oldest slot.
Ready == pending # <<>> /\ done[Head(pending)] = slot[Head(pending)].sequence

\* The action of a result: none if the embedding is not valid or the deadline
\* is missed.
Vote(s) ==
    IF slot[s].age >= Budget \/ host_outputs[s] \in Unusable THEN None ELSE host_outputs[s]

\* poll with a result: the oldest slot is read and given back to the ring.
Poll ==
    /\ Usable /\ Ready
    /\ LET s == Head(pending)
       IN  last' = [sequence |-> slot[s].sequence, frame |-> slot[s].frame, action |-> Vote(s)]
    /\ pending' = Tail(pending)
    /\ UNCHANGED <<nextSlot, sequence, faulted, closed, slot, buffers, streams, events>>

\* Mutant: a ring without results to wait for is not drained.
DrainedOrIdle == pending = <<>> \/ (copying = <<>> /\ computing = <<>> /\ reading = <<>>)

Drained == copying = <<>> /\ computing = <<>> /\ reading = <<>>

\* close waits for the three streams, then drops results and buffers; it is
\* allowed on a faulted engine.
Close ==
    /\ ~closed /\ Drained
    /\ closed' = TRUE
    /\ pending' = <<>>
    /\ UNCHANGED <<nextSlot, sequence, faulted, slot, last, buffers, streams, events>>

-----------------------------------------------------------------------------
(* The GPU, and time.                                                      *)

Copy ==
    /\ copying # <<>>
    /\ LET l == Head(copying)
       IN  /\ device_input' = [device_input EXCEPT ![l.slot] = host_input[l.slot]]
           /\ copy_done' = [copy_done EXCEPT ![l.slot] = l.sequence]
    /\ copying' = Tail(copying)
    /\ UNCHANGED <<engine, host_input, outputs, host_outputs, computing, reading,
                   graph_done, done>>

\* Mutants: compute waits for nothing; it waits for the wrong event.
CopyNotAwaited(l) == TRUE
ReadAwaited(l) == done[l.slot] >= l.sequence

\* wait_event(copy_done)
CopyAwaited(l) == copy_done[l.slot] >= l.sequence

\* The replay of the graph of the slot, and graph_done.
Compute ==
    /\ computing # <<>>
    /\ LET l == Head(computing)
       IN  /\ CopyAwaited(l)
           /\ outputs' = [outputs EXCEPT ![l.slot] = device_input[l.slot]]
           /\ graph_done' = [graph_done EXCEPT ![l.slot] = l.sequence]
    /\ computing' = Tail(computing)
    /\ UNCHANGED <<engine, host_input, device_input, host_outputs, copying, reading,
                   copy_done, done>>

\* wait_event(graph_done), the copies of the outputs, done.
Read ==
    /\ reading # <<>>
    /\ LET l == Head(reading)
       IN  /\ graph_done[l.slot] >= l.sequence
           /\ host_outputs' = [host_outputs EXCEPT ![l.slot] = outputs[l.slot]]
           /\ done' = [done EXCEPT ![l.slot] = l.sequence]
    /\ reading' = Tail(reading)
    /\ UNCHANGED <<engine, host_input, device_input, outputs, copying, computing,
                   copy_done, graph_done>>

Gpu == Copy \/ Compute \/ Read

Older(age) == IF age < Budget THEN age + 1 ELSE age

\* perf_counter moves on, for every slot alike.
Tick ==
    /\ ~closed
    /\ slot' = [s \in Slots |-> [slot[s] EXCEPT !.age = Older(@)]]
    /\ UNCHANGED <<pending, nextSlot, sequence, faulted, closed, last,
                   buffers, streams, events>>

-----------------------------------------------------------------------------
(* A caller that submits, polls and closes in any order.                   *)

Next ==
    \/ \E f \in Frames, age \in Ages : Submit(f, age) \/ SubmitFails(f, age)
    \/ Poll
    \/ Close
    \/ Gpu
    \/ Tick

Spec == Init /\ [][Next]_vars

-----------------------------------------------------------------------------

Contents == [Slots -> Frames \cup {None}]
Numbers == [Slots -> -1..MaxSequence]
Launches == [slot : Slots, sequence : 0..MaxSequence]

TypeOK ==
    /\ pending \in Seq(Slots)
    /\ nextSlot \in Slots
    /\ sequence \in 0..MaxSequence
    /\ faulted \in BOOLEAN
    /\ closed \in BOOLEAN
    /\ slot \in [Slots -> [sequence : -1..MaxSequence, frame : Frames \cup {None}, age : Ages]]
    /\ last \in [sequence : -1..MaxSequence, frame : Frames \cup {None},
                 action : Frames \cup {None}]
    /\ host_input \in Contents /\ device_input \in Contents
    /\ outputs \in Contents /\ host_outputs \in Contents
    /\ copying \in Seq(Launches) /\ computing \in Seq(Launches) /\ reading \in Seq(Launches)
    /\ copy_done \in Numbers /\ graph_done \in Numbers /\ done \in Numbers

\* An action is the one voted for by the very frame the result names, though
\* three streams wrote its buffers without the CPU ever waiting for them.
ActionIsOfItsFrame == last.action \in {None, last.frame}

\* A launch of slot s that no stream has executed.
Outstanding(s) ==
    \E q \in {copying, computing, reading} : \E i \in DOMAIN q : q[i].slot = s

\* The slot is labelled, or its staging buffer written, in this step.
Restaged(s) == slot'[s].sequence # slot[s].sequence \/ host_input'[s] # host_input[s]

\* "A pending DMA source cannot be overwritten": the staging buffer of a slot
\* is written only when no launch of that slot is outstanding, in a ring that
\* is full or failing as well.
StagingIsFree ==
    [][\A s \in Slots : Restaged(s) => ~Outstanding(s)]_vars

\* Buffers are given up only when no stream can touch them any more, also when
\* the engine failed in the middle of a submission.
ClosedIsQuiet == closed => \A s \in Slots : ~Outstanding(s)

\* The ring is a queue that answers each frame once, in order, by its own
\* pixels and in time: slots, streams, buffers and events do not show.
Queue(ring, label) ==
    [i \in DOMAIN ring |-> [frame |-> label[ring[i]].frame, age |-> label[ring[i]].age]]

Mode(isClosed, isFaulted) ==
    IF isClosed THEN "closed" ELSE IF isFaulted THEN "faulted" ELSE "open"

Fifo == INSTANCE FrameFifo WITH
    queue <- Queue(pending, slot),
    accepted <- sequence,
    mode <- Mode(closed, faulted)

ImplementsFifo == Fifo!FifoSpec
=============================================================================
