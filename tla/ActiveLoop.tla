----------------------------- MODULE ActiveLoop -----------------------------
(***************************************************************************)
(* active_loop of scripts/run_gpu_recorded_agent.py over the engine of     *)
(* GpuRing, inside the with-statement of main: poll, consume, and submit   *)
(* the newest frame when there is room; however the loop is left, close is *)
(* called, and may itself be interrupted or fail.                          *)
(***************************************************************************)
EXTENDS GpuRing

CONSTANT Count      (* how many results the loop is asked for               *)

ASSUME LoopAssumption == Count \in 1..MaxSequence

VARIABLES
    pc,         (* poll, submit, leaving the with-statement, over           *)
    submitted, completed,
    fetched,    (* history: frames taken from the producer                  *)
    raised      (* history: the with-statement was left by an exception     *)

loopVars == <<pc, submitted, completed, fetched, raised>>
allVars == <<vars, loopVars>>

LoopInit ==
    /\ Init
    /\ pc = "poll" /\ submitted = 0 /\ completed = 0
    /\ fetched = 0 /\ raised = FALSE

\* poll, and consume if there is a result.
PollStep ==
    /\ pc = "poll" /\ completed < Count
    /\ pc' = "submit"
    /\ IF Ready THEN Poll /\ completed' = completed + 1
                ELSE UNCHANGED <<vars, completed>>
    /\ UNCHANGED <<submitted, fetched, raised>>

\* Mutant: frames are fetched whether there is a slot or not.
RoomForAnother == submitted < Count

Room == submitted < Count /\ Len(pending) < Capacity

\* A frame is fetched; a full ring rejects it.
SubmitStep(f, age) ==
    /\ pc = "submit" /\ Room
    /\ fetched' = fetched + 1
    /\ IF Full THEN UNCHANGED <<vars, submitted>>
               ELSE Submit(f, age) /\ submitted' = submitted + 1
    /\ pc' = "poll"
    /\ UNCHANGED <<completed, raised>>

\* No room, or the producer reports no frame.
NoSubmitStep ==
    /\ pc = "submit"
    /\ pc' = "poll"
    /\ UNCHANGED <<vars, submitted, completed, fetched, raised>>

FinishStep ==
    /\ pc = "poll" /\ completed = Count
    /\ pc' = "leaving"
    /\ UNCHANGED <<vars, submitted, completed, fetched, raised>>

\* An exception leaves the loop; __exit__ will close the engine.
Raise ==
    /\ pc' = "leaving" /\ raised' = TRUE
    /\ UNCHANGED <<submitted, completed>>

\* The submission raises.
SubmitRaises(f, age) ==
    /\ pc = "submit" /\ Room
    /\ SubmitFails(f, age)
    /\ fetched' = fetched + 1
    /\ Raise

\* KeyboardInterrupt comes when everything is launched and the slot is not yet
\* entered as pending.
SubmitInterrupted(f, age) ==
    /\ pc = "submit" /\ Room /\ Usable /\ ~Full
    /\ Stage(nextSlot, f, age) /\ LaunchFirst(3)
    /\ fetched' = fetched + 1
    /\ Raise
    /\ UNCHANGED <<pending, nextSlot, sequence, faulted, closed, last,
                   device_input, outputs, host_outputs, events>>

\* consume raises: its result is out of the ring and not counted.
ConsumeRaises ==
    /\ pc = "poll" /\ completed < Count
    /\ Poll
    /\ UNCHANGED fetched
    /\ Raise

\* KeyboardInterrupt between two calls, or the producer raises.
Interrupted ==
    /\ pc \in {"poll", "submit"}
    /\ UNCHANGED <<vars, fetched>>
    /\ Raise

\* __exit__
CloseStep ==
    /\ pc = "leaving"
    /\ Close
    /\ pc' = "over"
    /\ UNCHANGED <<submitted, completed, fetched, raised>>

\* A second KeyboardInterrupt, or a CUDA error, in the drain of close: the engine
\* is not marked as closed, and its results are dropped only after the drain.
CloseRaises ==
    /\ pc = "leaving"
    /\ \/ UNCHANGED pending
       \/ Drained /\ pending' = <<>>
    /\ pc' = "over" /\ raised' = TRUE
    /\ UNCHANGED <<nextSlot, sequence, faulted, closed, slot, last,
                   buffers, streams, events, submitted, completed, fetched>>

Fetching == \E f \in Frames, age \in Ages : SubmitStep(f, age)

Loop == PollStep \/ Fetching \/ NoSubmitStep \/ FinishStep \/ CloseStep

Raising ==
    \/ \E f \in Frames, age \in Ages : SubmitRaises(f, age) \/ SubmitInterrupted(f, age)
    \/ ConsumeRaises
    \/ Interrupted
    \/ CloseRaises

Environment == (Gpu \/ Tick) /\ UNCHANGED loopVars

LoopNext == Loop \/ Raising \/ Environment

LoopSpec == LoopInit /\ [][LoopNext]_allVars

\* The thread runs on, the streams execute what is launched, and the producer
\* has a frame again and again.
FairLoopSpec ==
    /\ LoopSpec
    /\ WF_allVars(Loop)
    /\ SF_allVars(Fetching)
    /\ WF_allVars(Copy /\ UNCHANGED loopVars)
    /\ WF_allVars(Compute /\ UNCHANGED loopVars)
    /\ WF_allVars(Read /\ UNCHANGED loopVars)

-----------------------------------------------------------------------------

\* "No frames are fetched when the ring is full": whatever was fetched has been
\* submitted, so no frame is dropped and none grows old on the CPU.
FetchedFramesAreSubmitted == ~raised => fetched = sequence

\* The loop ends with all the results it was asked for unless it is left by an
\* exception; nothing waits for a frame, a slot or an event for ever.
LoopDelivers == <>(pc = "over" /\ (completed = Count \/ raised))
=============================================================================
