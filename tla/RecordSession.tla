---------------------------- MODULE RecordSession ----------------------------
(***************************************************************************)
(* record of scripts/record_session.py over the writer of Replay: a frame, *)
(* an action and a timestamp row in lock-step, stopped by a limit, a lost  *)
(* focus, Ctrl+C, an error or a kill between any two steps.  Any other     *)
(* program that uses the writer may take the same run id before or after.  *)
(***************************************************************************)
EXTENDS Replay

VARIABLES
    pc,         (* where the recorder is                                    *)
    created,    (* the directory exists                                     *)
    count,      (* complete frames                                          *)
    rows,       (* frames.jsonl                                             *)
    recorded,   (* history: the takes of the recorder                       *)
    sampled     (* history: of each action line, the frame it was polled at *)

recordVars == <<pc, created, count, rows, recorded, sampled>>
allVars == <<replayVars, recordVars>>

RecordInit ==
    /\ ReplayInit
    /\ pc = "start" /\ created = FALSE /\ count = 0 /\ rows = <<>>
    /\ recorded = {} /\ sampled = <<>>

Goto(label) == pc' = label

\* mkdir with exist_ok=False: a run id is used once.
Create ==
    /\ pc = "start"
    /\ IF created THEN created' = created /\ Goto("over")
                 ELSE created' = TRUE /\ Goto("opening")
    /\ UNCHANGED <<replayVars, count, rows, recorded, sampled>>

\* The sources, then the writer, then frames.jsonl.
Open ==
    /\ pc = "opening"
    /\ OpenWriter
    /\ recorded' = recorded \cup {take'}
    /\ Goto("loop")
    /\ UNCHANGED <<created, count, rows, sampled>>

OpenFails ==
    /\ pc = "opening"
    /\ Goto("over")
    /\ UNCHANGED <<replayVars, created, count, rows, recorded, sampled>>

\* A frame, the action polled right after it, the image.
Capture ==
    /\ pc = "loop" /\ count < MaxFrames
    /\ Goto("log")
    /\ UNCHANGED <<replayVars, created, count, rows, recorded, sampled>>

Log ==
    /\ pc = "log"
    /\ LogAction(count)
    /\ sampled' = Append(sampled, count)
    /\ Goto("row")
    /\ UNCHANGED <<created, count, rows, recorded>>

Row ==
    /\ pc = "row"
    /\ rows' = Append(rows, count)
    /\ Goto("count")
    /\ UNCHANGED <<replayVars, created, count, recorded, sampled>>

CountFrame ==
    /\ pc = "count"
    /\ count' = count + 1
    /\ Goto("loop")
    /\ UNCHANGED <<replayVars, created, rows, recorded, sampled>>

\* The budget or the deadline is reached.
LimitReached ==
    /\ pc = "loop"
    /\ Goto("verify")
    /\ UNCHANGED <<replayVars, created, count, rows, recorded, sampled>>

\* Ctrl+C or a lost focus; what is recorded so far may still be finalized.
Interrupted ==
    /\ pc \in {"loop", "log", "row", "count"}
    /\ Goto("verify")
    /\ UNCHANGED <<replayVars, created, count, rows, recorded, sampled>>

\* Ctrl+C inside log_action, when the frame is noted and its line is not written.
LogInterrupted ==
    /\ pc = "log" /\ writer = "open"
    /\ logged' = logged \cup {count}
    /\ Goto("verify")
    /\ UNCHANGED <<disk, take, writer, finalized, created, count, rows, recorded, sampled>>

\* "Verify the two logs before finalization, including interrupted writes."
Verified == count > 0 /\ rows = [i \in 1..count |-> i - 1]

Finalize ==
    /\ pc = "verify" /\ Verified
    /\ WriteMeta(count)
    /\ Goto("events")
    /\ UNCHANGED <<created, count, rows, recorded, sampled>>

FinalizeRest ==
    /\ pc = "events"
    /\ WriteEvents
    /\ Goto("over")
    /\ UNCHANGED <<created, count, rows, recorded, sampled>>

\* A check that fails, an error, or Ctrl+C outside the loop: abandon.
Abandon ==
    /\ pc \in {"loop", "log", "row", "verify", "events"}
    /\ Stop
    /\ Goto("over")
    /\ UNCHANGED <<created, count, rows, recorded, sampled>>

\* The process is killed.
Kill ==
    /\ \/ pc \in {"loop", "log", "row", "count", "verify", "events"} /\ Stop
       \/ pc = "log" /\ StopInLine
       \/ pc = "opening" /\ UNCHANGED replayVars
    /\ Goto("over")
    /\ UNCHANGED <<created, count, rows, recorded, sampled>>

\* The recorder is started again with the same run id.
Again ==
    /\ pc = "over" /\ take < MaxTakes
    /\ Goto("start")
    /\ count' = 0
    /\ UNCHANGED <<replayVars, created, rows, recorded, sampled>>

\* Another program, write_replay for one, uses the writer on this directory.
OtherProgram ==
    /\ pc \in {"start", "over"}
    /\ ReplayNext
    /\ created' = TRUE
    /\ UNCHANGED <<pc, count, rows, recorded, sampled>>

RecordNext ==
    \/ Create \/ Open \/ OpenFails \/ Capture \/ Log \/ Row \/ CountFrame
    \/ LimitReached \/ Interrupted \/ LogInterrupted
    \/ Finalize \/ FinalizeRest \/ Abandon \/ Kill \/ Again
    \/ OtherProgram

RecordSpec == RecordInit /\ [][RecordNext]_allVars

-----------------------------------------------------------------------------

\* A recording that reads has one action and one timestamp row per frame, in
\* order, the action polled at that very frame, wherever Ctrl+C, an error or a
\* kill struck: "a partially written final row must not be certified".
CertifiedIsAligned ==
    Readable /\ meta.take \in recorded =>
        /\ [i \in DOMAIN actions |-> actions[i].frame] = rows
        /\ sampled = rows
        /\ Len(rows) = meta.frames

\* "An unfinalized directory is not a valid replay and is rejected": a recording
\* that reads was finalized, whatever was killed in the middle of finalizing.
ReadableMeansFinalized ==
    Readable /\ meta.take \in recorded => meta.take \in finalized /\ events = meta.take

\* What the recorder has finalized is readable, as long as no other program has
\* used the run id since.
RecordingIsReadable == take \in recorded => FinalizedIsReadable
=============================================================================
