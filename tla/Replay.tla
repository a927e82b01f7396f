------------------------------- MODULE Replay -------------------------------
(***************************************************************************)
(* ReplayWriter and ReplayReader of memory/replay.py on one directory.     *)
(* Every writer that is opened on the directory is a take.  A file that is *)
(* written atomically names the take it is from; the action log, which is  *)
(* appended to, is a sequence of lines.  A crash may come between any two  *)
(* writes and in the middle of a line.                                     *)
(***************************************************************************)
EXTENDS Naturals, Sequences, FiniteSets

CONSTANTS
    MaxFrames,      (* BOUND: frames of a replay                            *)
    MaxTakes,       (* BOUND: writers opened on the directory               *)
    None,           (* no such file                                         *)
    Torn            (* a line that does not parse                           *)

ASSUME ReplayAssumption ==
    /\ MaxFrames \in Nat /\ MaxTakes \in Nat
    /\ None \notin Nat \cup [take : Nat, frames : Nat]
    /\ Torn \notin [take : Nat, frame : Nat]

VARIABLES
    \* the directory
    meta,       (* meta.json: its take and its frame_count                  *)
    events,     (* events.json: its take                                    *)
    actions,    (* actions.jsonl                                            *)
    \* the writer
    take,       (* the number of writers so far                             *)
    writer,     (* "closed", "open", or "meta": inside finalize             *)
    logged,     (* _logged_frames                                           *)
    finalized   (* history: the takes whose finalize has returned           *)

disk == <<meta, events, actions>>
writerVars == <<take, writer, logged, finalized>>
replayVars == <<disk, writerVars>>

FrameIndices == 0..(MaxFrames - 1)
Line(t, f) == [take |-> t, frame |-> f]

ReplayInit ==
    /\ meta = None /\ events = None /\ actions = <<>>
    /\ take = 0 /\ writer = "closed" /\ logged = {} /\ finalized = {}

\* Mutants: frames that are too many are not noticed; repeated ones are not.
AlignedIgnoresExtra(frames, lines, n) == n = 0 \/ 0..(n - 1) \subseteq frames
AlignedIgnoresRepeats(frames, lines, n) == n = 0 \/ frames = 0..(n - 1)

\* _assert_alignment: sorted, the frames of the lines are 0, 1, .. n-1; a replay
\* of no frames is not looked at.
Aligned(frames, lines, n) == n = 0 \/ (lines = n /\ frames = 0..(n - 1))

-----------------------------------------------------------------------------
(* The reader.                                                             *)

LoggedFrames == {actions[i].frame : i \in DOMAIN actions}

Parses == \A i \in DOMAIN actions : actions[i] # Torn

\* Mutant: a missing events.json is an empty one, as it is for the logs.
ReadableWithoutEvents ==
    /\ meta # None /\ Parses
    /\ Aligned(LoggedFrames, Len(actions), meta.frames)

\* ReplayReader(...).read() returns.
Readable ==
    /\ meta # None /\ events # None /\ Parses
    /\ Aligned(LoggedFrames, Len(actions), meta.frames)

-----------------------------------------------------------------------------
(* The writer.                                                             *)

OpenWriter ==
    /\ writer = "closed" /\ take < MaxTakes
    /\ writer' = "open" /\ take' = take + 1 /\ logged' = {}
    /\ UNCHANGED <<disk, finalized>>

\* A line that follows a torn one is lost in it.
LogLine(line) ==
    actions' = IF actions # <<>> /\ actions[Len(actions)] = Torn
                  THEN actions ELSE Append(actions, line)

\* log_action; a frame that this writer has logged already raises instead.
LogAction(f) ==
    /\ writer = "open" /\ f \notin logged
    /\ logged' = logged \cup {f}
    /\ LogLine(Line(take, f))
    /\ UNCHANGED <<meta, events, take, writer, finalized>>

\* Mutant: finalize takes the caller's word for it.
WriteMetaUnchecked(n) ==
    /\ writer = "open"
    /\ meta' = [take |-> take, frames |-> n]
    /\ writer' = "meta"
    /\ UNCHANGED <<events, actions, take, logged, finalized>>

\* finalize up to the first of its two files.
WriteMeta(n) ==
    /\ writer = "open"
    /\ Aligned(logged, Cardinality(logged), n)
    /\ meta' = [take |-> take, frames |-> n]
    /\ writer' = "meta"
    /\ UNCHANGED <<events, actions, take, logged, finalized>>

\* ... and the second.
WriteEvents ==
    /\ writer = "meta"
    /\ events' = take
    /\ finalized' = finalized \cup {take}
    /\ writer' = "closed"
    /\ UNCHANGED <<meta, actions, take, logged>>

\* abandon, after finalize or a caller has raised; or the process is killed.
Stop ==
    /\ writer # "closed"
    /\ writer' = "closed"
    /\ UNCHANGED <<disk, take, logged, finalized>>

\* The process is killed in the middle of a line.
StopInLine ==
    /\ writer = "open"
    /\ LogLine(Torn)
    /\ writer' = "closed"
    /\ UNCHANGED <<meta, events, take, logged, finalized>>

\* Any caller of the writer.
ReplayNext ==
    \/ OpenWriter
    \/ \E f \in FrameIndices : LogAction(f)
    \/ \E n \in 0..MaxFrames : WriteMeta(n)
    \/ WriteEvents
    \/ Stop
    \/ StopInLine

-----------------------------------------------------------------------------

ReplayTypeOK ==
    /\ meta \in {None} \cup [take : 1..MaxTakes, frames : 0..MaxFrames]
    /\ events \in {None} \cup 1..MaxTakes
    /\ actions \in Seq({Torn} \cup [take : 1..MaxTakes, frame : FrameIndices])
    /\ take \in 0..MaxTakes
    /\ writer \in {"closed", "open", "meta"}
    /\ logged \subseteq FrameIndices
    /\ finalized \subseteq 1..MaxTakes

\* "No gaps and no repeats": however often a run id is used again after a
\* crash, the actions of a replay that reads with frames are those of the take
\* its meta data describes, and of no other.
ReadsOneTake ==
    Readable /\ meta.frames > 0 => \A i \in DOMAIN actions : actions[i].take = meta.take

\* "finalize is what makes the replay complete and readable".
FinalizedIsReadable ==
    take \in finalized /\ writer = "closed" => Readable
=============================================================================
