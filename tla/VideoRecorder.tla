---------------------------- MODULE VideoRecorder ----------------------------
(***************************************************************************)
(* WindowVideoRecorder of perception/video_recorder.py: a daemon thread    *)
(* with its own source writes an AVI file and a log line per frame, until  *)
(* its owner stops it or something raises.  What its owner shares with it: *)
(* the events _stop and _ready, the attributes error and frames.           *)
(***************************************************************************)
EXTENDS Naturals

CONSTANT MaxVideo   (* BOUND: the frames of the video                       *)

VARIABLES
    thread,     (* where the thread is                                      *)
    stop,       (* _stop is set                                             *)
    ready,      (* _ready is set                                            *)
    error,      (* error is not None                                        *)
    frames,     (* frames                                                   *)
    video,      (* the frames in the AVI file                               *)
    lines,      (* the lines of the log                                     *)
    whole       (* the AVI writer has been released                         *)

threadVars == <<thread, ready, error, frames, video, lines, whole>>
recorderVars == <<threadVars, stop>>

RecorderInit ==
    /\ thread = "none" /\ stop = FALSE /\ ready = FALSE /\ error = FALSE
    /\ frames = 0 /\ video = 0 /\ lines = 0 /\ whole = FALSE

\* The constructor starts the thread.
StartThread ==
    /\ thread = "none"
    /\ thread' = "opening"
    /\ UNCHANGED <<ready, error, frames, video, lines, whole>>

\* The source, its first frame, and the writer of its size.
OpenVideo ==
    /\ thread = "opening"
    /\ thread' = "loop" /\ ready' = TRUE
    /\ UNCHANGED <<error, frames, video, lines, whole>>

\* while not _stop: read a frame, which has to be of the size of the first.
ReadFrame ==
    /\ thread = "loop" /\ ~stop /\ frames < MaxVideo
    /\ thread' = "write"
    /\ UNCHANGED <<ready, error, frames, video, lines, whole>>

WriteFrame ==
    /\ thread = "write"
    /\ video' = video + 1
    /\ thread' = "log"
    /\ UNCHANGED <<ready, error, frames, lines, whole>>

WriteLine ==
    /\ thread = "log"
    /\ lines' = lines + 1
    /\ thread' = "count"
    /\ UNCHANGED <<ready, error, frames, video, whole>>

CountVideo ==
    /\ thread = "count"
    /\ frames' = frames + 1
    /\ thread' = "loop"
    /\ UNCHANGED <<ready, error, video, lines, whole>>

Stopped ==
    /\ thread = "loop" /\ stop
    /\ thread' = "ending"
    /\ UNCHANGED <<ready, error, frames, video, lines, whole>>

\* The window cannot be opened, a read fails, the window is resized, the writer
\* or the log raises, the latter also when it is closed.
VideoFails ==
    /\ thread \in {"opening", "loop", "write", "log"}
    /\ error' = TRUE
    /\ thread' = "ending"
    /\ UNCHANGED <<ready, frames, video, lines, whole>>

\* finally: the owner waits no longer, the AVI file, if there is one, gets its
\* index.
ReleaseWriter ==
    /\ thread = "ending"
    /\ ready' = TRUE
    /\ whole' = ready
    /\ thread' = "closing"
    /\ UNCHANGED <<error, frames, video, lines>>

\* It may raise, which nobody is told.
CloseSource ==
    /\ thread = "closing"
    /\ thread' = "over"
    /\ UNCHANGED <<ready, error, frames, video, lines, whole>>

VideoThread ==
    \/ OpenVideo \/ ReadFrame \/ WriteFrame \/ WriteLine \/ CountVideo \/ Stopped
    \/ VideoFails \/ ReleaseWriter \/ CloseSource
=============================================================================
