----------------------------- MODULE RecordedRun -----------------------------
(***************************************************************************)
(* The run of RunMemoryAgent with --record-video: the recorder comes up    *)
(* before the first step, is asked before each, and is closed in the       *)
(* clean-up; the report says what it has recorded.  What the thread of the *)
(* recorder does during a step touches nothing that the run looks at, so   *)
(* it is taken to happen after the step.                                   *)
(***************************************************************************)
EXTENDS RunMemoryAgent, VideoRecorder

CONSTANTS
    None,           (* no summary, no report                                *)
    RecordedSteps   (* BOUND: the steps of a run with a recorder            *)

ASSUME RecordedAssumption == None \notin Nat /\ MaxVideo \in Nat \ {0}

VARIABLES
    recorder,   (* "none", "waiting" for _ready, "owned", "joining" it, or  *)
                (* "closed"                                                 *)
    trouble,    (* cleanup_errors is not empty                              *)
    summary,    (* the frames that result["video"] names                    *)
    report      (* the summary of a written report, unless its status is    *)
                (* "error" for trouble in the clean-up                      *)

ownerVars == <<recorder, trouble, summary, report>>
recordedVars == <<vars, recorderVars, ownerVars>>

RecordedInit ==
    /\ Init /\ RecorderInit
    /\ recorder = "none" /\ trouble = FALSE /\ summary = None /\ report = None

-----------------------------------------------------------------------------
(* The recorder comes up.                                                  *)

Construct ==
    /\ pc = "start" /\ recorder = "none"
    /\ StartThread
    /\ recorder' = "waiting"
    /\ UNCHANGED <<vars, stop, trouble, summary, report>>

\* Nothing is to be recorded, or _ready came in time and check found no error.
SetUpRecorded ==
    /\ SetUp
    /\ \/ recorder = "none" /\ UNCHANGED recorder
       \/ recorder = "waiting" /\ ready /\ ~error /\ recorder' = "owned"
    /\ UNCHANGED <<recorderVars, trouble, summary, report>>

\* Something else fails or Ctrl+C comes, check raises, or _ready does not come
\* within 10 seconds: close() of the constructor.  The run has no recorder.
SetUpUnrecorded ==
    /\ SetUpFails
    /\ recorder' = "none"
    /\ stop' \in IF recorder = "waiting" /\ ~ready THEN BOOLEAN ELSE {stop}
    /\ UNCHANGED <<threadVars, trouble, summary, report>>

-----------------------------------------------------------------------------
(* The steps.                                                              *)

\* recorder.check()
NextRecordedStep ==
    /\ NextStep
    /\ recorder = "owned" => ~error /\ step <= RecordedSteps
    /\ UNCHANGED <<recorderVars, ownerVars>>

Unrecorded ==
    /\ \/ NoMoreSteps \/ Step \/ AfterStep \/ SaveBank \/ Broken
       \/ SaveAtEnd \/ CleanUpInterrupted \/ ProcessEnds
    /\ UNCHANGED <<recorderVars, ownerVars>>

Thread ==
    /\ VideoThread
    /\ pc \in {"start", "loop", "close"} /\ recorder # "none"
    /\ UNCHANGED <<vars, stop, ownerVars>>

-----------------------------------------------------------------------------
(* The clean-up.                                                           *)

ReleaseRecorded ==
    /\ ReleaseInput
    /\ trouble' = (trouble \/ stuck')
    /\ UNCHANGED <<recorderVars, recorder, summary, report>>

StopThread ==
    /\ pc = "close" /\ recorder = "owned"
    /\ stop' = TRUE
    /\ recorder' = "joining"
    /\ UNCHANGED <<vars, threadVars, trouble, summary, report>>

\* Mutant: close() does not look whether the thread has ended.
JoinAnyhow ==
    /\ pc = "close" /\ recorder = "joining"
    /\ trouble' = (trouble \/ error)
    /\ recorder' = "closed"
    /\ UNCHANGED <<vars, recorderVars, summary, report>>

\* The thread has ended, or has not within 10 seconds; check().
Join ==
    /\ pc = "close" /\ recorder = "joining"
    /\ trouble' = (trouble \/ thread # "over" \/ error)
    /\ recorder' = "closed"
    /\ UNCHANGED <<vars, recorderVars, summary, report>>

\* The source of the agent, whose close may raise; the summary.
CloseRecorded ==
    /\ CloseSources
    /\ recorder \in {"none", "closed"}
    /\ summary' = IF recorder = "none" THEN None ELSE frames
    /\ trouble' \in {trouble, TRUE}
    /\ UNCHANGED <<recorderVars, recorder, report>>

SaveFailsRecorded ==
    /\ SaveFails
    /\ trouble' = TRUE
    /\ UNCHANGED <<recorderVars, recorder, summary, report>>

ReportRecorded ==
    /\ Report
    /\ report' = IF trouble THEN None ELSE summary
    /\ UNCHANGED <<recorderVars, recorder, trouble, summary>>

RecordedNext ==
    \/ Construct \/ SetUpRecorded \/ SetUpUnrecorded \/ NextRecordedStep \/ Unrecorded
    \/ Thread
    \/ ReleaseRecorded \/ StopThread \/ Join \/ CloseRecorded \/ SaveFailsRecorded
    \/ ReportRecorded

RecordedSpec == RecordedInit /\ [][RecordedNext]_recordedVars

-----------------------------------------------------------------------------

\* A report that tells of a video and of no error in the clean-up tells the truth:
\* the recorder failed nowhere, its thread is over, the file is whole, and has as
\* many frames as there are timestamps and as the report says.
VideoIsComplete ==
    report # None =>
        /\ thread = "over" /\ ~error /\ whole
        /\ video = report /\ lines = report
=============================================================================
