----------------------------- MODULE DatasetGate -----------------------------
(***************************************************************************)
(* What becomes of a recording: a person reviews it (label_segment), and   *)
(* audits of scripts/check_gameplay_dataset.py inspect all segments, probe *)
(* the encoder and decide whether a model may be trained.  The directory   *)
(* of RecordSession is one of the segments; the others are finished and    *)
(* reviewed.  An audit may start and inspect at any moment of the          *)
(* recorder; what it does afterwards touches nothing the recorder or a     *)
(* review touches, so it is taken to come next.                            *)
(***************************************************************************)
EXTENDS RecordSession, SampleSelection

CONSTANTS
    Kinds,          (* the segment types of the recorder                    *)
    Outcomes,       (* OUTCOMES: the outcomes of each type                  *)
    Provisional,    (* BOUND: what --outcome says before the review         *)
    Libraries,      (* BOUND: what the other segments may be                *)
    Samples,        (* --samples                                            *)
    MinSamples, MinFrames, MinAttempts, MinDeaths, MinRest,
    Legacy          (* meta.json is not of dataset_segment_v1               *)

Endings == {"DEATH", "KNOCKOUT"}

ASSUME GateAssumption ==
    /\ \A kind \in Kinds : kind \in DOMAIN Outcomes
    /\ Legacy \notin [mode : {"real", "synthetic"}, kind : Kinds, outcome : STRING,
                      verified : BOOLEAN, full : BOOLEAN]
    /\ Samples \in Nat \ {0}
    /\ Libraries \subseteq Seq((DOMAIN Outcomes) \X STRING \X (Nat \ {0}) \X BOOLEAN)
    /\ \A library \in Libraries : AllListed(library)
    /\ \A kind \in Kinds : \A outcome \in Outcomes[kind] : Listed(kind, outcome)

VARIABLES
    doc,        (* the outcome and the extras in meta.json                  *)
    audit,      (* where the audit is                                       *)
    found,      (* the eligible segments that it has found                  *)
    covered,    (* coverage_passed                                          *)
    passed,     (* the encoder probe has passed                             *)
    allowed,    (* training_allowed in the report file                      *)
    reviewed,   (* history: the take a person has reviewed last             *)
    complete    (* history: the last audit has come to its end              *)

auditVars == <<audit, found, covered, passed, allowed, complete>>
gateVars == <<doc, reviewed, auditVars>>
datasetVars == <<allVars, gateVars>>

DatasetInit ==
    /\ RecordInit
    /\ doc = Legacy /\ reviewed = 0
    /\ audit = "idle" /\ found = <<>> /\ covered = FALSE /\ passed = FALSE
    /\ allowed = FALSE /\ complete = FALSE

-----------------------------------------------------------------------------
(* The recorder, and the review of what it has recorded.                   *)

\* Mutant: the recorder writes that its labels are verified.
NewDocVerified(mode, kind, outcome) ==
    [mode |-> mode, kind |-> kind, outcome |-> outcome, verified |-> TRUE, full |-> FALSE]

\* What record hands to finalize.
NewDoc(mode, kind, outcome) ==
    [mode |-> mode, kind |-> kind, outcome |-> outcome, verified |-> FALSE, full |-> FALSE]

\* Every finalize writes meta.json anew; only the recorder's is of this schema.
Recorder ==
    /\ RecordNext
    /\ IF pc = "verify" /\ pc' = "events"
       THEN \E mode \in {"real", "synthetic"}, kind \in Kinds, outcome \in Provisional :
               doc' = NewDoc(mode, kind, outcome)
       ELSE doc' = IF meta' = meta THEN doc ELSE Legacy
    /\ UNCHANGED <<reviewed, auditVars>>

\* label_segment, from record_session or from the command line.
Label(outcome, full) ==
    /\ meta # None /\ doc # Legacy
    /\ outcome \in Outcomes[doc.kind]
    /\ full => doc.kind = "attempt" /\ outcome \in Endings
    /\ doc' = [doc EXCEPT !.outcome = outcome, !.verified = TRUE, !.full = full]
    /\ reviewed' = meta.take
    /\ UNCHANGED <<allVars, auditVars>>

Reviewing == \E outcome \in UNION {Outcomes[k] : k \in Kinds}, full \in BOOLEAN : Label(outcome, full)

-----------------------------------------------------------------------------
(* The audit.                                                              *)

\* A segment that is inspected at all; the others are excluded.
Inspected == meta # None /\ doc # Legacy /\ doc.mode = "real"

\* Mutant: whether somebody has reviewed the labels is not asked.
EligibleUnreviewed ==
    /\ Readable /\ meta.frames > 0
    /\ doc.outcome \in Outcomes[doc.kind]
    /\ rows = [i \in 1..meta.frames |-> i - 1]

\* inspect_dataset accepts it, if the images, the times and the raw inputs are
\* as they should be.
Eligible ==
    /\ Readable /\ meta.frames > 0
    /\ doc.outcome \in Outcomes[doc.kind]
    /\ doc.verified
    /\ rows = [i \in 1..meta.frames |-> i - 1]

Own == Segment(doc.kind, doc.outcome, meta.frames, doc.full)

FramesOfKind(segments, kind) ==
    Cardinality({f \in Frames(segments) : Kind(segments[f[1]]) = kind})

\* No reason blocks, apart from the number of samples.
Coverage(segments, invalid) ==
    LET total == Cardinality(Frames(segments))
        full  == {j \in DOMAIN segments : FullAttempt(segments[j])}
    IN
    /\ total >= MinFrames
    /\ Cardinality(full) >= MinAttempts
    /\ Cardinality({j \in full : Outcome(segments[j]) = "DEATH"}) >= MinDeaths
    /\ \A kind \in {"menu", "idle"} : FramesOfKind(segments, kind) >= MinRest
    /\ total > 0 /\ 10 * FramesOfKind(segments, "attempt") >= 7 * total
    /\ ~invalid

\* Mutant: the report of an earlier audit is left in place.
StartAuditOverReport ==
    /\ audit = "idle"
    /\ audit' = "inspect" /\ complete' = FALSE
    /\ UNCHANGED <<allVars, doc, reviewed, found, covered, passed, allowed>>

\* "Invalidate an earlier passing result before any potentially failing work."
StartAudit ==
    /\ audit = "idle"
    /\ audit' = "inspect" /\ allowed' = FALSE /\ complete' = FALSE
    /\ UNCHANGED <<allVars, doc, reviewed, found, covered, passed>>

\* counts: the recording is eligible, and its images, times and inputs are as they
\* should be.  The encoder is probed unless the caller asks for the coverage only.
Inspect(library, counts) ==
    LET segments == IF counts THEN <<Own>> \o library ELSE library
        enough   == Cardinality(Selected(segments, Samples)) >= MinSamples
    IN
    /\ audit = "inspect"
    /\ counts => Inspected /\ Eligible
    /\ found' = segments
    /\ covered' = (enough /\ Coverage(segments, Inspected /\ ~counts))
    /\ passed' = FALSE
    /\ audit' \in IF enough THEN {"probe", "write"} ELSE {"write"}
    /\ UNCHANGED <<allVars, doc, reviewed, allowed, complete>>

\* The output of the encoder is diverse enough; or it is not, or the probe raises.
Probe ==
    /\ audit = "probe"
    /\ passed' \in BOOLEAN
    /\ audit' = "write"
    /\ UNCHANGED <<allVars, doc, reviewed, found, covered, allowed, complete>>

\* finish_report; the report is written atomically.
FinishReport ==
    /\ audit = "write"
    /\ allowed' = (covered /\ passed)
    /\ audit' = "idle" /\ complete' = TRUE
    /\ found' = <<>> /\ covered' = FALSE /\ passed' = FALSE
    /\ UNCHANGED <<allVars, doc, reviewed>>

\* An exception, Ctrl+C or a kill.
AuditDies ==
    /\ audit # "idle"
    /\ audit' = "idle"
    /\ found' = <<>> /\ covered' = FALSE /\ passed' = FALSE
    /\ UNCHANGED <<allVars, doc, reviewed, allowed, complete>>

Audit ==
    \/ StartAudit
    \/ \E library \in Libraries, counts \in BOOLEAN : Inspect(library, counts)
    \/ Probe
    \/ FinishReport
    \/ AuditDies

Inspecting == audit \in {"idle", "inspect"}

DatasetNext == (Inspecting /\ (Recorder \/ Reviewing)) \/ Audit

DatasetSpec == DatasetInit /\ [][DatasetNext]_datasetVars

-----------------------------------------------------------------------------

\* "Validate actual stored pixels/actions/times; reject legacy/synthetic rows":
\* a recording that an audit may count was finalized by the recorder, its actions
\* belong to its frames, and a person has reviewed it since, whatever else has
\* written to its directory before or after.
CountedIsReviewed ==
    Inspected /\ Eligible =>
        /\ meta.take \in recorded \cap finalized /\ events = meta.take
        /\ sampled = rows /\ [i \in DOMAIN actions |-> actions[i].frame] = rows
        /\ reviewed = meta.take
        /\ doc.full => doc.kind = "attempt" /\ doc.outcome \in Endings

\* Training is allowed only by the audit that was started last, when it has come
\* to its end: an earlier pass does not outlive the start of an audit that fails.
StalePassIsInvalidated == allowed => complete

\* "Evenly cover type/boss/phase/outcome strata and time within each stratum."
SamplesCoverDataset == audit = "probe" => CoversDataset(found, Samples)
=============================================================================
