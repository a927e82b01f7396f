----------------------------- MODULE MemoryAgent -----------------------------
(***************************************************************************)
(* One step of the closed loop of orchestration/memory_agent.py: look,     *)
(* choose, act through TimedExecutor, look again until the screen has      *)
(* settled, and learn.  Any read may show any landmark or none; any call   *)
(* may raise.  A frame is the moment of step n it was taken at: 4n before  *)
(* the action, 4n + 1 while it is held, and after it 4n + 2 if it shows    *)
(* nothing known, 4n + 3 if it shows a landmark.  A latent is the frames   *)
(* it is made of.                                                          *)
(***************************************************************************)
EXTENDS LandmarkRoute

CONSTANTS
    Mode,           (* the mode of each landmark                            *)
    ActionsOf,      (* the names of the inputs of each mode                 *)
    HoldFrames,     (* the hold_frames of each input                        *)
    Calibrated,     (* the edges of the route file                          *)
    Unknown,        (* classify returns None                                *)
    NavigationOnly, (* --navigation-only                                    *)
    Confirmations,  (* confirmations                                        *)
    Capacity,       (* capacity of the LatentBank                           *)
    Clip,           (* clip_frames of the encoder                           *)
    MaxSteps        (* --max-steps                                          *)

ASSUME AgentAssumption ==
    /\ Unknown \notin Landmarks
    /\ NavigationOnly \in BOOLEAN
    /\ Confirmations \in Nat \ {0, 1}
    /\ Capacity \in Nat \ {0} /\ Clip \in Nat \ {0} /\ MaxSteps \in Nat \ {0}
    /\ \A l \in Landmarks : Mode[l] \in DOMAIN ActionsOf /\ ActionsOf[Mode[l]] \subseteq Inputs
    /\ HoldFrames \in [Inputs -> Nat \ {0}]
    /\ Calibrated \in Seq(Edges)

VARIABLES
    pc,         (* where the step is                                        *)
    step,       (* the number of this step                                  *)
    scene,      (* what was seen before the action                          *)
    edge,       (* the edge of the route the action should take             *)
    action,     (* the chosen input                                         *)
    before,     (* the latent before the action                             *)
    after,      (* what was seen last                                       *)
    observed,   (* the frames taken since the press                         *)
    failing,    (* an exception passes through the executor                 *)
    reply,      (* the status of the last step                              *)
    \* the encoder
    context,    (* _history                                                 *)
    lastMode,   (* _last_mode                                               *)
    goals,      (* _goals: the targets whose latent is known                *)
    \* the terminal verification
    termLabel, termCount,
    \* the gamepad and the bank
    pad, stuck, (* "neutral" or "held"; the last neutral() has raised       *)
    rows,       (* the rows of the LatentBank                               *)
    \* history
    seen,       (* the last scenes looked at, and the presses between them  *)
    since,      (* the moment since which no look was at an unknown screen  *)
                (* and the steps that acted did so in one mode              *)
    learned     (* all rows there ever were                                 *)

locals == <<scene, edge, action, before, after, observed, failing>>
stepVars == <<step, locals, reply>>
encoderVars == <<context, lastMode, goals>>
termVars == <<termLabel, termCount>>
padVars == <<pad, stuck>>
bankVars == <<rows, learned, edges>>
agentVars == <<pc, stepVars, encoderVars, termVars, padVars, bankVars, seen, since>>

Screens == Landmarks \cup {Unknown}
Won(l) == Mode[l] = "victory"
Terminal(l) == Mode[l] \in {"death", "victory"}
LowDetail(l) == Mode[l] # "combat"
LastOnes(s, n) == IF Len(s) > n THEN SubSeq(s, Len(s) - n + 1, Len(s)) ELSE s
Sees(event) == seen' = LastOnes(Append(seen, event), Confirmations)

Now == 4 * step
During == 4 * step + 1
After(screen) == IF screen = Unknown THEN 4 * step + 2 ELSE 4 * step + 3

AgentInit ==
    /\ step = 1 /\ reply = "none"
    /\ scene = Unknown /\ edge = NoEdge /\ action = "none"
    /\ before = <<>> /\ after = Unknown /\ observed = <<>> /\ failing = FALSE
    /\ context = <<>> /\ lastMode = "none" /\ goals = {}
    /\ termLabel = Unknown /\ termCount = 0
    /\ pad = "neutral" /\ stuck = FALSE
    /\ edges = Calibrated
    /\ seen = <<>> /\ since = 0

Goto(label) == pc' = label

\* The step is over, and its local variables are gone.
Leaves(label) ==
    /\ Goto(label)
    /\ scene' = Unknown /\ edge' = NoEdge /\ action' = "none"
    /\ before' = <<>> /\ after' = Unknown /\ observed' = <<>> /\ failing' = FALSE

\* It returns: status is what its record says.
Returns(status) == reply' = status /\ Leaves("stepped")

\* neutral() releases all input; when it raises, the input stays as it is.
Neutral == pad' = "neutral" /\ stuck' = FALSE
NeutralRaises == stuck' = TRUE /\ UNCHANGED pad

-----------------------------------------------------------------------------
(* What is on the screen before the action.                                *)

\* Mutants: an unknown screen does not interrupt a confirmation; nor does it
\* end the motion context.
SeeUnknownKeepsCount ==
    /\ pc = "observe"
    /\ Neutral /\ context' = <<>> /\ Returns("unknown")
    /\ Sees(Unknown) /\ since' = Now + 4
    /\ UNCHANGED <<step, lastMode, goals,
                   termVars, bankVars>>

SeeUnknownKeepsContext ==
    /\ pc = "observe"
    /\ Neutral /\ termCount' = 0 /\ Returns("unknown")
    /\ Sees(Unknown) /\ since' = Now + 4
    /\ UNCHANGED <<step, encoderVars,
                   termLabel, bankVars>>

\* "Unknown observations release all input and wait."
SeeUnknown ==
    /\ pc = "observe"
    /\ Neutral /\ context' = <<>> /\ termCount' = 0 /\ Returns("unknown")
    /\ Sees(Unknown) /\ since' = Now + 4
    /\ UNCHANGED <<step, lastMode, goals,
                   termLabel, bankVars>>

AtEnd(l) == Won(l) \/ (NavigationOnly /\ l = Goal)

\* A victory card, or the goal of a navigation: confirm, and press nothing.  The
\* motion context stays what it is.
SeeEnd(l) ==
    /\ pc = "observe" /\ AtEnd(l)
    /\ Neutral
    /\ termLabel' = l
    /\ termCount' = IF termLabel = l THEN termCount + 1 ELSE 1
    /\ Returns(IF termCount' < Confirmations \/ l # Goal THEN "verifying"
               ELSE IF Won(l) THEN "won" ELSE "goal_reached")
    /\ Sees(l)
    /\ UNCHANGED <<step, encoderVars,
                   bankVars, since>>

\* Any other landmark: encode it, ask the route, let the planner choose.  The
\* latent of a target is made at its first use, which clears the context.
Choose(l, a) ==
    LET boundary == Mode[l] # lastMode \/ Terminal(l)
        clip == LastOnes(Append(IF boundary THEN <<>> ELSE context, Now), Clip)
    IN
    /\ pc = "observe" /\ ~AtEnd(l) /\ a \in ActionsOf[Mode[l]]
    /\ termCount' = 0 /\ lastMode' = Mode[l]
    /\ scene' = l /\ action' = a /\ edge' = NextEdge(edges, l)
    /\ before' = IF LowDetail(l) THEN <<Now>> ELSE clip
    /\ IF edge' # NoEdge /\ LowDetail(l) /\ edge'.target \notin goals
       THEN goals' = goals \cup {edge'.target} /\ context' = <<>>
       ELSE UNCHANGED goals /\ context' = clip
    /\ Sees(l)
    /\ since' = IF boundary THEN Now ELSE since
    /\ Goto("press")
    /\ UNCHANGED <<step, after, observed, failing, reply, termLabel, padVars, bankVars>>

\* A read, the classifier or the encoder raises; or neutral() does.
LookFails ==
    /\ pc = "observe"
    /\ NeutralRaises \/ UNCHANGED padVars
    /\ Leaves("failed")
    /\ UNCHANGED <<step, reply, encoderVars, termVars, bankVars, seen, since>>

-----------------------------------------------------------------------------
(* TimedExecutor.execute: press, hold while frames are read, release.      *)

\* send_buttons; it may raise when part of the input is out.
Press ==
    /\ pc = "press"
    /\ pad' = "held" /\ UNCHANGED stuck
    /\ failing' \in BOOLEAN
    /\ Sees("press")
    /\ Goto(IF failing' THEN "release" ELSE "hold")
    /\ UNCHANGED <<step, scene, edge, action, before, after, observed, reply, encoderVars,
                   termVars, bankVars, since>>

\* Mutant: the release is not in a finally.
HoldUnprotected ==
    /\ pc = "hold"
    /\ \/ Goto("release") /\ UNCHANGED locals
       \/ Leaves("failed")
    /\ UNCHANGED <<step, reply, encoderVars, termVars, padVars, bankVars, seen, since>>

\* The frames of the hold; a read or a sleep may raise, or be interrupted.
Hold ==
    /\ pc = "hold"
    /\ \/ observed' = [i \in 1..HoldFrames[action] |-> During] /\ UNCHANGED failing
       \/ failing' = TRUE /\ UNCHANGED observed
    /\ Goto("release")
    /\ UNCHANGED <<step, scene, edge, action, before, after, reply, encoderVars, termVars,
                   padVars, bankVars, seen, since>>

Release ==
    /\ pc = "release"
    /\ \/ Neutral /\ ~failing /\ Goto("sample") /\ UNCHANGED locals
       \/ Neutral /\ failing /\ Leaves("failed")
       \/ NeutralRaises /\ Leaves("failed")
    /\ UNCHANGED <<step, reply, encoderVars, termVars, bankVars, seen, since>>

\* The frame after the release, the last of the observations.
Sample(l) ==
    /\ pc = "sample"
    /\ after' = l /\ observed' = Append(observed, After(l))
    /\ Goto("settle")
    /\ UNCHANGED <<step, scene, edge, action, before, failing, reply, encoderVars, termVars,
                   padVars, bankVars, seen, since>>

-----------------------------------------------------------------------------
(* Until settle_seconds are over, the screen may change.                   *)

Unsettled ==
    \/ after = Unknown
    \/ Mode[scene] = "menu" /\ edge # NoEdge /\ after = scene

\* Of the frames before it, the last three are kept, whatever they show.
LookAgain(l) ==
    /\ pc = "settle" /\ Unsettled
    /\ after' = l /\ observed' = Append(LastOnes(observed, 3), After(l))
    /\ UNCHANGED <<pc, step, scene, edge, action, before, failing, reply, encoderVars, termVars,
                   padVars, bankVars, seen, since>>

\* "Loading imagery is not silently paired with a later action."
Unverified ==
    /\ pc = "settle" /\ after = Unknown
    /\ context' = <<>>
    /\ Returns("unverified_transition")
    /\ since' = Now + 4
    /\ UNCHANGED <<step, lastMode, goals, termVars,
                   padVars, bankVars, seen>>

Row(latent) ==
    [step |-> step, scope |-> scene, action |-> action, next |-> after,
     since |-> since, before |-> before, after |-> latent]

\* Mutant: at its capacity the bank drops what has just been learned.
AddDropsNewest(row) ==
    /\ learned' = Append(learned, row)
    /\ rows' = IF Len(rows) = Capacity THEN rows ELSE Append(rows, row)

\* LatentBank.add
Add(row) ==
    /\ learned' = Append(learned, row)
    /\ rows' = LastOnes(Append(rows, row), Capacity)

\* Mutant: the clip after the action goes on from the one before it.
EncodeAfterBehind ==
    LET clip == LastOnes(Append(context, After(after)), Clip) IN
    context' = clip /\ Add(Row(IF LowDetail(scene) THEN <<After(after)>> ELSE clip))

\* encode_clip of the observations in combat, encode of the last one elsewhere.
EncodeAfter ==
    IF LowDetail(scene)
    THEN /\ context' = LastOnes(Append(context, After(after)), Clip)
         /\ Add(Row(<<After(after)>>))
    ELSE /\ context' = LastOnes(observed, Clip)
         /\ Add(Row(LastOnes(observed, Clip)))

Learn ==
    /\ pc = "settle" /\ after # Unknown
    /\ EncodeAfter
    /\ Observe(scene, action, after)
    /\ Returns("observed")
    /\ UNCHANGED <<step, lastMode, goals, termVars,
                   padVars, seen, since>>

\* A read, the encoder or the planner raises.
StepFails ==
    /\ pc \in {"sample", "settle"}
    /\ Leaves("failed")
    /\ UNCHANGED <<step, reply, encoderVars, termVars, padVars, bankVars, seen, since>>

AgentStep ==
    \/ SeeUnknown \/ LookFails
    \/ \E l \in Landmarks : SeeEnd(l) \/ \E a \in ActionsOf[Mode[l]] : Choose(l, a)
    \/ Press \/ Hold \/ Release
    \/ \E l \in Screens : Sample(l) \/ LookAgain(l)
    \/ Unverified \/ Learn \/ StepFails

-----------------------------------------------------------------------------

Latents == Seq(0..(4 * MaxSteps + 3))
Rows == [step : 1..MaxSteps, scope : Landmarks, action : UNION {ActionsOf[m] : m \in DOMAIN ActionsOf},
         next : Landmarks, since : 0..(4 * MaxSteps), before : Latents, after : Latents]

AgentTypeOK ==
    /\ step \in 1..MaxSteps
    /\ scene \in Screens /\ after \in Screens
    /\ before \in Latents /\ context \in Latents /\ observed \in Latents
    /\ termLabel \in Screens /\ termCount \in 0..MaxSteps
    /\ pad \in {"neutral", "held"} /\ stuck \in BOOLEAN /\ failing \in BOOLEAN
    /\ goals \subseteq Landmarks
    /\ rows \in Seq(Rows) /\ Len(rows) <= Capacity

\* The goal is all that was seen in the last looks, and nothing was pressed in
\* between.
Witnessed == Len(seen) = Confirmations /\ \A i \in DOMAIN seen : seen[i] = Goal

\* "Input release is protected by finally": whatever raises, the input of an
\* action is not held beyond it, unless the release itself has raised.
PadIsReleased == pad = "held" => stuck \/ pc \in {"hold", "release"}

EndsWith(latent, moment) == Len(latent) > 0 /\ latent[Len(latent)] = moment

OfItsMoment(row) ==
    /\ \A k \in DOMAIN row.before : row.before[k] \in row.since..(4 * row.step)
    /\ EndsWith(row.before, 4 * row.step)
    /\ \A k \in DOMAIN row.after : row.after[k] \in (4 * row.step + 1)..(4 * row.step + 3)
    /\ EndsWith(row.after, 4 * row.step + 3)

\* What the bank learns of an action: the latent before it ends with the frame
\* the action was chosen on and reaches back to no step in another mode, no look
\* at an unknown screen and no transition that was not verified; the latent after
\* it is made of frames taken since this very press, and ends with one that shows
\* a landmark.  A victory card that goes away again is no boundary, and a clip of
\* a fight may hold frames of an unknown screen taken while it settled.
LatentsAreOfTheirMoment == \A i \in DOMAIN learned : OfItsMoment(learned[i])

\* A full bank forgets its oldest rows and no others.
BankKeepsNewest == rows = LastOnes(learned, Capacity)
=============================================================================
