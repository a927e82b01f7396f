------------------------- MODULE CapturePilot_proofs -------------------------
(***************************************************************************)
(* What the capture pilot promises, for every budget, every length of a    *)
(* hold and of a turn, and every number of commands.                       *)
(***************************************************************************)
EXTENDS CapturePilot, TLAPS

InLoop == {"top", "send", "budget", "look", "read", "judge"}
Exits == {"cleanup", "closing", "waiting", "ended"}

\* A release time is a time yet to come when it is set, and so never 0.
TimeInv ==
    /\ tick \in Nat
    /\ pc \in InLoop \cup Exits

PressInv ==
    /\ pc \in InLoop => pad = Neutral \/ releaseAt # 0
    /\ pc = "waiting" /\ ~broken => pad = Neutral

\* Except between the choice of a press and its sending, what the pilot believes
\* is held is held, or the focus is gone, or it went and came back since.
BeliefInv ==
    /\ pc \in InLoop \ {"send"} => active = pad \/ regained \/ ~focused
    /\ pc = "judge" \/ pc = "read" => captured = active
    /\ RecordedInputIsHeld

LEMMA Durations ==
    /\ \A h \in Holds : h \in Nat /\ h > 0
    /\ \A d \in 0..MaxTick : d \in Nat
BY PilotAssumption

LEMMA PilotInit == Init => TimeInv /\ PressInv /\ BeliefInv
BY DEF Init, TimeInv, PressInv, BeliefInv, RecordedInputIsHeld, InLoop

LEMMA TimeStep == TimeInv /\ [Next]_vars => TimeInv'
<1> SUFFICES ASSUME TimeInv, [Next]_vars
             PROVE  TimeInv'
  OBVIOUS
<1> USE DEF TimeInv, InLoop, Exits, clock, Break
<1>1. CASE Top
  BY <1>1 DEF Top
<1>2. CASE SendSetup \/ Budget \/ Look \/ Read
  BY <1>2 DEF SendSetup, Budget, Look, Read
<1>3. CASE Unfocused \/ Discard \/ Judge
  BY <1>3, Durations DEF Unfocused, Discard, Judge, NextTurn
<1>4. CASE Stops \/ CleanUp \/ GameEnds
  BY <1>4 DEF Stops, CleanUp, GameEnds
<1>5. CASE NewCommand \/ SwitchWindow
  BY <1>5 DEF NewCommand, SwitchWindow
<1>6. CASE UNCHANGED vars
  BY <1>6 DEF vars
<1> QED
  BY <1>1, <1>2, <1>3, <1>4, <1>5, <1>6 DEF Next

LEMMA PressStep == TimeInv /\ PressInv /\ [Next]_vars => PressInv'
<1> SUFFICES ASSUME TimeInv, PressInv, [Next]_vars
             PROVE  PressInv'
  OBVIOUS
<1> USE DEF TimeInv, PressInv, InLoop, clock, Break
<1>1. CASE Top
  BY <1>1 DEF Top
<1>2. CASE SendSetup
  BY <1>2, Durations DEF SendSetup
<1>3. CASE Budget \/ Read
  BY <1>3 DEF Budget, Read
<1>4. CASE Unfocused \/ Discard
  BY <1>4 DEF Unfocused, Discard, NextTurn
<1>5. CASE Look
  <2> DEFINE release == releaseAt # 0 /\ tick >= releaseAt
             explore == mode = "explore" /\ tick >= nextAction
  <2>1. /\ pc' = "read"
        /\ explore => \E h \in Holds : releaseAt' = tick + h
        /\ ~explore /\ release => pad' = Neutral
        /\ ~explore /\ ~release => pad' = pad /\ releaseAt' = releaseAt
    BY <1>5 DEF Look
  <2> QED
    BY <1>5, <2>1, Durations DEF Look
<1>6. CASE Judge
  <2>1. \/ releaseAt' = tick + 1
        \/ UNCHANGED <<pad, releaseAt>>
    BY <1>6 DEF Judge
  <2>2. pc' = "top" /\ pc = "judge"
    BY <1>6 DEF Judge, NextTurn
  <2> QED
    BY <2>1, <2>2
<1>7. CASE CleanUp
  BY <1>7 DEF CleanUp
<1>8. CASE Stops \/ GameEnds
  BY <1>8 DEF Stops, GameEnds
<1>9. CASE NewCommand \/ SwitchWindow
  BY <1>9 DEF NewCommand, SwitchWindow
<1>10. CASE UNCHANGED vars
  BY <1>10 DEF vars
<1> QED
  BY <1>1, <1>2, <1>3, <1>4, <1>5, <1>6, <1>7, <1>8, <1>9, <1>10 DEF Next

LEMMA BeliefStep == BeliefInv /\ [Next]_vars => BeliefInv'
<1> SUFFICES ASSUME BeliefInv, [Next]_vars
             PROVE  BeliefInv'
  OBVIOUS
<1> USE DEF BeliefInv, RecordedInputIsHeld, InLoop, clock, commands, Break, Hold
<1>1. CASE Top
  BY <1>1 DEF Top
<1>2. CASE SendSetup
  BY <1>2 DEF SendSetup
<1>3. CASE Budget \/ Read
  BY <1>3 DEF Budget, Read
<1>4. CASE Unfocused
  BY <1>4 DEF Unfocused, NextTurn
<1>5. CASE Discard
  BY <1>5 DEF Discard, NextTurn
<1>6. CASE Look
  <2> DEFINE release == releaseAt # 0 /\ tick >= releaseAt
             explore == mode = "explore" /\ tick >= nextAction
  <2>1. \/ active' = pad'
        \/ UNCHANGED <<active, pad, regained>>
    BY <1>6 DEF Look
  <2>2. pc = "look" /\ pc' = "read" /\ captured' = active' /\ UNCHANGED <<focused, row>>
    BY <1>6 DEF Look
  <2> QED
    BY <2>1, <2>2
<1>7. CASE Judge
  <2>1. /\ pc = "judge" /\ pc' = "top" /\ focused /\ focused' = focused
        /\ \/ active' = pad'
           \/ UNCHANGED <<active, pad, regained>>
        /\ row' = [recorded |-> captured, held |-> pad, excused |-> regained] \/ row' = row
    BY <1>7 DEF Judge, NextTurn
  <2> QED
    BY <2>1
<1>8. CASE Stops \/ CleanUp \/ GameEnds
  BY <1>8 DEF Stops, CleanUp, GameEnds
<1>9. CASE NewCommand
  BY <1>9 DEF NewCommand
<1>10. CASE SwitchWindow
  BY <1>10 DEF SwitchWindow
<1>11. CASE UNCHANGED vars
  BY <1>11 DEF vars
<1> QED
  BY <1>1, <1>2, <1>3, <1>4, <1>5, <1>6, <1>7, <1>8, <1>9, <1>10, <1>11 DEF Next

\* main of windows_capture_pilot.py sets release_at with every press and clears
\* it with every release, and leaves through two releases.
THEOREM PressesEnd == Spec => []EveryPressEnds
<1>1. PressInv => EveryPressEnds
  BY DEF PressInv, EveryPressEnds, InLoop
<1> QED
  BY <1>1, PilotInit, TimeStep, PressStep, PTL DEF Spec

\* captured_input is what was held when the frame was read, unless the focus
\* went and came back without the pilot noticing what that did to its press.
THEOREM FramesCarryTheirInput == Spec => []RecordedInputIsHeld
<1>1. BeliefInv => RecordedInputIsHeld
  BY DEF BeliefInv
<1> QED
  BY <1>1, PilotInit, BeliefStep, PTL DEF Spec
=============================================================================
