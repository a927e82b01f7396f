------------------------ MODULE RunMemoryAgent_proofs ------------------------
(***************************************************************************)
(* Theorems about runs of the memory agent, for every set of landmarks and *)
(* inputs, every route, every capacity, clip and number of confirmations,  *)
(* and every length of the run; with a video recorder beside it as well.   *)
(***************************************************************************)
EXTENDS RecordedRun, LandmarkRoute_proofs

LEMMA AppendIs ==
    ASSUME NEW S, NEW s \in Seq(S), NEW e \in S
    PROVE  /\ Append(s, e) \in Seq(S) /\ Len(Append(s, e)) = Len(s) + 1 /\ Len(s) \in Nat
           /\ \A i \in 1..Len(s) : Append(s, e)[i] = s[i]
           /\ Append(s, e)[Len(s) + 1] = e
<1>1. Append(s, e) \in Seq(S) /\ Len(Append(s, e)) = Len(s) + 1 /\ Len(s) \in Nat
  OBVIOUS
<1>2. \A i \in 1..Len(s) : Append(s, e)[i] = s[i]
  OBVIOUS
<1>3. Append(s, e)[Len(s) + 1] = e
  OBVIOUS
<1>4. QED
  BY <1>1, <1>2, <1>3

LEMMA LastOnesIs ==
    ASSUME NEW S, NEW s \in Seq(S), NEW n \in Nat
    PROVE  /\ LastOnes(s, n) \in Seq(S) /\ Len(s) \in Nat
           /\ Len(LastOnes(s, n)) = IF Len(s) > n THEN n ELSE Len(s)
           /\ \A i \in 1..Len(LastOnes(s, n)) :
                 LastOnes(s, n)[i] = s[i + (Len(s) - Len(LastOnes(s, n)))]
<1>1. Len(s) \in Nat
  OBVIOUS
<1>2. CASE Len(s) > n
  <2>1. LastOnes(s, n) = SubSeq(s, Len(s) - n + 1, Len(s))
    BY <1>2 DEF LastOnes
  <2>2. \A i \in (Len(s) - n + 1)..Len(s) : s[i] \in S
    BY <1>1, <1>2
  <2>3. QED
    BY <1>1, <1>2, <2>1, <2>2, SMTT(30)
<1>3. CASE ~(Len(s) > n)
  BY <1>1, <1>3 DEF LastOnes
<1>4. QED
  BY <1>2, <1>3

LEMMA SameSequence ==
    ASSUME NEW S, NEW s \in Seq(S), NEW t \in Seq(S), Len(s) = Len(t),
           \A i \in 1..Len(s) : s[i] = t[i]
    PROVE  s = t
OBVIOUS

\* What is forgotten once does not come back.
LEMMA LastOnesOfLastOnes ==
    ASSUME NEW S, NEW s \in Seq(S), NEW e \in S, NEW n \in Nat \ {0}
    PROVE  LastOnes(Append(LastOnes(s, n), e), n) = LastOnes(Append(s, e), n)
<1> DEFINE l == LastOnes(s, n)
           a == Append(l, e)
           b == Append(s, e)
<1>1. /\ l \in Seq(S) /\ Len(s) \in Nat /\ Len(l) \in Nat
      /\ Len(l) = IF Len(s) > n THEN n ELSE Len(s)
      /\ \A i \in 1..Len(l) : l[i] = s[i + (Len(s) - Len(l))]
  BY LastOnesIs
<1> HIDE DEF l
<1>2. /\ a \in Seq(S) /\ Len(a) = Len(l) + 1
      /\ \A i \in 1..Len(l) : a[i] = l[i]
      /\ a[Len(l) + 1] = e
  BY <1>1, AppendIs
<1>3. /\ b \in Seq(S) /\ Len(b) = Len(s) + 1
      /\ \A i \in 1..Len(s) : b[i] = s[i]
      /\ b[Len(s) + 1] = e
  BY <1>1, AppendIs
<1> HIDE DEF a, b
<1>4. ASSUME NEW i \in 1..Len(a) PROVE a[i] = b[i + (Len(b) - Len(a))]
  <2>1. CASE i = Len(l) + 1
    <3>1. i + (Len(b) - Len(a)) = Len(s) + 1
      <4>1. Len(a) = Len(l) + 1 /\ Len(b) = Len(s) + 1 /\ Len(s) \in Nat /\ Len(l) \in Nat
        BY <1>1, <1>2, <1>3
      <4>2. QED
        BY <2>1, <4>1
    <3>2. a[i] = e
      BY <1>2, <2>1
    <3>3. b[i + (Len(b) - Len(a))] = e
      BY <1>3, <3>1
    <3>4. QED
      BY <3>2, <3>3
  <2>2. CASE i # Len(l) + 1
    <3>1. i \in 1..Len(l)
      BY <1>1, <1>2, <2>2
    <3>2. /\ i + (Len(b) - Len(a)) = i + (Len(s) - Len(l))
          /\ i + (Len(s) - Len(l)) \in 1..Len(s)
      BY <1>1, <1>2, <1>3, <3>1
    <3>3. b[i + (Len(s) - Len(l))] = s[i + (Len(s) - Len(l))]
      BY <1>3, <3>2
    <3>4. QED
      BY <1>1, <1>2, <3>1, <3>2, <3>3
  <2>3. QED
    BY <2>1, <2>2
<1>5. /\ LastOnes(a, n) \in Seq(S)
      /\ Len(LastOnes(a, n)) = IF Len(a) > n THEN n ELSE Len(a)
      /\ \A i \in 1..Len(LastOnes(a, n)) : LastOnes(a, n)[i] = a[i + (Len(a) - Len(LastOnes(a, n)))]
  BY <1>2, LastOnesIs
<1>6. /\ LastOnes(b, n) \in Seq(S)
      /\ Len(LastOnes(b, n)) = IF Len(b) > n THEN n ELSE Len(b)
      /\ \A i \in 1..Len(LastOnes(b, n)) : LastOnes(b, n)[i] = b[i + (Len(b) - Len(LastOnes(b, n)))]
  BY <1>3, LastOnesIs
<1>7. Len(LastOnes(a, n)) = Len(LastOnes(b, n))
  BY <1>1, <1>2, <1>3, <1>5, <1>6
<1>8. ASSUME NEW i \in 1..Len(LastOnes(a, n)) PROVE LastOnes(a, n)[i] = LastOnes(b, n)[i]
  <2> DEFINE j == i + (Len(a) - Len(LastOnes(a, n)))
  <2>1. /\ Len(a) \in Nat /\ Len(b) \in Nat /\ Len(LastOnes(a, n)) \in Nat
        /\ Len(LastOnes(a, n)) <= Len(a)
    <3>1. Len(a) \in Nat /\ Len(b) \in Nat
      BY <1>1, <1>2, <1>3
    <3>2. Len(LastOnes(a, n)) = IF Len(a) > n THEN n ELSE Len(a)
      BY <1>5
    <3>3. QED
      BY <3>1, <3>2
  <2>6. j \in 1..Len(a) /\ j + (Len(b) - Len(a)) = i + (Len(b) - Len(LastOnes(a, n)))
    BY <2>1
  <2>2. LastOnes(a, n)[i] = a[j]
    BY <1>5
  <2>3. LastOnes(b, n)[i] = b[i + (Len(b) - Len(LastOnes(a, n)))]
    BY <1>6, <1>7
  <2> HIDE DEF j
  <2>4. a[j] = b[j + (Len(b) - Len(a))]
    BY <1>4, <2>6
  <2>5. QED
    BY <2>6, <2>2, <2>3, <2>4
<1>9. LastOnes(a, n) = LastOnes(b, n)
  BY <1>5, <1>6, <1>7, <1>8, SameSequence
<1>10. QED
  BY <1>9 DEF a, b, l

-----------------------------------------------------------------------------

LEMMA Numbers ==
    /\ MaxSteps \in Nat \ {0} /\ Capacity \in Nat \ {0} /\ Clip \in Nat \ {0}
    /\ SaveEvery \in Nat \ {0} /\ Confirmations \in Nat \ {0, 1}
BY AgentAssumption, RunAssumption

(* Input is released.                                                      *)

LEMMA PadAgent == PadIsReleased /\ AgentStep => PadIsReleased'
BY DEF PadIsReleased, AgentStep, SeeUnknown, LookFails, SeeEnd, Choose, Press, Hold, Release, Sample,
   LookAgain, Unverified, Learn, StepFails, Goto, Leaves, Returns, Neutral, NeutralRaises, padVars

LEMMA PadStep == PadIsReleased /\ [Next]_vars => PadIsReleased'
<1> SUFFICES ASSUME PadIsReleased, [Next]_vars PROVE PadIsReleased'
  OBVIOUS
<1> USE DEF PadIsReleased, Goto, Leaves, Neutral, NeutralRaises, padVars
<1>1. CASE Step
  BY <1>1, PadAgent DEF Step
<1>2. CASE UNCHANGED vars
  BY <1>2 DEF vars, agentVars
<1>3. CASE SetUp \/ SetUpFails \/ NextStep \/ NoMoreSteps \/ SaveBank \/ Broken
  BY <1>3 DEF SetUp, SetUpFails, NextStep, NoMoreSteps, SaveBank, Broken
<1>4. CASE AfterStep
  BY <1>4 DEF AfterStep
<1>5. CASE ReleaseInput \/ CloseSources \/ SaveAtEnd \/ SaveFails \/ Report \/ CleanUpInterrupted
           \/ ProcessEnds
  BY <1>5 DEF ReleaseInput, CloseSources, SaveAtEnd, SaveFails, Report, CleanUpInterrupted,
     ProcessEnds, CleanUp
<1>6. QED
  BY <1>1, <1>2, <1>3, <1>4, <1>5 DEF Next

\* control/timed_input.py: whatever raises or interrupts, the input of an
\* action is not held beyond it unless its release has raised.
THEOREM InputIsLetGo == Spec => []PadIsReleased
<1>1. Init => PadIsReleased
  BY DEF Init, AgentInit, PadIsReleased
<1>2. QED
  BY <1>1, PadStep, PTL DEF Spec

-----------------------------------------------------------------------------
(* A win is witnessed.                                                     *)

ActLabels == {"press", "hold", "release", "sample", "settle"}
Events == Screens \cup {"press"}

\* The last looks, as many as are counted, were at the label that is counted.
CountInv ==
    /\ seen \in Seq(Events) /\ Len(seen) <= Confirmations
    /\ termCount \in Nat
    /\ Len(seen) >= IF termCount < Confirmations THEN termCount ELSE Confirmations
    /\ \A i \in 1..Len(seen) : i > Len(seen) - termCount => seen[i] = termLabel
    /\ pc = "press" => termCount = 0

\* A run that ends with a victory or at its goal takes no further step.
WinInv ==
    /\ pc \in {"start", "observe"} \cup ActLabels => reply = "none"
    /\ pc \in {"loop", "save_bank", "failed"} => ~EndsRun
    /\ pc \in {"start", "loop", "observe", "stepped", "save_bank", "failed"} \cup ActLabels => ~victory
    /\ EndsRun => Witnessed
    /\ reply = "won" => Won(Goal)
    /\ victory => reply = "won"

\* What one more look or press makes of the window of looks.
LEMMA SeesIs ==
    ASSUME seen \in Seq(Events), NEW e \in Events, Sees(e), Len(seen) <= Confirmations
    PROVE  /\ seen' \in Seq(Events) /\ Len(seen) \in Nat /\ Len(seen') \in Nat
           /\ Len(seen') = IF Len(seen) < Confirmations THEN Len(seen) + 1 ELSE Confirmations
           /\ seen'[Len(seen')] = e
           /\ \A i \in 1..(Len(seen') - 1) :
                 seen'[i] = seen[i + (Len(seen) + 1 - Len(seen'))]
<1> DEFINE a == Append(seen, e)
<1>1. /\ a \in Seq(Events) /\ Len(a) = Len(seen) + 1 /\ Len(seen) \in Nat
      /\ \A i \in 1..Len(seen) : a[i] = seen[i]
      /\ a[Len(seen) + 1] = e
  BY AppendIs
<1>2. seen' = LastOnes(a, Confirmations) /\ Confirmations \in Nat \ {0, 1}
  BY Numbers DEF Sees
<1> HIDE DEF a
<1>3. /\ seen' \in Seq(Events)
      /\ Len(seen') = IF Len(a) > Confirmations THEN Confirmations ELSE Len(a)
      /\ \A i \in 1..Len(seen') : seen'[i] = a[i + (Len(a) - Len(seen'))]
  BY <1>1, <1>2, LastOnesIs
<1>4. Len(seen') = IF Len(seen) < Confirmations THEN Len(seen) + 1 ELSE Confirmations
  BY <1>1, <1>2, <1>3
<1>5. Len(seen') \in 1..Len(a) /\ Len(seen') + (Len(a) - Len(seen')) = Len(seen) + 1
  BY <1>1, <1>2, <1>4
<1>6. seen'[Len(seen')] = e
  BY <1>1, <1>3, <1>5
<1>7. ASSUME NEW i \in 1..(Len(seen') - 1)
      PROVE  seen'[i] = seen[i + (Len(seen) + 1 - Len(seen'))]
  <2>1. /\ i \in 1..Len(seen') /\ i + (Len(a) - Len(seen')) \in 1..Len(seen)
        /\ i + (Len(a) - Len(seen')) = i + (Len(seen) + 1 - Len(seen'))
    BY <1>1, <1>5
  <2>2. seen'[i] = a[i + (Len(a) - Len(seen'))]
    BY <1>3, <2>1
  <2>3. QED
    BY <1>1, <2>1, <2>2
<1>8. QED
  BY <1>1, <1>3, <1>4, <1>5, <1>6, <1>7

\* One more look at a label l counts on from the looks before it.
LEMMA CountOn ==
    ASSUME CountInv, NEW l \in Landmarks, SeeEnd(l)
    PROVE  CountInv' /\ Len(seen') \in Nat
<1>1. /\ Sees(l) /\ l \in Events /\ termLabel' = l /\ pc' = "stepped"
      /\ termCount' = IF termLabel = l THEN termCount + 1 ELSE 1
  BY DEF SeeEnd, Events, Screens, Returns, Leaves, Goto
<1>2. /\ seen' \in Seq(Events) /\ Len(seen) \in Nat /\ Len(seen') \in Nat
      /\ Len(seen') = IF Len(seen) < Confirmations THEN Len(seen) + 1 ELSE Confirmations
      /\ seen'[Len(seen')] = l
      /\ \A i \in 1..(Len(seen') - 1) : seen'[i] = seen[i + (Len(seen) + 1 - Len(seen'))]
  BY <1>1, SeesIs DEF CountInv
<1>3. termCount' \in Nat /\ Confirmations \in Nat \ {0, 1}
  BY <1>1, Numbers DEF CountInv
<1>4. Len(seen') >= IF termCount' < Confirmations THEN termCount' ELSE Confirmations
  BY <1>1, <1>2, <1>3 DEF CountInv
<1>5. ASSUME NEW i \in 1..Len(seen'), i > Len(seen') - termCount' PROVE seen'[i] = l
  <2>1. CASE i = Len(seen')
    BY <1>2, <2>1
  <2>2. CASE i # Len(seen')
    <3>1. termLabel = l /\ termCount' = termCount + 1
      BY <1>1, <1>2, <1>3, <1>5, <2>2
    <3>2. /\ i + (Len(seen) + 1 - Len(seen')) \in 1..Len(seen)
          /\ i + (Len(seen) + 1 - Len(seen')) > Len(seen) - termCount
      BY <1>2, <1>3, <1>5, <2>2, <3>1 DEF CountInv
    <3>3. i \in 1..(Len(seen') - 1)
      BY <1>2, <1>5, <2>2
    <3>4. QED
      BY <1>2, <3>1, <3>2, <3>3 DEF CountInv
  <2>3. QED
    BY <2>1, <2>2
<1>6. \A i \in 1..Len(seen') : i > Len(seen') - termCount' => seen'[i] = termLabel'
  BY <1>1, <1>5
<1>7. Len(seen') <= Confirmations
  BY <1>2, <1>3
<1>8. pc' # "press"
  BY <1>1
<1>9. seen' \in Seq(Events) /\ Len(seen') \in Nat /\ termCount' \in Nat
  BY <1>2, <1>3
<1>10. QED
  BY <1>4, <1>6, <1>7, <1>8, <1>9 DEF CountInv

\* A look that counts nothing, or a press.
LEMMA CountNone ==
    ASSUME CountInv, NEW e \in Events, Sees(e), termCount' = 0
    PROVE  CountInv'
<1>1. /\ seen' \in Seq(Events) /\ Len(seen) \in Nat /\ Len(seen') \in Nat
      /\ Len(seen') = IF Len(seen) < Confirmations THEN Len(seen) + 1 ELSE Confirmations
  BY SeesIs DEF CountInv
<1>2. Confirmations \in Nat \ {0, 1}
  BY Numbers
<1>3. QED
  BY <1>1, <1>2 DEF CountInv

\* All other steps of the agent.
LEMMA CountKept ==
    ASSUME CountInv, UNCHANGED <<termVars, seen>>, pc' # "press"
    PROVE  CountInv'
BY DEF CountInv, termVars

LEMMA CountStep == CountInv /\ [Next]_vars => CountInv'
<1> SUFFICES ASSUME CountInv, [Next]_vars PROVE CountInv'
  OBVIOUS
<1> USE DEF Goto, Leaves, Returns, bankVars, encoderVars, stepVars, locals, padVars, runVars
<1>1. CASE SeeUnknown
  <2>1. Sees(Unknown) /\ termCount' = 0 /\ Unknown \in Events
    BY <1>1 DEF SeeUnknown, Events, Screens
  <2>2. QED
    BY <2>1, CountNone
<1>2. CASE \E l \in Landmarks : SeeEnd(l)
  BY <1>2, CountOn
<1>3. ASSUME NEW l \in Landmarks, NEW a \in ActionsOf[Mode[l]], Choose(l, a) PROVE CountInv'
  <2>1. Sees(l) /\ termCount' = 0 /\ l \in Events
    BY <1>3 DEF Choose, Events, Screens
  <2>2. QED
    BY <2>1, CountNone
<1>4. CASE Press
  <2>1. Sees("press") /\ termCount' = 0 /\ "press" \in Events
    BY <1>4 DEF Press, Events, CountInv, termVars
  <2>2. QED
    BY <2>1, CountNone
<1>5. CASE LookFails \/ Hold \/ Release \/ Unverified \/ Learn \/ StepFails
  <2>1. UNCHANGED <<termVars, seen>> /\ pc' # "press"
    BY <1>5 DEF LookFails, Hold, Release, Unverified, Learn, StepFails
  <2>2. QED
    BY <2>1, CountKept
<1>6. CASE \E l \in Screens : Sample(l) \/ LookAgain(l)
  <2>1. UNCHANGED <<termVars, seen>> /\ pc' # "press"
    BY <1>6 DEF Sample, LookAgain
  <2>2. QED
    BY <2>1, CountKept
<1>7. CASE SetUp \/ SetUpFails \/ NextStep \/ NoMoreSteps \/ AfterStep \/ SaveBank \/ Broken
  <2>1. UNCHANGED <<termVars, seen>> /\ pc' # "press"
    BY <1>7 DEF SetUp, SetUpFails, NextStep, NoMoreSteps, AfterStep, SaveBank, Broken
  <2>2. QED
    BY <2>1, CountKept
<1>8. CASE ReleaseInput \/ CloseSources \/ SaveAtEnd \/ SaveFails \/ Report \/ CleanUpInterrupted
           \/ ProcessEnds
  <2>1. UNCHANGED <<termVars, seen>> /\ pc' # "press"
    BY <1>8 DEF ReleaseInput, CloseSources, SaveAtEnd, SaveFails, Report, CleanUpInterrupted,
       ProcessEnds
  <2>2. QED
    BY <2>1, CountKept
<1>9. CASE UNCHANGED vars
  BY <1>9 DEF vars, agentVars, CountInv, termVars
<1>10. QED
  BY <1>1, <1>2, <1>3, <1>4, <1>5, <1>6, <1>7, <1>8, <1>9 DEF Next, Step, AgentStep

LEMMA Behind ==
    ASSUME NEW c \in Nat, NEW t \in Nat, t >= c
    PROVE  \A i \in 1..c : i > c - t
OBVIOUS

\* Enough looks at the goal in a row are a witness.
LEMMA EndIsWitnessed ==
    ASSUME CountInv, NEW l \in Landmarks, SeeEnd(l)
    PROVE  /\ EndsRun' => Witnessed'
           /\ reply' = "won" => Won(Goal)
<1>1. CountInv' /\ Len(seen') \in Nat
  BY CountOn
<1>2. /\ termLabel' = l
      /\ reply' = IF termCount' < Confirmations \/ l # Goal THEN "verifying"
                  ELSE IF Won(l) THEN "won" ELSE "goal_reached"
  BY DEF SeeEnd, Returns
<1>3. ASSUME EndsRun' PROVE Witnessed'
  <2>1. l = Goal /\ ~(termCount' < Confirmations)
    BY <1>2, <1>3 DEF EndsRun
  <2>2. termCount' >= Confirmations /\ Confirmations \in Nat /\ termCount' \in Nat
    BY <1>1, <2>1, Numbers DEF CountInv
  <2>3. Len(seen') = Confirmations
    BY <1>1, <2>2 DEF CountInv
  <2>4. ASSUME NEW i \in 1..Len(seen') PROVE seen'[i] = Goal
    <3>1. i > Len(seen') - termCount'
      <4>1. i \in 1..Confirmations
        BY <2>3
      <4>2. i > Confirmations - termCount'
        BY <2>2, <4>1, Behind
      <4>3. QED
        BY <2>3, <4>2
    <3>2. QED
      BY <1>1, <1>2, <2>1, <3>1 DEF CountInv
  <2>5. DOMAIN seen' = 1..Len(seen')
    BY <1>1 DEF CountInv
  <2>6. QED
    BY <2>3, <2>4, <2>5 DEF Witnessed
<1>4. QED
  BY <1>2, <1>3

LEMMA WinStep == CountInv /\ WinInv /\ [Next]_vars => WinInv'
<1> SUFFICES ASSUME CountInv, WinInv, [Next]_vars PROVE WinInv'
  OBVIOUS
<1> USE DEF Goto, Leaves, Returns, bankVars, encoderVars, stepVars, locals, padVars, runVars, ActLabels
<1>1. CASE SeeUnknown /\ UNCHANGED runVars
  BY <1>1 DEF SeeUnknown, WinInv, EndsRun
<1>2. ASSUME NEW l \in Landmarks, SeeEnd(l), UNCHANGED runVars PROVE WinInv'
  <2>1. pc = "observe" /\ pc' = "stepped" /\ ~victory'
    BY <1>2 DEF SeeEnd, WinInv
  <2>2. QED
    BY <1>2, <2>1, EndIsWitnessed DEF WinInv
<1>3. ASSUME NEW l \in Landmarks, NEW a \in ActionsOf[Mode[l]], Choose(l, a), UNCHANGED runVars
      PROVE  WinInv'
  <2>1. pc = "observe" /\ pc' = "press" /\ reply' = reply
    BY <1>3 DEF Choose
  <2>2. QED
    BY <1>3, <2>1 DEF WinInv, EndsRun
<1>4. CASE Press /\ UNCHANGED runVars
  <2>1. pc = "press" /\ pc' \in {"release", "hold"} /\ reply' = reply
    BY <1>4 DEF Press
  <2>2. QED
    BY <1>4, <2>1 DEF WinInv, EndsRun
<1>5. CASE (LookFails \/ Hold \/ Release \/ StepFails) /\ UNCHANGED runVars
  <2>1. /\ pc \in {"observe"} \cup ActLabels /\ pc' \in {"failed"} \cup ActLabels
        /\ reply' = reply
    BY <1>5 DEF LookFails, Hold, Release, StepFails
  <2>2. QED
    BY <1>5, <2>1 DEF WinInv, EndsRun
<1>6. CASE (\E l \in Screens : Sample(l) \/ LookAgain(l)) /\ UNCHANGED runVars
  <2>1. pc \in ActLabels /\ pc' \in ActLabels /\ reply' = reply
    BY <1>6 DEF Sample, LookAgain
  <2>2. QED
    BY <1>6, <2>1 DEF WinInv, EndsRun
<1>7. CASE (Unverified \/ Learn) /\ UNCHANGED runVars
  <2>1. pc = "settle" /\ pc' = "stepped" /\ reply' \in {"unverified_transition", "observed"}
    BY <1>7 DEF Unverified, Learn
  <2>2. QED
    BY <1>7, <2>1 DEF WinInv, EndsRun
<1>8. CASE SetUp \/ SetUpFails \/ NextStep
  BY <1>8 DEF SetUp, SetUpFails, NextStep, WinInv, EndsRun
<1>9. CASE AfterStep
  BY <1>9 DEF AfterStep, WinInv, EndsRun, Witnessed
<1>10. CASE NoMoreSteps \/ SaveBank \/ Broken
  BY <1>10 DEF NoMoreSteps, SaveBank, Broken, WinInv, EndsRun, Witnessed
<1>11. CASE ReleaseInput \/ CloseSources \/ SaveAtEnd \/ SaveFails \/ Report \/ CleanUpInterrupted
            \/ ProcessEnds
  BY <1>11 DEF ReleaseInput, CloseSources, SaveAtEnd, SaveFails, Report, CleanUpInterrupted,
     ProcessEnds, WinInv, EndsRun, Witnessed
<1>12. CASE UNCHANGED vars
  BY <1>12 DEF vars, agentVars, WinInv, EndsRun, Witnessed
<1>13. QED
  BY <1>1, <1>2, <1>3, <1>4, <1>5, <1>6, <1>7, <1>8, <1>9, <1>10, <1>11, <1>12
     DEF Next, Step, AgentStep

\* "Terminal results need repeated visual verification": a run that reports a
\* victory or its goal has seen it in its last looks, with no press between.
THEOREM AWinIsWitnessed == Spec => []VictoryIsWitnessed
<1>1. Init => CountInv /\ WinInv
  <2> SUFFICES ASSUME Init PROVE CountInv /\ WinInv
    OBVIOUS
  <2>1. seen = <<>> /\ termCount = 0 /\ pc = "start" /\ reply = "none" /\ ~victory
    BY DEF Init, AgentInit
  <2>2. seen \in Seq(Events) /\ Len(seen) = 0
    BY <2>1
  <2>3. QED
    BY <2>1, <2>2, Numbers DEF CountInv, WinInv, EndsRun
<1>2. WinInv => VictoryIsWitnessed
  BY DEF WinInv, VictoryIsWitnessed, EndsRun
<1>3. QED
  BY <1>1, <1>2, CountStep, WinStep, PTL DEF Spec

-----------------------------------------------------------------------------
(* What the bank learns.                                                   *)

Within(s, lo, hi) == \A i \in 1..Len(s) : s[i] \in lo..hi

\* The frames of the context are of this moment or earlier, and of none before
\* the moment that since keeps.
RowInv ==
    /\ step \in 1..MaxSteps /\ since \in Nat
    /\ context \in Seq(Nat) /\ before \in Seq(Nat)
    /\ after \in Screens
    /\ learned \in Seq(Rows)
    /\ rows = LastOnes(learned, Capacity)
    /\ LatentsAreOfTheirMoment
    /\ pc \in {"start", "loop", "observe"} =>
          since <= 4 * step /\ Within(context, since, 4 * step - 1)
    /\ pc \in ActLabels =>
          /\ scene \in Landmarks /\ action \in ActionsOf[Mode[scene]]
          /\ since <= 4 * step
          /\ Within(context, since, 4 * step) /\ Within(before, since, 4 * step)
          /\ EndsWith(before, 4 * step)
    /\ pc \in {"stepped", "save_bank"} =>
          since <= 4 * step + 4 /\ Within(context, since, 4 * step + 3)

\* What was observed in a step was observed since its press.
ObservedInv ==
    /\ observed \in Seq(Nat)
    /\ pc \notin ActLabels => observed = <<>>
    /\ pc \in ActLabels => Within(observed, 4 * step + 1, 4 * step + 3)
    /\ pc = "settle" => EndsWith(observed, After(after))

LEMMA EmptyIs ==
    /\ <<>> \in Seq(Nat) /\ Len(<<>>) = 0
    /\ \A lo, hi \in Int : Within(<<>>, lo, hi)
<1>1. <<>> \in Seq(Nat) /\ Len(<<>>) = 0
  OBVIOUS
<1>2. QED
  BY <1>1 DEF Within

LEMMA WithinMore ==
    ASSUME NEW s \in Seq(Nat), NEW lo \in Nat, NEW hi \in Int, NEW h \in Int,
           hi <= h, Within(s, lo, hi)
    PROVE  Within(s, lo, h)
<1>1. \A x \in lo..hi : x \in lo..h
  OBVIOUS
<1>2. QED
  BY <1>1 DEF Within

\* One more frame.
LEMMA AppendWithin ==
    ASSUME NEW c \in Seq(Nat), NEW lo \in Nat, NEW hi \in Nat, NEW h \in lo..hi,
           Within(c, lo, hi)
    PROVE  /\ Append(c, h) \in Seq(Nat) /\ Within(Append(c, h), lo, hi)
           /\ EndsWith(Append(c, h), h)
<1> DEFINE a == Append(c, h)
<1>1. /\ a \in Seq(Nat) /\ Len(a) = Len(c) + 1 /\ Len(c) \in Nat
      /\ \A i \in 1..Len(c) : a[i] = c[i]
      /\ a[Len(c) + 1] = h
  BY AppendIs
<1> HIDE DEF a
<1>2. ASSUME NEW i \in 1..Len(a) PROVE a[i] \in lo..hi
  <2>1. CASE i = Len(c) + 1
    BY <1>1, <2>1
  <2>2. CASE i # Len(c) + 1
    <3>1. i \in 1..Len(c)
      BY <1>1, <2>2
    <3>2. QED
      BY <1>1, <3>1 DEF Within
  <2>3. QED
    BY <2>1, <2>2
<1>3. QED
  BY <1>1, <1>2 DEF Within, EndsWith, a

\* The last frames.
LEMMA LastOnesWithin ==
    ASSUME NEW a \in Seq(Nat), NEW lo \in Nat, NEW hi \in Nat, NEW n \in Nat \ {0},
           Within(a, lo, hi)
    PROVE  /\ LastOnes(a, n) \in Seq(Nat) /\ Within(LastOnes(a, n), lo, hi)
           /\ \A m : EndsWith(a, m) => EndsWith(LastOnes(a, n), m)
<1> DEFINE b == LastOnes(a, n)
<1>1. /\ b \in Seq(Nat) /\ Len(a) \in Nat
      /\ Len(b) = IF Len(a) > n THEN n ELSE Len(a)
      /\ \A i \in 1..Len(b) : b[i] = a[i + (Len(a) - Len(b))]
  BY LastOnesIs
<1> HIDE DEF b
<1>2. Len(b) \in Nat /\ Len(b) <= Len(a) /\ (Len(a) > 0 => Len(b) > 0)
  BY <1>1
<1>3. ASSUME NEW i \in 1..Len(b) PROVE b[i] \in lo..hi
  <2>1. i + (Len(a) - Len(b)) \in 1..Len(a)
    BY <1>1, <1>2
  <2>2. QED
    BY <1>1, <2>1 DEF Within
<1>4. ASSUME NEW m, EndsWith(a, m) PROVE EndsWith(b, m)
  <2>1. Len(a) > 0 /\ a[Len(a)] = m
    BY <1>4 DEF EndsWith
  <2>2. Len(b) \in 1..Len(b) /\ Len(b) + (Len(a) - Len(b)) = Len(a)
    BY <1>1, <1>2, <2>1
  <2>3. b[Len(b)] = m
    BY <1>1, <2>1, <2>2
  <2>4. QED
    BY <1>2, <2>1, <2>3 DEF EndsWith
<1>5. QED
  BY <1>1, <1>3, <1>4 DEF Within, b

\* One more frame, taken at h, in a clip.
LEMMA ClipIs ==
    ASSUME NEW c \in Seq(Nat), NEW lo \in Nat, NEW hi \in Int, NEW h \in Nat,
           Within(c, lo, hi), hi <= h, lo <= h
    PROVE  /\ LastOnes(Append(c, h), Clip) \in Seq(Nat)
           /\ Within(LastOnes(Append(c, h), Clip), lo, h)
           /\ EndsWith(LastOnes(Append(c, h), Clip), h)
<1>1. Within(c, lo, h)
  BY WithinMore
<1>2. /\ Append(c, h) \in Seq(Nat) /\ Within(Append(c, h), lo, h)
      /\ EndsWith(Append(c, h), h)
  BY <1>1, AppendWithin
<1>3. QED
  BY <1>2, LastOnesWithin, Numbers

LEMMA WithinIs ==
    ASSUME NEW s \in Seq(Nat), NEW lo \in Nat, NEW hi \in Nat, Within(s, lo, hi),
           hi <= 4 * MaxSteps + 3
    PROVE  s \in Latents
<1>1. \A i \in 1..Len(s) : s[i] \in 0..(4 * MaxSteps + 3)
  BY Numbers DEF Within
<1>2. \A S : (\A i \in 1..Len(s) : s[i] \in S) => s \in Seq(S)
  OBVIOUS
<1>3. QED
  BY <1>1, <1>2 DEF Latents

LEMMA ConstantClip ==
    ASSUME NEW n \in Nat, NEW lo \in Nat, NEW hi \in Nat, NEW h \in lo..hi
    PROVE  LET clip == [i \in 1..n |-> h] IN clip \in Seq(Nat) /\ Within(clip, lo, hi)
<1> DEFINE clip == [i \in 1..n |-> h]
<1>1. clip \in Seq(Nat) /\ Len(clip) = n
  OBVIOUS
<1>2. \A i \in 1..n : clip[i] = h
  OBVIOUS
<1> HIDE DEF clip
<1>3. \A i \in 1..Len(clip) : clip[i] \in lo..hi
  BY <1>1, <1>2
<1>4. QED
  BY <1>1, <1>3 DEF Within, clip

LEMMA SingleClip ==
    ASSUME NEW h \in Nat, NEW lo \in Nat, lo <= h
    PROVE  <<h>> \in Seq(Nat) /\ Within(<<h>>, lo, h) /\ EndsWith(<<h>>, h)
<1>1. <<h>> \in Seq(Nat) /\ Len(<<h>>) = 1 /\ <<h>>[1] = h
  OBVIOUS
<1>2. QED
  BY <1>1 DEF Within, EndsWith

\* A step of the program that leaves the loop, or stays between its steps.
LEMMA RowLeft ==
    ASSUME RowInv, UNCHANGED <<step, since, context, rows, learned>>,
           before' \in {before, <<>>}, after' \in {after, Unknown},
           pc' \notin {"start", "loop", "observe", "stepped", "save_bank"} \cup ActLabels
    PROVE  RowInv'
<1>1. before' \in Seq(Nat) /\ after' \in Screens
  BY EmptyIs DEF RowInv, Screens
<1>2. LatentsAreOfTheirMoment'
  BY DEF RowInv, LatentsAreOfTheirMoment
<1>3. QED
  BY <1>1, <1>2 DEF RowInv

\* A step between two actions that goes on with the loop.
LEMMA RowOn ==
    ASSUME RowInv, UNCHANGED <<since, context, rows, learned, before, after>>,
           \/ /\ pc \in {"start", "loop"} /\ pc' \in {"loop", "observe"} /\ step' = step
           \/ /\ pc \in {"stepped", "save_bank"} /\ pc' = "loop"
              /\ step < MaxSteps /\ step' = step + 1
           \/ /\ pc = "stepped" /\ pc' = "save_bank" /\ step' = step
    PROVE  RowInv'
<1>1. LatentsAreOfTheirMoment'
  BY DEF RowInv, LatentsAreOfTheirMoment
<1>2. CASE pc \in {"start", "loop"} /\ pc' \in {"loop", "observe"} /\ step' = step
  BY <1>1, <1>2 DEF RowInv, ActLabels
<1>3. CASE pc \in {"stepped", "save_bank"} /\ pc' = "loop" /\ step < MaxSteps /\ step' = step + 1
  <2>1. step' \in 1..MaxSteps /\ 4 * step' = 4 * step + 4 /\ 4 * step' - 1 = 4 * step + 3
    <3>1. step \in 1..MaxSteps
      BY DEF RowInv
    <3> QED
      BY <1>3, <3>1, Numbers
  <2>2. since' <= 4 * step' /\ Within(context', since', 4 * step' - 1)
    BY <1>3, <2>1 DEF RowInv
  <2>3. QED
    BY <1>1, <1>3, <2>1, <2>2 DEF RowInv, ActLabels
<1>4. CASE pc = "stepped" /\ pc' = "save_bank" /\ step' = step
  BY <1>1, <1>4 DEF RowInv, ActLabels
<1>5. QED
  BY <1>2, <1>3, <1>4

\* A step of the executor.
LEMMA RowActs ==
    ASSUME RowInv, UNCHANGED <<since, context, rows, learned, before, step, scene, action>>,
           pc \in ActLabels, pc' \in ActLabels, after' \in Screens
    PROVE  RowInv'
<1>1. LatentsAreOfTheirMoment'
  BY DEF RowInv, LatentsAreOfTheirMoment
<1>2. QED
  BY <1>1 DEF RowInv, ActLabels

LEMMA RowChoose ==
    ASSUME RowInv, NEW l \in Landmarks, NEW a \in ActionsOf[Mode[l]], Choose(l, a)
    PROVE  RowInv'
<1> DEFINE boundary == Mode[l] # lastMode \/ Terminal(l)
           c == IF boundary THEN <<>> ELSE context
           clip == LastOnes(Append(c, Now), Clip)
<1>1. /\ pc = "observe" /\ pc' = "press"
      /\ UNCHANGED <<step, after, rows, learned>>
      /\ scene' = l /\ action' = a
      /\ before' = IF LowDetail(l) THEN <<Now>> ELSE clip
      /\ context' \in {<<>>, clip}
      /\ since' = IF boundary THEN Now ELSE since
  BY DEF Choose, bankVars, Goto
<1>2. /\ step \in Nat /\ since \in Nat /\ since <= 4 * step /\ Within(context, since, 4 * step - 1)
      /\ context \in Seq(Nat) /\ Now \in Nat /\ Now = 4 * step
  BY <1>1 DEF RowInv, Now
<1>3. since' \in Nat /\ since' <= Now
  BY <1>1, <1>2
<1>4. c \in Seq(Nat) /\ Within(c, since', 4 * step - 1)
  <2>1. CASE boundary
    BY <2>1, <1>2, <1>3, EmptyIs
  <2>2. CASE ~boundary
    BY <1>1, <1>2, <2>2
  <2>3. QED
    BY <2>1, <2>2
<1> HIDE DEF c, boundary
<1>5. clip \in Seq(Nat) /\ Within(clip, since', Now) /\ EndsWith(clip, Now)
  <2>1. 4 * step - 1 \in Int /\ 4 * step - 1 <= Now
    BY <1>2
  <2>2. QED
    BY <1>2, <1>3, <1>4, <2>1, ClipIs
<1> HIDE DEF clip
<1>6. <<Now>> \in Seq(Nat) /\ Within(<<Now>>, since', Now) /\ EndsWith(<<Now>>, Now)
  BY <1>2, <1>3, SingleClip
<1>7. <<>> \in Seq(Nat) /\ Within(<<>>, since', Now)
  BY <1>2, <1>3, EmptyIs
<1>8. before' \in Seq(Nat) /\ Within(before', since', Now) /\ EndsWith(before', Now)
  BY <1>1, <1>5, <1>6
<1>9. context' \in Seq(Nat) /\ Within(context', since', Now)
  BY <1>1, <1>5, <1>7
<1>10. a \in ActionsOf[Mode[l]] /\ l \in Landmarks
  OBVIOUS
<1>11. LatentsAreOfTheirMoment'
  BY <1>1 DEF RowInv, LatentsAreOfTheirMoment
<1>12. 4 * step' = Now
  BY <1>1, <1>2
<1>13. QED
  BY <1>1, <1>3, <1>8, <1>9, <1>10, <1>11, <1>12 DEF RowInv, ActLabels

LEMMA RowLearn == ASSUME RowInv, ObservedInv, Learn PROVE RowInv'
<1> DEFINE first == 4 * step + 1
           last == 4 * step + 3
<1>1. /\ pc = "settle" /\ pc' = "stepped" /\ after # Unknown
      /\ before' = <<>> /\ after' = Unknown
      /\ UNCHANGED <<step, since>>
      /\ EncodeAfter
  BY DEF Learn, Returns, Leaves, Goto
<1>2. /\ step \in 1..MaxSteps /\ since \in 0..(4 * step)
      /\ context \in Seq(Nat) /\ before \in Seq(Nat)
      /\ scene \in Landmarks /\ action \in ActionsOf[Mode[scene]] /\ after \in Landmarks
      /\ Within(context, since, 4 * step) /\ Within(before, since, 4 * step)
      /\ EndsWith(before, 4 * step)
  BY <1>1 DEF RowInv, ActLabels, Screens
<1>3. /\ step \in Nat /\ first \in Nat /\ last \in Nat /\ first <= last
      /\ since \in Nat /\ since <= first /\ 4 * step \in Int /\ 4 * step <= last
      /\ 4 * step \in Nat /\ After(after) = last
  BY <1>1, <1>2, Numbers DEF After
<1>4. /\ observed \in Seq(Nat) /\ Within(observed, first, last) /\ EndsWith(observed, last)
  BY <1>1, <1>3 DEF ObservedInv, ActLabels
<1> HIDE DEF first, last
<1>5. PICK latent \in Seq(Nat) :
         /\ Add(Row(latent)) /\ Within(latent, first, last) /\ EndsWith(latent, last)
         /\ context' \in Seq(Nat) /\ Within(context', since, last)
  <2>1. CASE LowDetail(scene)
    <3>1. context' = LastOnes(Append(context, last), Clip) /\ Add(Row(<<last>>))
      BY <1>1, <1>3, <2>1 DEF EncodeAfter
    <3>2. <<last>> \in Seq(Nat) /\ Within(<<last>>, first, last) /\ EndsWith(<<last>>, last)
      BY <1>3, SingleClip
    <3>3. since <= last
      BY <1>3
    <3>4. context' \in Seq(Nat) /\ Within(context', since, last)
      BY <1>2, <1>3, <3>1, <3>3, ClipIs
    <3>5. QED
      BY <3>1, <3>2, <3>4
  <2>2. CASE ~LowDetail(scene)
    <3> DEFINE clip == LastOnes(observed, Clip)
    <3>1. context' = clip /\ Add(Row(clip))
      BY <1>1, <2>2 DEF EncodeAfter
    <3>2. clip \in Seq(Nat) /\ Within(clip, first, last) /\ EndsWith(clip, last)
      BY <1>3, <1>4, LastOnesWithin, Numbers
    <3> HIDE DEF clip
    <3>3. Within(clip, since, last)
      <4>1. \A x \in first..last : x \in since..last
        BY <1>3
      <4>2. QED
        BY <3>2, <4>1 DEF Within
    <3>4. QED
      BY <3>1, <3>2, <3>3
  <2>3. QED
    BY <2>1, <2>2
<1> DEFINE row == Row(latent)
<1>6. /\ row.before = before /\ row.after = latent /\ row.since = since /\ row.step = step
  BY DEF Row
<1>7. row \in Rows
  <2>1. before \in Latents
    <3>1. 4 * step \in Nat /\ 4 * step <= 4 * MaxSteps + 3
      BY <1>2, Numbers
    <3> QED
      BY <1>2, <1>3, <3>1, WithinIs
  <2>2. latent \in Latents
    <3>1. last <= 4 * MaxSteps + 3
      BY <1>2, Numbers DEF last
    <3> QED
      BY <1>3, <1>5, <3>1, WithinIs
  <2>3. since \in 0..(4 * MaxSteps)
    BY <1>2, Numbers
  <2>4. action \in UNION {ActionsOf[m] : m \in DOMAIN ActionsOf}
    BY <1>2, AgentAssumption
  <2>5. QED
    BY <1>2, <2>1, <2>2, <2>3, <2>4 DEF Row, Rows
<1>8. OfItsMoment(row)
  <2>1. DOMAIN before = 1..Len(before) /\ DOMAIN latent = 1..Len(latent)
    BY <1>2
  <2>2. \A k \in DOMAIN before : before[k] \in since..(4 * step)
    BY <1>2, <2>1 DEF Within
  <2>3. \A k \in DOMAIN latent : latent[k] \in (4 * step + 1)..(4 * step + 3)
    BY <1>5, <2>1 DEF Within, first, last
  <2>4. EndsWith(latent, 4 * step + 3)
    BY <1>5 DEF last
  <2> HIDE DEF row
  <2>5. QED
    BY <1>2, <1>6, <2>2, <2>3, <2>4 DEF OfItsMoment
<1> HIDE DEF row
<1>9. /\ learned' = Append(learned, row) /\ rows' = LastOnes(Append(rows, row), Capacity)
      /\ learned \in Seq(Rows) /\ rows = LastOnes(learned, Capacity)
  BY <1>5 DEF Add, RowInv, row
<1>10. rows' = LastOnes(learned', Capacity)
  BY <1>7, <1>9, LastOnesOfLastOnes, Numbers
<1>11. /\ learned' \in Seq(Rows) /\ Len(learned') = Len(learned) + 1 /\ Len(learned) \in Nat
       /\ \A i \in 1..Len(learned) : learned'[i] = learned[i]
       /\ learned'[Len(learned) + 1] = row
  BY <1>7, <1>9, AppendIs
<1>12. LatentsAreOfTheirMoment'
  <2>1. ASSUME NEW i \in 1..Len(learned') PROVE OfItsMoment(learned'[i])
    <3>1. CASE i = Len(learned) + 1
      BY <1>8, <1>11, <3>1
    <3>2. CASE i # Len(learned) + 1
      <4>1. i \in 1..Len(learned)
        BY <1>11, <3>2
      <4>2. OfItsMoment(learned[i])
        BY <1>9, <4>1 DEF RowInv, LatentsAreOfTheirMoment
      <4>3. QED
        BY <1>11, <4>1, <4>2
    <3>3. QED
      BY <3>1, <3>2
  <2>2. DOMAIN learned' = 1..Len(learned')
    BY <1>11
  <2>3. QED
    BY <2>1, <2>2 DEF LatentsAreOfTheirMoment
<1>13. since' <= 4 * step' + 4 /\ Within(context', since', 4 * step' + 3)
  BY <1>1, <1>3, <1>5 DEF last
<1>14. before' \in Seq(Nat) /\ after' \in Screens
  BY <1>1, EmptyIs DEF Screens
<1>15. QED
  BY <1>1, <1>2, <1>3, <1>5, <1>10, <1>11, <1>12, <1>13, <1>14 DEF RowInv, ActLabels

\* The other ways in which a step of the agent returns.
LEMMA RowReturns ==
    ASSUME RowInv, pc \in {"observe"} \cup ActLabels, pc' = "stepped",
           UNCHANGED <<step, rows, learned>>, before' = <<>>, after' = Unknown,
           \/ context' = <<>> /\ since' = Now + 4
           \/ UNCHANGED <<context, since>> /\ pc = "observe"
    PROVE  RowInv'
<1>1. /\ LatentsAreOfTheirMoment' /\ before' \in Seq(Nat) /\ after' \in Screens
      /\ step \in Nat /\ since \in Nat
  BY EmptyIs, Numbers DEF RowInv, LatentsAreOfTheirMoment, Screens
<1>2. CASE context' = <<>> /\ since' = Now + 4
  <2>1. /\ since' \in Nat /\ since' <= 4 * step' + 4
        /\ 4 * step' + 3 \in Int /\ since' \in Int
    BY <1>1, <1>2 DEF Now
  <2>2. context' \in Seq(Nat) /\ Within(context', since', 4 * step' + 3)
    BY <1>2, <2>1, EmptyIs
  <2>3. QED
    BY <1>1, <2>1, <2>2 DEF RowInv, ActLabels
<1>3. CASE UNCHANGED <<context, since>> /\ pc = "observe"
  <2>1. since <= 4 * step /\ Within(context, since, 4 * step - 1)
    BY <1>3 DEF RowInv
  <2>2. Within(context, since, 4 * step + 3)
    <3>1. \A x \in since..(4 * step - 1) : x \in since..(4 * step + 3)
      BY <1>1
    <3>2. QED
      BY <2>1, <3>1 DEF Within
  <2>3. since' <= 4 * step' + 4 /\ Within(context', since', 4 * step' + 3)
    BY <1>1, <1>3, <2>1, <2>2
  <2>4. QED
    BY <1>1, <1>3, <2>3 DEF RowInv, ActLabels
<1>4. QED
  BY <1>2, <1>3

LEMMA RowStep == RowInv /\ ObservedInv /\ [Next]_vars => RowInv'
<1> SUFFICES ASSUME RowInv, ObservedInv, [Next]_vars PROVE RowInv'
  OBVIOUS
<1> USE DEF Goto, Leaves, Returns, bankVars, encoderVars, stepVars, locals, padVars, runVars
<1>1. CASE SeeUnknown \/ (\E l \in Landmarks : SeeEnd(l)) \/ Unverified
  <2>1. /\ pc \in {"observe"} \cup ActLabels /\ pc' = "stepped"
        /\ UNCHANGED <<step, rows, learned>> /\ before' = <<>> /\ after' = Unknown
        /\ \/ context' = <<>> /\ since' = Now + 4
           \/ UNCHANGED <<context, since>> /\ pc = "observe"
    BY <1>1 DEF SeeUnknown, SeeEnd, Unverified, ActLabels
  <2>2. QED
    BY <2>1, RowReturns
<1>2. CASE \E l \in Landmarks : \E a \in ActionsOf[Mode[l]] : Choose(l, a)
  BY <1>2, RowChoose
<1>3. CASE Press \/ Hold
  <2>1. /\ UNCHANGED <<since, context, rows, learned, before, after, step, scene, action>>
        /\ pc \in ActLabels /\ pc' \in ActLabels
    BY <1>3 DEF Press, Hold, ActLabels
  <2>2. QED
    BY <2>1, RowActs DEF RowInv
<1>4. CASE \E l \in Screens : Sample(l) \/ LookAgain(l)
  <2>1. /\ UNCHANGED <<since, context, rows, learned, before, step, scene, action>>
        /\ pc \in ActLabels /\ pc' \in ActLabels /\ after' \in Screens
    BY <1>4 DEF Sample, LookAgain, ActLabels
  <2>2. QED
    BY <2>1, RowActs
<1>5. CASE Release
  <2>1. CASE pc' = "sample"
    <3>1. /\ UNCHANGED <<since, context, rows, learned, before, after, step, scene, action>>
          /\ pc \in ActLabels /\ pc' \in ActLabels
      BY <1>5, <2>1 DEF Release, ActLabels
    <3>2. QED
      BY <3>1, RowActs DEF RowInv
  <2>2. CASE pc' # "sample"
    <3>1. /\ UNCHANGED <<step, since, context, rows, learned>>
          /\ before' = <<>> /\ after' = Unknown /\ pc' = "failed"
      BY <1>5, <2>2 DEF Release
    <3>2. QED
      BY <3>1, RowLeft DEF ActLabels
  <2>3. QED
    BY <2>1, <2>2
<1>6. CASE Learn
  BY <1>6, RowLearn
<1>7. CASE LookFails \/ StepFails \/ SetUpFails \/ NoMoreSteps \/ Broken
  <2>1. /\ UNCHANGED <<step, since, context, rows, learned>>
        /\ before' \in {before, <<>>} /\ after' \in {after, Unknown}
        /\ pc' \in {"failed", "neutral"}
    BY <1>7 DEF LookFails, StepFails, SetUpFails, NoMoreSteps, Broken
  <2>2. QED
    BY <2>1, RowLeft DEF ActLabels
<1>8. CASE SetUp \/ NextStep
  <2>1. /\ UNCHANGED <<since, context, rows, learned, before, after>>
        /\ pc \in {"start", "loop"} /\ pc' \in {"loop", "observe"} /\ step' = step
    BY <1>8 DEF SetUp, NextStep
  <2>2. QED
    BY <2>1, RowOn
<1>9. CASE AfterStep \/ SaveBank
  <2>1. UNCHANGED <<since, context, rows, learned, before, after>>
    BY <1>9 DEF AfterStep, SaveBank
  <2>2. CASE pc' = "neutral"
    <3>1. step' = step
      BY <1>9, <2>2 DEF AfterStep, SaveBank
    <3>2. QED
      BY <2>1, <2>2, <3>1, RowLeft DEF ActLabels
  <2>3. CASE pc' # "neutral"
    <3>1. \/ /\ pc \in {"stepped", "save_bank"} /\ pc' = "loop"
             /\ step < MaxSteps /\ step' = step + 1
          \/ /\ pc = "stepped" /\ pc' = "save_bank" /\ step' = step
      BY <1>9, <2>3 DEF AfterStep, SaveBank
    <3>2. QED
      BY <2>1, <3>1, RowOn
  <2>4. QED
    BY <2>2, <2>3
<1>10. CASE ReleaseInput \/ CloseSources \/ SaveAtEnd \/ SaveFails \/ Report \/ CleanUpInterrupted
            \/ ProcessEnds
  <2>1. /\ UNCHANGED <<step, since, context, rows, learned>>
        /\ before' \in {before, <<>>} /\ after' \in {after, Unknown}
        /\ pc' \in {"close", "save", "report", "session", "over"}
    BY <1>10 DEF ReleaseInput, CloseSources, SaveAtEnd, SaveFails, Report, CleanUpInterrupted,
       ProcessEnds
  <2>2. QED
    BY <2>1, RowLeft DEF ActLabels
<1>11. CASE UNCHANGED vars
  BY <1>11 DEF vars, agentVars, RowInv, LatentsAreOfTheirMoment
<1>12. QED
  BY <1>1, <1>2, <1>3, <1>4, <1>5, <1>6, <1>7, <1>8, <1>9, <1>10, <1>11
     DEF Next, Step, AgentStep

\* The steps that end an action, or are outside of one.
LEMMA ObservedNone ==
    ASSUME ObservedInv, pc' \notin ActLabels,
           observed' = <<>> \/ (pc \notin ActLabels /\ observed' = observed)
    PROVE  ObservedInv'
BY EmptyIs DEF ObservedInv, ActLabels

\* A frame that shows l is added to observations that are kept in part.
LEMMA ObservedOn ==
    ASSUME RowInv, ObservedInv, NEW l \in Screens, NEW kept \in Seq(Nat),
           Within(kept, 4 * step + 1, 4 * step + 3), observed' = Append(kept, After(l)),
           step' = step, after' = l, pc' = "settle"
    PROVE  ObservedInv'
<1> DEFINE first == 4 * step + 1
           last == 4 * step + 3
<1>1. /\ first \in Nat /\ last \in Nat /\ After(l) \in first..last
  BY Numbers DEF RowInv, After
<1>2. first = 4 * step' + 1 /\ last = 4 * step' + 3 /\ After(l) = After(after)'
  BY DEF After
<1> HIDE DEF first, last
<1>3. /\ observed' \in Seq(Nat) /\ Within(observed', first, last)
      /\ EndsWith(observed', After(l))
  BY <1>1, AppendWithin DEF first, last
<1>4. QED
  BY <1>2, <1>3 DEF ObservedInv, ActLabels

LEMMA ObservedHold == ASSUME RowInv, ObservedInv, Hold PROVE ObservedInv'
<1>1. pc = "hold" /\ pc' = "release" /\ step' = step
  BY DEF Hold, Goto
<1>2. CASE observed' = observed
  BY <1>1, <1>2 DEF ObservedInv, ActLabels
<1>3. CASE observed' = [i \in 1..HoldFrames[action] |-> During]
  <2>1. HoldFrames[action] \in Nat
    BY <1>1, AgentAssumption DEF RowInv, ActLabels
  <2>2. 4 * step + 1 \in Nat /\ 4 * step + 3 \in Nat /\ During \in (4 * step + 1)..(4 * step + 3)
    BY Numbers DEF RowInv, During
  <2>3. observed' \in Seq(Nat) /\ Within(observed', 4 * step + 1, 4 * step + 3)
    BY <1>3, <2>1, <2>2, ConstantClip
  <2>4. QED
    BY <1>1, <2>3 DEF ObservedInv, ActLabels
<1>4. QED
  BY <1>2, <1>3 DEF Hold

LEMMA ObservedStep == RowInv /\ ObservedInv /\ [Next]_vars => ObservedInv'
<1> SUFFICES ASSUME RowInv, ObservedInv, [Next]_vars PROVE ObservedInv'
  OBVIOUS
<1> USE DEF Goto, Leaves, Returns, stepVars, locals
<1>1. CASE SeeUnknown \/ (\E l \in Landmarks : SeeEnd(l)) \/ LookFails \/ Unverified \/ Learn
           \/ StepFails \/ Broken \/ ProcessEnds
  <2>1. pc' \notin ActLabels /\ observed' = <<>>
    BY <1>1 DEF SeeUnknown, SeeEnd, LookFails, Unverified, Learn, StepFails, Broken, ProcessEnds,
       ActLabels
  <2>2. QED
    BY <2>1, ObservedNone
<1>2. CASE \E l \in Landmarks : \E a \in ActionsOf[Mode[l]] : Choose(l, a)
  <2>1. pc = "observe" /\ pc' = "press" /\ observed' = observed
    BY <1>2 DEF Choose
  <2>2. observed' = <<>>
    BY <2>1 DEF ObservedInv, ActLabels
  <2>3. QED
    BY <2>1, <2>2, EmptyIs DEF ObservedInv, ActLabels, Within
<1>3. CASE Press
  BY <1>3 DEF Press, ObservedInv, ActLabels
<1>4. CASE Hold
  BY <1>4, ObservedHold
<1>5. CASE Release
  <2>1. \/ pc = "release" /\ pc' = "sample" /\ UNCHANGED <<step, observed>>
        \/ pc' = "failed" /\ observed' = <<>>
    BY <1>5 DEF Release
  <2>2. QED
    BY <2>1, ObservedNone DEF ObservedInv, ActLabels
<1>6. ASSUME NEW l \in Screens, Sample(l) PROVE ObservedInv'
  <2>1. /\ pc = "sample" /\ pc' = "settle" /\ after' = l /\ step' = step
        /\ observed' = Append(observed, After(l))
    BY <1>6 DEF Sample
  <2>2. observed \in Seq(Nat) /\ Within(observed, 4 * step + 1, 4 * step + 3)
    BY <2>1 DEF ObservedInv, ActLabels
  <2>3. QED
    BY <2>1, <2>2, ObservedOn
<1>7. ASSUME NEW l \in Screens, LookAgain(l) PROVE ObservedInv'
  <2>1. /\ pc = "settle" /\ pc' = "settle" /\ after' = l /\ step' = step
        /\ observed' = Append(LastOnes(observed, 3), After(l))
    BY <1>7 DEF LookAgain
  <2>2. /\ observed \in Seq(Nat) /\ Within(observed, 4 * step + 1, 4 * step + 3)
        /\ 4 * step + 1 \in Nat /\ 4 * step + 3 \in Nat
    BY <2>1, Numbers DEF ObservedInv, ActLabels, RowInv
  <2>3. /\ LastOnes(observed, 3) \in Seq(Nat)
        /\ Within(LastOnes(observed, 3), 4 * step + 1, 4 * step + 3)
    BY <2>2, LastOnesWithin
  <2>4. QED
    BY <2>1, <2>3, ObservedOn
<1>8. CASE SetUp \/ SetUpFails \/ NextStep \/ NoMoreSteps \/ AfterStep \/ SaveBank
  <2>1. pc' \notin ActLabels /\ pc \notin ActLabels /\ observed' = observed
    BY <1>8 DEF SetUp, SetUpFails, NextStep, NoMoreSteps, AfterStep, SaveBank, ActLabels
  <2>2. QED
    BY <2>1, ObservedNone
<1>9. CASE ReleaseInput \/ CloseSources \/ SaveAtEnd \/ SaveFails \/ Report \/ CleanUpInterrupted
  <2>1. pc' \notin ActLabels /\ pc \notin ActLabels /\ observed' = observed
    BY <1>9 DEF ReleaseInput, CloseSources, SaveAtEnd, SaveFails, Report, CleanUpInterrupted,
       CleanUp, ActLabels
  <2>2. QED
    BY <2>1, ObservedNone
<1>10. CASE UNCHANGED vars
  BY <1>10 DEF vars, agentVars, ObservedInv, After
<1>11. QED
  BY <1>1, <1>2, <1>3, <1>4, <1>5, <1>6, <1>7, <1>8, <1>9, <1>10 DEF Next, Step, AgentStep

LEMMA RowInit == Init => RowInv /\ ObservedInv
<1> SUFFICES ASSUME Init PROVE RowInv /\ ObservedInv
  OBVIOUS
<1>1. /\ pc = "start" /\ step = 1 /\ since = 0 /\ context = <<>> /\ before = <<>>
      /\ observed = <<>> /\ after = Unknown /\ disk \in Banks /\ rows = disk /\ learned = disk
  BY DEF Init, AgentInit
<1>2. /\ disk \in Seq(Rows) /\ Len(disk) <= Capacity /\ Len(disk) \in Nat
      /\ \A i \in DOMAIN disk : OfItsMoment(disk[i])
  BY <1>1, RunAssumption
<1>3. disk = LastOnes(disk, Capacity)
  BY <1>2, Numbers DEF LastOnes
<1>4. LatentsAreOfTheirMoment
  BY <1>1, <1>2 DEF LatentsAreOfTheirMoment
<1>5. context \in Seq(Nat) /\ Within(context, since, 4 * step - 1) /\ since <= 4 * step
  BY <1>1, EmptyIs
<1>6. step \in 1..MaxSteps
  BY <1>1, Numbers
<1>7. QED
  BY <1>1, <1>2, <1>3, <1>4, <1>5, <1>6, EmptyIs DEF RowInv, ObservedInv, ActLabels, Screens

LEMMA RowAlways == Spec => [](RowInv /\ ObservedInv)
BY RowInit, RowStep, ObservedStep, PTL DEF Spec

\* orchestration/memory_agent.py, perception/frozen_jepa.py: the latent before an
\* action ends with the frame it was chosen on and reaches back to no other mode,
\* no unknown look and no unverified transition; the latent after it is made of
\* frames since its press and ends with one of a landmark.
THEOREM LatentsAreKeptApart == Spec => []LatentsAreOfTheirMoment
<1>1. RowInv => LatentsAreOfTheirMoment
  BY DEF RowInv
<1>2. QED
  BY <1>1, RowAlways, PTL

\* memory/latent_bank.py: however much is learned, the bank is the newest of it.
THEOREM BankIsTheNewest == Spec => []BankKeepsNewest
<1>1. RowInv => BankKeepsNewest
  BY DEF RowInv, BankKeepsNewest
<1>2. QED
  BY <1>1, RowAlways, PTL

-----------------------------------------------------------------------------
(* What the file of the bank lacks.                                        *)

LEMMA ModOf ==
    ASSUME NEW n \in Nat, n > 0, NEW q \in Int, NEW r \in 0..(n - 1)
    PROVE  (n * q + r) % n = r
BY SMTT(30)

LEMMA ModSucc ==
    ASSUME NEW n \in Nat \ {0}, NEW a \in Nat
    PROVE  /\ a % n \in 0..(n - 1)
           /\ (a + 1) % n # 0 => (a + 1) % n = (a % n) + 1
<1> DEFINE q == a \div n
           r == a - n * q
<1>1. q \in Int /\ n * q <= a /\ a < n * (q + 1)
  OBVIOUS
<1>2. r \in 0..(n - 1) /\ a = n * q + r
  BY <1>1
<1> HIDE DEF q, r
<1>3. a % n = r
  BY <1>1, <1>2, ModOf
<1>4. CASE r + 1 = n
  <2>1. a + 1 = n * (q + 1) + 0 /\ 0 \in 0..(n - 1)
    BY <1>1, <1>2, <1>4
  <2>2. (n * (q + 1) + 0) % n = 0
    BY <1>1, ModOf
  <2>3. QED
    BY <1>2, <1>3, <2>1, <2>2
<1>5. CASE r + 1 < n
  <2>1. a + 1 = n * q + (r + 1) /\ r + 1 \in 0..(n - 1)
    BY <1>1, <1>2, <1>5
  <2>2. (n * q + (r + 1)) % n = r + 1
    <3> DEFINE m == r + 1
    <3>1. m \in 0..(n - 1) /\ q \in Int /\ n \in Nat /\ n > 0
      BY <1>1, <2>1
    <3> HIDE DEF m
    <3>2. (n * q + m) % n = m
      BY <3>1, ModOf
    <3>3. QED
      BY <3>2 DEF m
  <2>3. (a + 1) % n = r + 1
    BY <2>1, <2>2
  <2>4. QED
    BY <1>2, <1>3, <2>3
<1>6. r + 1 = n \/ r + 1 < n
  BY <1>2
<1>7. QED
  BY <1>4, <1>5, <1>6

\* The loop saves in every step whose number SaveEvery divides.
SavedInv ==
    /\ saved \in Nat /\ saved <= Len(learned) /\ Len(learned) - saved <= SaveEvery
    /\ pc \in {"start", "loop", "observe"} \cup ActLabels =>
          Len(learned) - saved <= (step - 1) % SaveEvery
    /\ pc = "stepped" => Len(learned) - saved <= ((step - 1) % SaveEvery) + 1
    /\ pc \in {"report", "session", "over"} /\ ~cut => disk = rows

InStep == {"start", "loop", "observe"} \cup ActLabels

\* The numbers SavedInv is about.
LEMMA SavedNumbers ==
    ASSUME RowInv, SavedInv
    PROVE  /\ Len(learned) \in Nat /\ saved \in Nat /\ Len(learned) - saved \in 0..SaveEvery
           /\ (step - 1) % SaveEvery \in 0..(SaveEvery - 1)
           /\ step % SaveEvery # 0 => step % SaveEvery = ((step - 1) % SaveEvery) + 1
           /\ step \in 1..MaxSteps
<1>1. step - 1 \in Nat /\ step - 1 + 1 = step
  BY Numbers DEF RowInv
<1>2. /\ (step - 1) % SaveEvery \in 0..(SaveEvery - 1)
      /\ (step - 1 + 1) % SaveEvery # 0 =>
            (step - 1 + 1) % SaveEvery = ((step - 1) % SaveEvery) + 1
  BY <1>1, Numbers, ModSucc
<1>3. Len(learned) \in Nat /\ step \in 1..MaxSteps
  BY DEF RowInv
<1>4. QED
  BY <1>1, <1>2, <1>3, Numbers DEF SavedInv

\* A step that neither learns nor saves.
LEMMA SavedKept ==
    ASSUME RowInv, SavedInv, UNCHANGED <<learned, saved, step>>,
           \/ pc \in InStep /\ pc' \in InStep \cup {"stepped"}
           \/ pc' \notin InStep \cup {"stepped", "report", "session", "over"}
    PROVE  SavedInv'
<1>1. /\ saved' \in Nat /\ saved' <= Len(learned') /\ Len(learned') - saved' <= SaveEvery
  BY DEF SavedInv
<1>2. CASE pc \in InStep /\ pc' \in InStep \cup {"stepped"}
  <2>1. Len(learned') - saved' <= (step' - 1) % SaveEvery
    BY <1>2 DEF SavedInv, InStep
  <2>2. Len(learned') - saved' <= ((step' - 1) % SaveEvery) + 1
    BY <2>1, SavedNumbers
  <2>3. pc' \notin {"report", "session", "over"}
    BY <1>2 DEF InStep, ActLabels
  <2>4. QED
    BY <1>1, <2>1, <2>2, <2>3 DEF SavedInv
<1>3. CASE pc' \notin InStep \cup {"stepped", "report", "session", "over"}
  BY <1>1, <1>3 DEF SavedInv, InStep
<1>4. QED
  BY <1>2, <1>3

\* A step of the clean-up.
LEMMA SavedAtEnd ==
    ASSUME RowInv, SavedInv, learned' = learned, pc' \in {"report", "session", "over"},
           \/ saved' = saved \/ saved' = Len(learned),
           ~cut' => disk' = rows'
    PROVE  SavedInv'
<1>1. /\ saved' \in Nat /\ saved' <= Len(learned') /\ Len(learned') - saved' <= SaveEvery
  BY SavedNumbers, Numbers DEF SavedInv
<1>2. QED
  BY <1>1 DEF SavedInv, ActLabels

LEMMA SavedStep == RowInv /\ SavedInv /\ [Next]_vars => SavedInv'
<1> SUFFICES ASSUME RowInv, SavedInv, [Next]_vars PROVE SavedInv'
  OBVIOUS
<1> USE DEF Goto, Leaves, Returns, bankVars, encoderVars, stepVars, locals, padVars, runVars
<1>1. CASE (SeeUnknown \/ (\E l \in Landmarks : SeeEnd(l)) \/ Unverified \/ Press \/ Hold)
           /\ UNCHANGED runVars
  <2>1. /\ UNCHANGED <<learned, saved, step>> /\ pc \in InStep /\ pc' \in InStep \cup {"stepped"}
    BY <1>1 DEF SeeUnknown, SeeEnd, Unverified, Press, Hold, InStep, ActLabels
  <2>2. QED
    BY <2>1, SavedKept
<1>2. CASE (\E l \in Landmarks : \E a \in ActionsOf[Mode[l]] : Choose(l, a)) /\ UNCHANGED runVars
  <2>1. /\ UNCHANGED <<learned, saved, step>> /\ pc \in InStep /\ pc' \in InStep
    BY <1>2 DEF Choose, InStep, ActLabels
  <2>2. QED
    BY <2>1, SavedKept
<1>3. CASE (\E l \in Screens : Sample(l) \/ LookAgain(l)) /\ UNCHANGED runVars
  <2>1. /\ UNCHANGED <<learned, saved, step>> /\ pc \in InStep /\ pc' \in InStep
    BY <1>3 DEF Sample, LookAgain, InStep, ActLabels
  <2>2. QED
    BY <2>1, SavedKept
<1>4. CASE (LookFails \/ StepFails \/ Release) /\ UNCHANGED runVars
  <2>1. /\ UNCHANGED <<learned, saved, step>>
        /\ pc \in InStep /\ pc' \in InStep \cup {"failed"}
    BY <1>4 DEF LookFails, StepFails, Release, InStep, ActLabels
  <2>2. CASE pc' = "failed"
    BY <2>1, <2>2, SavedKept DEF InStep, ActLabels
  <2>3. QED
    BY <2>1, <2>2, SavedKept
<1>5. CASE SetUpFails \/ NoMoreSteps \/ Broken \/ ReleaseInput \/ CloseSources
  <2>1. UNCHANGED <<learned, saved, step>> /\ pc' \in {"failed", "neutral", "close", "save"}
    BY <1>5 DEF SetUpFails, NoMoreSteps, Broken, ReleaseInput, CloseSources
  <2>2. QED
    BY <2>1, SavedKept DEF InStep, ActLabels
<1>6. CASE SetUp \/ NextStep
  <2>1. UNCHANGED <<learned, saved, step>> /\ pc \in InStep /\ pc' \in InStep
    BY <1>6 DEF SetUp, NextStep, InStep
  <2>2. QED
    BY <2>1, SavedKept
<1>7. CASE Learn /\ UNCHANGED runVars
  <2>1. /\ pc = "settle" /\ pc' = "stepped" /\ step' = step /\ saved' = saved
        /\ EncodeAfter
    BY <1>7 DEF Learn
  <2>2. PICK latent : Add(Row(latent))
    BY <2>1 DEF EncodeAfter
  <2>3. learned' = Append(learned, Row(latent))
    BY <2>2 DEF Add
  <2>4. Len(learned') = Len(learned) + 1
    BY <2>3 DEF RowInv
  <2>5. /\ Len(learned) - saved <= (step - 1) % SaveEvery
        /\ saved \in Nat /\ saved <= Len(learned)
    BY <2>1 DEF SavedInv, ActLabels
  <2>6. /\ saved' \in Nat /\ saved' <= Len(learned')
        /\ Len(learned') - saved' <= ((step' - 1) % SaveEvery) + 1
        /\ Len(learned') - saved' <= SaveEvery
    BY <2>1, <2>4, <2>5, SavedNumbers, Numbers
  <2>7. QED
    BY <2>1, <2>6 DEF SavedInv, ActLabels
<1>8. CASE AfterStep
  <2>1. /\ pc = "stepped" /\ UNCHANGED <<learned, saved>>
        /\ \/ pc' \in {"neutral", "save_bank"} /\ step' = step
           \/ pc' = "loop" /\ step' = step + 1 /\ step % SaveEvery # 0
    BY <1>8 DEF AfterStep
  <2>2. CASE pc' \in {"neutral", "save_bank"} /\ step' = step
    BY <2>1, <2>2, SavedKept DEF InStep, ActLabels
  <2>3. CASE pc' = "loop" /\ step' = step + 1 /\ step % SaveEvery # 0
    <3>1. Len(learned) - saved <= ((step - 1) % SaveEvery) + 1
      BY <2>1 DEF SavedInv
    <3>2. step' - 1 = step
      BY <2>3, SavedNumbers
    <3>3. Len(learned') - saved' <= (step' - 1) % SaveEvery
      BY <2>1, <2>3, <3>1, <3>2, SavedNumbers
    <3>4. QED
      BY <2>1, <2>3, <3>3 DEF SavedInv
  <2>4. QED
    BY <2>1, <2>2, <2>3
<1>9. CASE SaveBank
  <2>1. /\ learned' = learned /\ saved' = Len(learned) /\ pc' \in {"loop", "neutral"}
        /\ step' \in {step, step + 1} /\ (pc' = "loop" => step' = step + 1)
    BY <1>9 DEF SaveBank, Save
  <2>2. /\ saved' \in Nat /\ saved' <= Len(learned') /\ Len(learned') - saved' <= SaveEvery
        /\ Len(learned') - saved' = 0
    BY <2>1, SavedNumbers, Numbers
  <2>3. pc' = "loop" => Len(learned') - saved' <= (step' - 1) % SaveEvery
    <3>0. step \in Nat
      BY SavedNumbers, Numbers
    <3>1. step \in Nat /\ step % SaveEvery \in 0..(SaveEvery - 1)
      BY <3>0, ModSucc, Numbers
    <3>2. pc' = "loop" => step' - 1 = step
      BY <2>1, <3>1
    <3>3. QED
      BY <2>2, <3>1, <3>2, Numbers
  <2>4. QED
    BY <2>1, <2>2, <2>3 DEF SavedInv, ActLabels
<1>10. CASE SaveAtEnd
  <2>1. /\ learned' = learned /\ saved' = Len(learned) /\ pc' = "report" /\ disk' = rows'
    BY <1>10 DEF SaveAtEnd, Save
  <2>2. QED
    BY <2>1, SavedAtEnd
<1>11. CASE SaveFails \/ Report \/ CleanUpInterrupted \/ ProcessEnds
  <2>1. /\ learned' = learned /\ saved' = saved /\ pc' \in {"report", "session", "over"}
        /\ UNCHANGED <<disk, rows>>
    BY <1>11 DEF SaveFails, Report, CleanUpInterrupted, ProcessEnds
  <2>2. ASSUME ~cut' PROVE ~cut /\ pc \in {"report", "session", "over"}
    <3>1. CASE SaveFails
      BY <2>2, <3>1 DEF SaveFails
    <3>2. CASE Report
      BY <2>2, <3>2 DEF Report
    <3>3. CASE CleanUpInterrupted
      BY <2>2, <3>3 DEF CleanUpInterrupted
    <3>4. CASE ProcessEnds
      BY <2>2, <3>4 DEF ProcessEnds
    <3>5. QED
      BY <1>11, <3>1, <3>2, <3>3, <3>4
  <2>3. ~cut' => disk' = rows'
    BY <2>1, <2>2 DEF SavedInv
  <2>4. QED
    BY <2>1, <2>3, SavedAtEnd
<1>12. CASE UNCHANGED vars
  BY <1>12 DEF vars, agentVars, SavedInv
<1>13. QED
  BY <1>1, <1>2, <1>3, <1>4, <1>5, <1>6, <1>7, <1>8, <1>9, <1>10, <1>11, <1>12
     DEF Next, Step, AgentStep

\* scripts/run_memory_agent.py: what a run has learned is in the file when it
\* ends, unless the last save is cut off, and then the last few steps are lost.
THEOREM WhatIsLearnedIsSaved == Spec => []BankIsSaved
<1>1. Init => SavedInv
  <2> SUFFICES ASSUME Init PROVE SavedInv
    OBVIOUS
  <2>1. pc = "start" /\ saved = Len(learned) /\ step = 1 /\ RowInv
    BY RowInit DEF Init, AgentInit
  <2>2. Len(learned) \in Nat /\ step - 1 \in Nat
    BY <2>1 DEF RowInv
  <2>3. (step - 1) % SaveEvery \in 0..(SaveEvery - 1)
    BY <2>2, ModSucc, Numbers
  <2>4. QED
    BY <2>1, <2>2, <2>3, Numbers DEF SavedInv
<1>2. SavedInv => BankIsSaved
  BY DEF SavedInv, BankIsSaved
<1>3. QED
  BY <1>1, <1>2, RowAlways, SavedStep, PTL DEF Spec

-----------------------------------------------------------------------------
(* The route.                                                              *)

\* Nothing but edges is ever learned.
GraphInv == edges \in Seq(Edges)

LEMMA GraphStep == RowInv /\ GraphInv /\ [Next]_vars => GraphInv'
<1> SUFFICES ASSUME RowInv, GraphInv, [Next]_vars PROVE GraphInv'
  OBVIOUS
<1>1. CASE Learn
  <2>1. /\ scene \in Landmarks /\ action \in ActionsOf[Mode[scene]] /\ after \in Landmarks
    BY <1>1 DEF Learn, RowInv, ActLabels, Screens
  <2> DEFINE new == Edge(scene, after, action)
  <2>2. new \in Edges
    BY <2>1, AgentAssumption DEF Edge, Edges
  <2>3. edges' = edges \/ edges' = Append(edges, new)
    BY <1>1 DEF Learn, Observe
  <2> HIDE DEF new
  <2> QED
    BY <2>2, <2>3, AppendIs DEF GraphInv
<1>2. CASE ~Learn
  <2>1. UNCHANGED edges
    BY <1>2 DEF Next, Step, AgentStep, SetUp, SetUpFails, NextStep, NoMoreSteps, AfterStep,
                SaveBank, Broken, ReleaseInput, CloseSources, SaveAtEnd, SaveFails, Report,
                CleanUpInterrupted, ProcessEnds, SeeUnknown, LookFails, SeeEnd, Choose, Press,
                Hold, Release, Sample, LookAgain, Unverified, StepFails, bankVars, vars,
                agentVars
  <2> QED
    BY <2>1 DEF GraphInv
<1> QED
  BY <1>1, <1>2

\* Whatever a run learns, and in whatever order: at every moment, next_edge answers
\* from every landmark with the first edge of a shortest way to the goal, and with
\* None only where there is no way.
THEOREM TheRouteIsShortest == Spec => []NextEdgeIsShortest
<1>1. Init => GraphInv
  BY AgentAssumption DEF Init, AgentInit, GraphInv
<1>2. GraphInv => NextEdgeIsShortest
  BY TheSearchIsRight DEF GraphInv
<1> QED
  BY <1>1, <1>2, RowAlways, GraphStep, PTL DEF Spec

-----------------------------------------------------------------------------
(* The run with a recorder: it is a run, and its video is complete.        *)

\* The recorder of a run changes nothing of the run, so that what is proved of
\* runs holds of recorded runs.
THEOREM RecordedRunsAreRuns == RecordedSpec => Spec
<1>1. RecordedInit => Init
  BY DEF RecordedInit
<1>2. [RecordedNext]_recordedVars => [Next]_vars
  BY DEF RecordedNext, recordedVars, Construct, SetUpRecorded, SetUpUnrecorded, NextRecordedStep,
     Unrecorded, Thread, ReleaseRecorded, StopThread, Join, CloseRecorded, SaveFailsRecorded,
     ReportRecorded, Next
<1>3. QED
  BY <1>1, <1>2, PTL DEF RecordedSpec, Spec

\* A frame is in the video, then in the log, then counted; only an error comes
\* between them.
FilesInv ==
    /\ frames \in Nat /\ video \in Nat /\ lines \in Nat
    /\ thread \in {"none", "opening", "loop", "write", "log", "count", "ending", "closing", "over"}
    /\ thread \in {"none", "opening", "loop", "write", "log", "count"} => ~error
    /\ thread \notin {"log", "count"} /\ ~error => video = frames /\ lines = frames
    /\ thread = "log" => video = frames + 1 /\ lines = frames
    /\ thread = "count" => video = frames + 1 /\ lines = frames + 1

\* The AVI file is opened before the first frame and released after the last.
WriterInv ==
    /\ thread \in {"loop", "write", "log", "count"} => ready
    /\ thread = "ending" /\ ~error => ready
    /\ thread \in {"closing", "over"} /\ ~error => whole

\* The owner is told of all that could be wrong.
OwnerInv ==
    /\ pc = "start" => recorder \in {"none", "waiting"} /\ summary = None /\ report = None
    /\ recorder = "closed" /\ ~trouble => thread = "over" /\ ~error
    /\ summary # None => recorder = "closed" /\ (~trouble => summary = frames)

VideoInv == FilesInv /\ WriterInv /\ OwnerInv /\ VideoIsComplete

LEMMA FilesThread == FilesInv /\ VideoThread => FilesInv'
BY DEF FilesInv, VideoThread, OpenVideo, ReadFrame, WriteFrame, WriteLine, CountVideo, Stopped,
   VideoFails, ReleaseWriter, CloseSource

LEMMA WriterThread == FilesInv /\ WriterInv /\ VideoThread => WriterInv'
<1> SUFFICES ASSUME FilesInv, WriterInv, VideoThread PROVE WriterInv'
  OBVIOUS
<1> USE DEF WriterInv, FilesInv
<1>1. CASE OpenVideo
  BY <1>1 DEF OpenVideo
<1>2. CASE ReadFrame \/ WriteFrame \/ WriteLine \/ CountVideo \/ Stopped \/ CloseSource
  BY <1>2 DEF ReadFrame, WriteFrame, WriteLine, CountVideo, Stopped, CloseSource
<1>3. CASE VideoFails
  BY <1>3 DEF VideoFails
<1>4. CASE ReleaseWriter
  <2>1. thread = "ending" /\ thread' = "closing" /\ error' = error /\ whole' = ready
    BY <1>4 DEF ReleaseWriter
  <2>2. ~error' => whole'
    BY <2>1, Zenon
  <2>3. QED
    BY <2>1, <2>2
<1>5. QED
  BY <1>1, <1>2, <1>3, <1>4 DEF VideoThread

\* No step leads back to the start of a run.
LEMMA StartIsFirst == [Next]_vars /\ pc' = "start" => pc = "start" /\ pc' = pc
<1> SUFFICES ASSUME [Next]_vars, pc' = "start" PROVE pc = "start"
  OBVIOUS
<1> USE DEF Goto, Leaves, Returns
<1>1. CASE Step
  BY <1>1 DEF Step, AgentStep, SeeUnknown, LookFails, SeeEnd, Choose, Press, Hold, Release, Sample,
     LookAgain, Unverified, Learn, StepFails
<1>2. CASE UNCHANGED vars
  BY <1>2 DEF vars, agentVars, stepVars
<1>3. CASE SetUp \/ SetUpFails \/ NextStep \/ NoMoreSteps \/ AfterStep \/ SaveBank \/ Broken
  BY <1>3 DEF SetUp, SetUpFails, NextStep, NoMoreSteps, AfterStep, SaveBank, Broken
<1>4. CASE ReleaseInput \/ CloseSources \/ SaveAtEnd \/ SaveFails \/ Report \/ CleanUpInterrupted
           \/ ProcessEnds
  BY <1>4 DEF ReleaseInput, CloseSources, SaveAtEnd, SaveFails, Report, CleanUpInterrupted,
     ProcessEnds, CleanUp
<1>5. QED
  BY <1>1, <1>2, <1>3, <1>4 DEF Next

\* A step that leaves the files alone.
LEMMA ThreadKept ==
    ASSUME FilesInv, WriterInv, UNCHANGED threadVars
    PROVE  FilesInv' /\ WriterInv'
BY DEF FilesInv, WriterInv, threadVars

LEMMA VideoStep == VideoInv /\ [RecordedNext]_recordedVars => VideoInv'
<1> SUFFICES ASSUME VideoInv, [RecordedNext]_recordedVars PROVE VideoInv'
  OBVIOUS
<1>0. [Next]_vars /\ (pc' = "start" => pc = "start")
  <2>1. [Next]_vars
    BY DEF RecordedNext, recordedVars, Construct, SetUpRecorded, SetUpUnrecorded, NextRecordedStep,
       Unrecorded, Thread, ReleaseRecorded, StopThread, Join, CloseRecorded, SaveFailsRecorded,
       ReportRecorded, Next
  <2>2. QED
    BY <2>1, StartIsFirst
<1> USE DEF VideoInv
<1>1. CASE UNCHANGED recordedVars \/ NextRecordedStep \/ Unrecorded
  <2>1. UNCHANGED <<threadVars, recorder, trouble, summary, report>>
    BY <1>1 DEF recordedVars, NextRecordedStep, Unrecorded, recorderVars, ownerVars
  <2>2. QED
    BY <1>0, <2>1, ThreadKept DEF OwnerInv, VideoIsComplete, threadVars
<1>2. CASE Construct
  <2>1. /\ thread = "none" /\ thread' = "opening" /\ recorder = "none" /\ recorder' = "waiting"
        /\ UNCHANGED <<ready, error, frames, video, lines, whole, trouble, summary, report>>
        /\ pc = "start"
    BY <1>2 DEF Construct, StartThread
  <2>2. FilesInv' /\ WriterInv'
    BY <2>1 DEF FilesInv, WriterInv
  <2>3. QED
    BY <1>0, <2>1, <2>2 DEF OwnerInv, VideoIsComplete
<1>3. CASE SetUpRecorded \/ SetUpUnrecorded
  <2>1. /\ pc = "start" /\ pc' # "start" /\ recorder' # "closed"
        /\ UNCHANGED <<threadVars, trouble, summary, report>>
    BY <1>3 DEF SetUpRecorded, SetUpUnrecorded, SetUp, SetUpFails, Goto, recorderVars, OwnerInv
  <2>2. QED
    BY <2>1, ThreadKept DEF OwnerInv, VideoIsComplete, threadVars
<1>4. CASE Thread
  <2>1. VideoThread /\ UNCHANGED <<pc, recorder, trouble, summary, report>>
    BY <1>4 DEF Thread, vars, agentVars, stepVars, ownerVars
  <2>2. thread # "over"
    BY <2>1 DEF VideoThread, OpenVideo, ReadFrame, WriteFrame, WriteLine, CountVideo, Stopped,
       VideoFails, ReleaseWriter, CloseSource
  <2>3. report = None /\ (recorder = "closed" => trouble)
    BY <2>2 DEF VideoIsComplete, OwnerInv
  <2>4. OwnerInv' /\ VideoIsComplete'
    BY <2>1, <2>3 DEF OwnerInv, VideoIsComplete
  <2>5. QED
    BY <2>1, <2>4, FilesThread, WriterThread
<1>5. CASE ReleaseRecorded \/ StopThread \/ SaveFailsRecorded
  <2>1. trouble => trouble'
    BY <1>5, Zenon DEF ReleaseRecorded, StopThread, SaveFailsRecorded
  <2>2. /\ UNCHANGED <<threadVars, summary, report>> /\ pc' # "start"
        /\ recorder' = recorder \/ (recorder = "owned" /\ recorder' = "joining")
    BY <1>5, <1>0 DEF ReleaseRecorded, StopThread, SaveFailsRecorded, recorderVars, ReleaseInput,
       SaveFails
  <2>3. QED
    BY <1>0, <2>1, <2>2, ThreadKept DEF OwnerInv, VideoIsComplete, threadVars
<1>6. CASE Join
  <2>1. /\ UNCHANGED <<threadVars, summary, report>> /\ pc = "close" /\ pc' = pc
        /\ recorder = "joining" /\ recorder' = "closed"
        /\ ~trouble' => thread = "over" /\ ~error
    BY <1>6 DEF Join, recorderVars, vars, agentVars, stepVars
  <2>2. QED
    BY <2>1, ThreadKept DEF OwnerInv, VideoIsComplete, threadVars
<1>7. CASE CloseRecorded
  <2>1. trouble => trouble'
    BY <1>7, Zenon DEF CloseRecorded
  <2>2. /\ UNCHANGED <<threadVars, recorder, report>> /\ pc' # "start"
        /\ recorder \in {"none", "closed"}
        /\ summary' = IF recorder = "none" THEN None ELSE frames
    BY <1>7 DEF CloseRecorded, CloseSources, recorderVars, Goto
  <2>3. QED
    BY <2>1, <2>2, ThreadKept DEF OwnerInv, VideoIsComplete, threadVars
<1>8. CASE ReportRecorded
  <2>1. /\ UNCHANGED <<threadVars, recorder, trouble, summary>> /\ pc' # "start"
        /\ report' = IF trouble THEN None ELSE summary
    BY <1>8 DEF ReportRecorded, Report, recorderVars, Goto
  <2>2. VideoIsComplete'
    BY <2>1 DEF VideoIsComplete, OwnerInv, FilesInv, WriterInv, threadVars
  <2>3. QED
    BY <2>1, <2>2, ThreadKept DEF OwnerInv, threadVars
<1>9. QED
  BY <1>1, <1>2, <1>3, <1>4, <1>5, <1>6, <1>7, <1>8 DEF RecordedNext

\* perception/video_recorder.py: a report that tells of a video and of no trouble
\* tells the truth about it, whatever fails in the thread, in the wait for it or
\* around it.
THEOREM ReportedVideosAreComplete == RecordedSpec => []VideoIsComplete
<1>1. RecordedInit => VideoInv
  BY DEF RecordedInit, RecorderInit, VideoInv, FilesInv, WriterInv, OwnerInv, VideoIsComplete
<1>2. QED
  BY <1>1, VideoStep, PTL DEF RecordedSpec, VideoInv
==============================================================================
