---------------------- MODULE ControllerSession_proofs ----------------------
(***************************************************************************)
(* Theorems about the controller sessions, for any number of processes.    *)
(***************************************************************************)
EXTENDS ControllerSession, TLAPS

Plugged == {"settling", "launching", "running", "closing", "polling", "waiting", "unplugging"}
Holding == Plugged \cup {"leased", "freeing"}

\* The lock is held from before the device exists until the device is let go;
\* what an exception holds on Windows may be there longer, until its process ends.
PadInv ==
    \A s \in Sessions :
        /\ pc[s] \in Plugged => report[s] # "absent"
        /\ report[s] # "absent" =>
              pc[s] \in Plugged \/ (windows /\ pc[s] \in {"freeing", "ending"})
        /\ pc[s] \in Holding <=> lease = s

IInv == TypeOK /\ PadInv

World(s) == Kill(s) \/ Escape(s) \/ Again(s)

LEMMA InitIInv == Init => IInv
<1> SUFFICES ASSUME Init PROVE IInv
  OBVIOUS
<1>1. TypeOK
  BY DEF Init, TypeOK, Labels, Reports
<1>2. PadInv
  BY SessionAssumption DEF Init, PadInv, Plugged, Holding
<1>3. QED
  BY <1>1, <1>2 DEF IInv

LEMMA NeutralType ==
    ASSUME TypeOK, NEW s \in Sessions, NEW ok \in BOOLEAN, NEW r \in AfterNeutral(s, ok)
    PROVE  /\ r \in Reports
           /\ report[s] # "absent" => r # "absent"
           /\ ok => r # "held"
BY DEF TypeOK, AfterNeutral, Reports

\* One step of one process keeps the types.
LEMMA TypeStep ==
    ASSUME TypeOK, NEW s \in Sessions, Step(s) \/ World(s)
    PROVE  TypeOK'
<1> USE DEF TypeOK, Goto, Labels, Unnoticed, aside
<1>1. CASE Check(s) \/ Acquire(s) \/ Open(s) \/ OpenFails(s)
  BY <1>1 DEF Check, Acquire, Open, OpenFails, Reports
<1>2. CASE Settle(s) \/ SettleInterrupted(s) \/ Launch(s) \/ LaunchNothing(s) \/ LaunchFails(s)
           \/ LaunchInterrupted(s)
  BY <1>2 DEF Settle, SettleInterrupted, Launch, LaunchNothing, LaunchFails, LaunchInterrupted
<1>3. CASE Play(s) \/ Leave(s)
  BY <1>3 DEF Play, Leave, Reports
<1>4. CASE Release(s)
  BY <1>4, NeutralType DEF Release
<1>5. CASE RetryFails(s)
  BY <1>5, NeutralType DEF RetryFails
<1>6. CASE Unplug(s)
  BY <1>6, NeutralType DEF Unplug, Reports
<1>7. CASE PollChild(s) \/ Retried(s) \/ WaitOver(s) \/ Free(s) \/ Exit(s)
  BY <1>7 DEF PollChild, Retried, WaitOver, Free, Exit, Reports
<1>8. CASE World(s)
  BY <1>8 DEF World, Kill, Escape, Again, ProcessDies, Orphaned, Reports
<1>9. QED
  BY <1>1, <1>2, <1>3, <1>4, <1>5, <1>6, <1>7, <1>8 DEF Step, Enter, Close

LEMMA PadStep ==
    ASSUME TypeOK, PadInv, NEW s \in Sessions, Step(s) \/ World(s)
    PROVE  PadInv'
<1> USE SessionAssumption DEF TypeOK, Goto, PadInv, Plugged, Holding, aside
<1>1. CASE Check(s) \/ Acquire(s)
  BY <1>1 DEF Check, Acquire
<1>2. CASE Open(s) \/ OpenFails(s)
  BY <1>2 DEF Open, OpenFails
<1>3. CASE Settle(s) \/ SettleInterrupted(s) \/ Launch(s) \/ LaunchNothing(s)
  BY <1>3 DEF Settle, SettleInterrupted, Launch, LaunchNothing
<1>3a. CASE LaunchFails(s) \/ LaunchInterrupted(s)
  BY <1>3a DEF LaunchFails, LaunchInterrupted
<1>4. CASE Play(s) \/ Leave(s)
  BY <1>4 DEF Play, Leave
<1>5. CASE Release(s)
  <2>1. PICK ok \in BOOLEAN : \E r \in AfterNeutral(s, ok) : report' = [report EXCEPT ![s] = r]
    BY <1>5 DEF Release
  <2>2. report' \in [Sessions -> Reports] /\ report'[s] # "absent"
        /\ \A t \in Sessions \ {s} : report'[t] = report[t]
    BY <1>5, <2>1, NeutralType DEF Release
  <2>3. QED
    BY <1>5, <2>2 DEF Release
<1>6. CASE RetryFails(s)
  <2>1. report'[s] # "absent" /\ \A t \in Sessions \ {s} : report'[t] = report[t]
    BY <1>6, NeutralType DEF RetryFails
  <2>2. QED
    BY <1>6, <2>1 DEF RetryFails
<1>7. CASE Unplug(s)
  <2>1. /\ report'[s] # "absent" => windows
        /\ \A t \in Sessions \ {s} : report'[t] = report[t]
    BY <1>7 DEF Unplug
  <2>2. QED
    BY <1>7, <2>1 DEF Unplug
<1>8. CASE PollChild(s) \/ Retried(s) \/ WaitOver(s) \/ Free(s) \/ Exit(s)
  BY <1>8 DEF PollChild, Retried, WaitOver, Free, Exit
<1>9. CASE World(s)
  BY <1>9 DEF World, Kill, Escape, Again, ProcessDies
<1>10. QED
  BY <1>1, <1>2, <1>3, <1>3a, <1>4, <1>5, <1>6, <1>7, <1>8, <1>9 DEF Step, Enter, Close

LEMMA GamesStep ==
    ASSUME IInv, GameEnds \/ GameStarts \/ UNCHANGED vars
    PROVE  IInv'
BY DEF IInv, TypeOK, PadInv, GameEnds, GameStarts, Unnoticed, aside, vars

LEMMA NextIInv == IInv /\ [Next]_vars => IInv'
<1> SUFFICES ASSUME IInv, [Next]_vars PROVE IInv'
  OBVIOUS
<1>1. ASSUME NEW s \in Sessions, Step(s) \/ World(s) PROVE IInv'
  BY <1>1, TypeStep, PadStep DEF IInv
<1>2. CASE GameEnds \/ GameStarts \/ UNCHANGED vars
  BY <1>2, GamesStep
<1>3. QED
  BY <1>1, <1>2 DEF Next, World

\* The conjunction that is inductive: who holds the lease has the only pad that a
\* live session uses.
THEOREM InductiveInvariant == Spec => []IInv
<1>1. QED
  BY InitIInv, NextIInv, PTL DEF Spec

\* Every variable of the sessions keeps its type.
THEOREM TypesHold == Spec => []TypeOK
<1>1. IInv => TypeOK
  BY DEF IInv
<1>2. QED
  BY <1>1, InductiveInvariant, PTL

\* Two gamepads never exist at a time, however many processes try, but for those
\* that an exception holds in a process that has freed the lock and is ending.
THEOREM OneControllerOwner == Spec => []OnePad
<1>1. IInv => OnePad
  <2> SUFFICES ASSUME IInv, NEW s \in Sessions, NEW t \in Sessions,
                      report[s] # "absent", report[t] # "absent"
               PROVE  s = t \/ (windows /\ \E u \in {s, t} : pc[u] = "ending")
    BY DEF OnePad
  <2>1. CASE pc[s] = "ending" \/ pc[t] = "ending"
    BY <2>1 DEF IInv, PadInv, Plugged
  <2>2. CASE pc[s] # "ending" /\ pc[t] # "ending"
    BY <2>2 DEF IInv, PadInv, Plugged, Holding
  <2>3. QED
    BY <2>1, <2>2
<1>2. QED
  BY <1>1, InductiveInvariant, PTL

-----------------------------------------------------------------------------
(* The games.  A launched game runs while its session plays or waits, or   *)
(* has been orphaned; and who has read the process list and missed nothing *)
(* since knows that only sessions run games.                               *)

Entering == {"start", "checked", "leased", "settling", "launching"}
AtGame == {"running", "closing", "polling", "waiting"}

GameInv ==
    /\ \A s \in games \cap Sessions : s \in escaped \/ (launched[s] /\ pc[s] \in AtGame)
    /\ \A s \in escaped : pc[s] \notin Entering
    /\ windows => \A s \in Sessions :
          pc[s] \in {"checked", "leased"} /\ s \notin unlisted => games \subseteq Sessions \ escaped

GInv == IInv /\ GameInv

LEMMA GameStep ==
    ASSUME GInv, [Next]_vars
    PROVE  GameInv'
<1> USE SessionAssumption DEF GInv, IInv, TypeOK, GameInv, Goto, Entering, AtGame, aside
<1>1. ASSUME NEW s \in Sessions, Enter(s) PROVE GameInv'
  <2>1. CASE Check(s)
    BY <2>1 DEF Check
  <2>2. CASE Launch(s)
    BY <2>2 DEF Launch
  <2>3. CASE LaunchInterrupted(s)
    BY <2>3 DEF LaunchInterrupted, Unnoticed
  <2>4. CASE Acquire(s) \/ Open(s) \/ OpenFails(s) \/ Settle(s) \/ SettleInterrupted(s)
             \/ LaunchNothing(s) \/ LaunchFails(s)
    <3>1. /\ UNCHANGED <<games, launched, aside>> /\ pc[s] \in Entering /\ pc[s] \notin AtGame
          /\ pc' = [pc EXCEPT ![s] = pc'[s]]
          /\ pc'[s] \in {"checked", "leased"} => pc[s] \in {"checked", "leased"}
      BY <2>4 DEF Acquire, Open, OpenFails, Settle, SettleInterrupted, LaunchNothing, LaunchFails
    <3>2. s \notin games /\ s \notin escaped
      BY <3>1
    <3>3. QED
      BY <3>1, <3>2
  <2>5. QED
    BY <1>1, <2>1, <2>2, <2>3, <2>4 DEF Enter
<1>2. ASSUME NEW s \in Sessions, Play(s) \/ Leave(s) PROVE GameInv'
  BY <1>2 DEF Play, Leave
<1>3. ASSUME NEW s \in Sessions, Close(s) PROVE GameInv'
  <2>1. /\ UNCHANGED <<games, launched, aside>>
        /\ \A t \in Sessions \ {s} : pc'[t] = pc[t]
        /\ pc'[s] \notin Entering
    BY <1>3 DEF Close, Release, PollChild, Retried, RetryFails, WaitOver, Unplug, Free, Exit
  <2>2. s \in games /\ s \notin escaped => pc'[s] \in AtGame
    <3>1. CASE Release(s) \/ PollChild(s)
      BY <3>1 DEF Release, PollChild
    <3>2. CASE Retried(s) \/ RetryFails(s)
      BY <3>2 DEF Retried, RetryFails
    <3>3. CASE WaitOver(s) \/ Unplug(s) \/ Free(s) \/ Exit(s)
      BY <3>3 DEF WaitOver, Unplug, Free, Exit
    <3>4. QED
      BY <1>3, <3>1, <3>2, <3>3 DEF Close
  <2>3. QED
    BY <2>1, <2>2
<1>4. ASSUME NEW s \in Sessions, Kill(s) PROVE GameInv'
  BY <1>4 DEF Kill, ProcessDies, Orphaned, Unnoticed
<1>5. ASSUME NEW s \in Sessions, Escape(s) PROVE GameInv'
  BY <1>5 DEF Escape, ProcessDies, Unnoticed
<1>6. ASSUME NEW s \in Sessions, Again(s) PROVE GameInv'
  BY <1>6 DEF Again, Orphaned
<1>7. CASE GameEnds
  BY <1>7 DEF GameEnds
<1>8. CASE GameStarts
  BY <1>8 DEF GameStarts, Unnoticed
<1>9. CASE UNCHANGED vars
  BY <1>9 DEF vars
<1>10. QED
  BY <1>1, <1>2, <1>3, <1>4, <1>5, <1>6, <1>7, <1>8, <1>9 DEF Next, Step

\* The same, and where the games are.
THEOREM GameInvariant == Spec => []GInv
<1>1. Init => GInv
  BY InitIInv, SessionAssumption DEF Init, GInv, GameInv, Entering
<1>2. GInv /\ [Next]_vars => GInv'
  BY GameStep, NextIInv DEF GInv
<1>3. QED
  BY <1>1, <1>2, PTL DEF Spec

\* The gamepad of a session is connected as long as its game runs, through every
\* failed release and every interrupt that the wait handles.
THEOREM PadsOutliveGames == Spec => []PadOutlivesGame
<1>1. GInv => PadOutlivesGame
  BY DEF GInv, IInv, PadInv, GameInv, PadOutlivesGame, Plugged, AtGame
<1>2. QED
  BY <1>1, GameInvariant, PTL

\* A gamepad appears only when a session opens it.
LEMMA OnlyOpening ==
    ASSUME IInv, [Next]_vars, NEW s \in Sessions, report[s] = "absent", report'[s] # "absent"
    PROVE  pc[s] = "leased"
<1> USE DEF IInv, TypeOK
<1>1. ASSUME NEW t \in Sessions, Step(t) \/ World(t) PROVE pc[s] = "leased"
  <2>1. CASE Open(t) \/ OpenFails(t)
    BY <2>1 DEF Open, OpenFails
  <2>2. CASE Check(t) \/ Acquire(t) \/ Settle(t) \/ SettleInterrupted(t) \/ Launch(t)
             \/ LaunchNothing(t) \/ LaunchFails(t) \/ LaunchInterrupted(t) \/ Leave(t)
    BY <2>2 DEF Check, Acquire, Settle, SettleInterrupted, Launch, LaunchNothing, LaunchFails,
                LaunchInterrupted, Leave
  <2>3. CASE Play(t)
    BY <2>3 DEF Play, PadInv, Plugged
  <2>4. CASE Close(t)
    <3>1. pc[t] \in Plugged \/ UNCHANGED report \/ report'[t] = "absent"
      BY <2>4 DEF Close, Release, PollChild, Retried, RetryFails, WaitOver, Unplug, Free, Exit,
                  Plugged
    <3>2. \A u \in Sessions \ {t} : report'[u] = report[u]
      BY <2>4 DEF Close, Release, PollChild, Retried, RetryFails, WaitOver, Unplug, Free, Exit
    <3>3. QED
      BY <3>1, <3>2 DEF PadInv
  <2>5. CASE World(t)
    BY <2>5 DEF World, Kill, Escape, Again, ProcessDies
  <2>6. QED
    BY <1>1, <2>1, <2>2, <2>3, <2>4, <2>5 DEF Step, Enter
<1>2. ~(GameEnds \/ GameStarts \/ UNCHANGED vars)
  BY DEF GameEnds, GameStarts, vars
<1>3. QED
  BY <1>1, <1>2 DEF Next, World

LEMMA JoinStep ==
    ASSUME GInv, [Next]_vars, windows, NEW s \in Sessions,
           report[s] = "absent", report'[s] # "absent", s \notin unlisted
    PROVE  games = {}
<1>1. pc[s] = "leased"
  BY OnlyOpening DEF GInv
<1>2. games \subseteq Sessions \ escaped
  BY <1>1 DEF GInv, GameInv
<1>3. ASSUME NEW t \in games PROVE FALSE
  <2>1. t \in Sessions /\ pc[t] \in AtGame
    BY <1>2, <1>3 DEF GInv, GameInv
  <2>2. lease = t /\ lease = s
    BY <1>1, <2>1 DEF GInv, IInv, PadInv, AtGame, Holding, Plugged
  <2>3. QED
    BY <1>1, <2>1, <2>2 DEF AtGame
<1>4. QED
  BY <1>3

\* On Windows a gamepad appears beside a running game only if that game was
\* started by hand, or lost its session, after the process list was read.
THEOREM NoPadJoins == Spec => NoPadJoinsAGame
<1>1. GInv /\ [Next]_vars =>
          [\A s \in Sessions :
              windows /\ report[s] = "absent" /\ report'[s] # "absent" =>
                  games = {} \/ s \in unlisted]_vars
  BY JoinStep
<1>2. QED
  BY <1>1, GameInvariant, PTL DEF Spec, NoPadJoinsAGame
=============================================================================
