---------------------------- MODULE CapturePilot ----------------------------
(***************************************************************************)
(* scripts/windows_capture_pilot.py: a bounded session that plays the game *)
(* without a trained policy and records each frame with the input that was *)
(* held for it.  An operator sends commands through a file or stdin; the   *)
(* window may lose and regain the focus between any two steps; any call of *)
(* a device may raise.                                                     *)
(*                                                                         *)
(* One turn of the loop goes through "top", "send", "look", "read" and     *)
(* "judge".  Times are counted in units of the shortest hold.              *)
(***************************************************************************)
EXTENDS Integers, Sequences, FiniteSets

CONSTANTS
    Seconds,        \* --seconds, the budget once recording has started
    SetupSeconds,   \* --setup-seconds
    Holds,          \* how long a setup or an exploration press may last
    RetryPause,     \* from a retry to the next thing pressed
    MaxTick,        \* bound: time that one turn takes at most
    MaxCommands,    \* bound: commands the operator sends
    None

ASSUME PilotAssumption ==
    /\ Seconds \in Nat \ {0} /\ SetupSeconds \in Nat \ {0}
    /\ Holds \subseteq Nat \ {0} /\ RetryPause \in Nat \ {0, 1}
    /\ MaxTick \in Nat \ {0} /\ MaxCommands \in Nat

\* Buttons beside "stop" are not looked at, and a press that is invalid raises
\* whatever the mode; a command of neither changes nothing.
Orders == {<<"stop", "none">>, <<"explore", "none">>, <<"explore", "valid">>,
           <<"none", "valid">>, <<"none", "invalid">>}
Command(id, order) == [id |-> id, mode |-> order[1], buttons |-> order[2]]

VARIABLES
    pc,
    tick,           \* perf_counter at the top of the turn
    started,        \* when recording started, or None
    mode,           \* "setup", "explore" or "retry"
    active,         \* the input the pilot believes is held
    releaseAt,      \* release_at, 0 when nothing is to be released
    nextAction,
    retryUntil,
    deathCount,
    file,           \* command.json
    stdin,          \* the queue that read_commands fills
    stdinCommand,   \* the last command taken from it
    lastId,
    captured,       \* captured_input
    pad,            \* what the controller reports
    focused,        \* whether the game has the focus
    sent,           \* commands the operator has sent
    broken,         \* history: a neutral() of the clean-up raised
    regained,       \* history: the focus came back after active was set
    row             \* history: the input last recorded and the one that was held

clock == <<tick, started, releaseAt, nextAction, retryUntil>>
commands == <<file, stdin, stdinCommand, lastId, sent>>
vars == <<pc, clock, mode, active, deathCount, commands, captured, pad, focused, broken,
          regained, row>>

Neutral == "neutral"

\* exploration_action: one of four presses; which one is left open.
Exploration == "explore"

Init ==
    /\ pc = "top" /\ tick = 0 /\ started = None /\ mode = "setup"
    /\ active = Neutral /\ releaseAt = 0 /\ nextAction = 0 /\ retryUntil = 0
    /\ deathCount = 0
    /\ file = None /\ stdin = <<>> /\ stdinCommand = None /\ lastId = 0 /\ sent = 0
    /\ captured = Neutral /\ pad = Neutral /\ focused \in BOOLEAN
    /\ broken = FALSE /\ regained = FALSE /\ row = None

-----------------------------------------------------------------------------
(* The operator and the desktop.                                           *)

NewCommand ==
    /\ sent < MaxCommands /\ pc # "ended"
    /\ sent' = sent + 1
    /\ \E order \in Orders :
            \/ file' = Command(sent', order) /\ UNCHANGED stdin
            \/ stdin' = Append(stdin, Command(sent', order)) /\ UNCHANGED file
    /\ UNCHANGED <<pc, clock, mode, active, deathCount, stdinCommand, lastId, captured, pad,
                   focused, broken, regained, row>>

SwitchWindow ==
    /\ pc # "ended"
    /\ focused' = ~focused
    /\ regained' = (regained \/ ~focused)
    /\ UNCHANGED <<pc, clock, mode, active, deathCount, commands, captured, pad, broken, row>>

-----------------------------------------------------------------------------
(* The loop.                                                               *)

Hold(input) == active' = input /\ regained' = FALSE

Break == pc' = "cleanup"

\* A newer command replaces one that has not been carried out; once one came
\* from stdin the file is not looked at again.
Taken == IF stdin # <<>> THEN Head(stdin) ELSE stdinCommand
Current == IF Taken # None THEN Taken ELSE file

Heeded ==
    /\ Current # None /\ Current.id # lastId
    /\ Current.mode = "stop" \/ focused

\* The pilot looks for a command; a press is built here and sent in SendSetup.
Top ==
    /\ pc = "top"
    /\ stdinCommand' = Taken
    /\ stdin' = IF stdin # <<>> THEN Tail(stdin) ELSE stdin
    /\ lastId' = IF Heeded THEN Current.id ELSE lastId
    /\ \/ /\ Heeded /\ Current.mode = "stop"
          /\ Break
          /\ UNCHANGED <<started, mode, nextAction, active, regained>>
       \/ /\ Heeded /\ Current.mode # "stop"
          /\ LET explore == Current.mode = "explore"
                 press == Current.buttons # "none"
             IN  /\ started' = IF explore /\ started = None THEN tick ELSE started
                 /\ nextAction' = IF explore THEN tick ELSE nextAction
                 /\ mode' = IF press THEN "setup" ELSE IF explore THEN "explore" ELSE mode
                 /\ IF Current.buttons = "invalid"
                    THEN Break /\ UNCHANGED <<active, regained>>
                    ELSE IF press THEN pc' = "send" /\ Hold("setup")
                    ELSE pc' = "budget" /\ UNCHANGED <<active, regained>>
       \/ /\ ~Heeded /\ pc' = "budget"
          /\ UNCHANGED <<started, mode, nextAction, active, regained>>
    /\ UNCHANGED <<tick, releaseAt, retryUntil, deathCount, file, sent, captured, pad,
                   focused, broken, row>>

\* Mutant: a press is sent without a time to release it.
SendSetupForGood ==
    /\ pc = "send"
    /\ IF focused
       THEN pad' = active /\ (pc' = "budget" \/ Break)
       ELSE pc' = "budget" /\ UNCHANGED pad
    /\ UNCHANGED <<tick, started, releaseAt, nextAction, retryUntil, mode, active, deathCount,
                   commands, captured, focused, broken, regained, row>>

\* The focus is looked at once more; a hold that is no number raises after the
\* press was sent.
SendSetup ==
    /\ pc = "send"
    /\ IF focused
       THEN /\ pad' = active
            /\ \/ pc' = "budget" /\ \E h \in Holds : releaseAt' = tick + h
               \/ Break /\ UNCHANGED releaseAt
       ELSE pc' = "budget" /\ UNCHANGED <<pad, releaseAt>>
    /\ UNCHANGED <<tick, started, nextAction, retryUntil, mode, active, deathCount, commands,
                   captured, focused, broken, regained, row>>

OverBudget == IF started # None THEN tick - started >= Seconds ELSE tick >= SetupSeconds

Budget ==
    /\ pc = "budget"
    /\ IF OverBudget THEN Break ELSE pc' = "look"
    /\ UNCHANGED <<clock, mode, active, deathCount, commands, captured, pad, focused, broken,
                   regained, row>>

\* time.sleep, or whatever the turn took.
NextTurn == pc' = "top" /\ \E d \in 0..MaxTick : tick' = tick + d

Unfocused ==
    /\ pc = "look" /\ ~focused
    /\ pad' = Neutral /\ Hold(Neutral)
    /\ IF started # None THEN Break /\ UNCHANGED tick ELSE NextTurn
    /\ UNCHANGED <<started, releaseAt, nextAction, retryUntil, mode, deathCount, commands,
                   captured, focused, broken, row>>

\* What is due is released, an exploration press is sent, and the input the
\* frame will be recorded with is noted.
\*
\* Mutant: the pilot goes on to believe that what it has released is held.
LookForgets ==
    /\ pc = "look" /\ focused
    /\ LET release == releaseAt # 0 /\ tick >= releaseAt
           explore == mode = "explore" /\ tick >= nextAction
       IN  /\ IF explore THEN pad' = Exploration /\ Hold(Exploration)
              ELSE pad' = (IF release THEN Neutral ELSE pad) /\ UNCHANGED <<active, regained>>
           /\ IF explore THEN \E h \in Holds : releaseAt' = tick + h /\ nextAction' = tick + h + 1
              ELSE releaseAt' = (IF release THEN 0 ELSE releaseAt) /\ UNCHANGED nextAction
    /\ captured' = active'
    /\ pc' = "read"
    /\ UNCHANGED <<tick, started, retryUntil, mode, deathCount, commands, focused, broken, row>>

Look ==
    /\ pc = "look" /\ focused
    /\ LET release == releaseAt # 0 /\ tick >= releaseAt
           explore == mode = "explore" /\ tick >= nextAction
       IN  /\ IF explore THEN pad' = Exploration /\ Hold(Exploration)
              ELSE IF release THEN pad' = Neutral /\ Hold(Neutral)
              ELSE UNCHANGED <<pad, active, regained>>
           /\ IF explore THEN \E h \in Holds : releaseAt' = tick + h /\ nextAction' = tick + h + 1
              ELSE releaseAt' = (IF release THEN 0 ELSE releaseAt) /\ UNCHANGED nextAction
    /\ captured' = active'
    /\ pc' = "read"
    /\ UNCHANGED <<tick, started, retryUntil, mode, deathCount, commands, focused, broken, row>>

Read ==
    /\ pc = "read"
    /\ pc' = "judge"
    /\ UNCHANGED <<clock, mode, active, deathCount, commands, captured, pad, focused, broken,
                   regained, row>>

\* The focus was lost while the frame was taken: active and releaseAt stay.
Discard ==
    /\ pc = "judge" /\ ~focused
    /\ pad' = Neutral
    /\ IF started # None THEN Break /\ UNCHANGED tick ELSE NextTurn
    /\ UNCHANGED <<started, releaseAt, nextAction, retryUntil, mode, active, deathCount,
                   commands, captured, focused, broken, regained, row>>

Retried(isDeath) == isDeath /\ deathCount >= 2 /\ tick >= retryUntil

\* The frame is compared with the death card, three in a row are confirmed
\* once, and the frame is recorded if the recording has started by now.
Judge ==
    /\ pc = "judge" /\ focused
    /\ \E isDeath \in BOOLEAN :
        /\ deathCount' = IF isDeath THEN (IF deathCount < 3 THEN deathCount + 1 ELSE 3) ELSE 0
        /\ IF Retried(isDeath)
           THEN /\ pad' = "retry" /\ Hold("retry") /\ mode' = "retry"
                /\ releaseAt' = tick + 1
                /\ retryUntil' = tick + RetryPause /\ nextAction' = retryUntil'
                /\ started' = IF started = None THEN tick ELSE started
           ELSE /\ IF mode = "retry" /\ tick >= retryUntil /\ ~isDeath
                   THEN mode' = "explore" /\ nextAction' = tick
                   ELSE UNCHANGED <<mode, nextAction>>
                /\ UNCHANGED <<pad, active, regained, releaseAt, retryUntil, started>>
    /\ IF started' # None
       THEN row' = [recorded |-> captured, held |-> pad, excused |-> regained]
       ELSE UNCHANGED row
    /\ NextTurn
    /\ UNCHANGED <<commands, captured, focused, broken>>

\* The game has exited, a device call raises, or the operator interrupts.
Stops ==
    /\ pc \in {"top", "send", "budget", "look", "read", "judge"}
    /\ Break
    /\ UNCHANGED <<clock, mode, active, deathCount, commands, captured, pad, focused, broken,
                   regained, row>>

\* The first neutral() of the clean-up, the summary, and then session.close(),
\* which lets go of the input again and waits for the game to end.
CleanUp ==
    /\ pc \in {"cleanup", "closing"}
    /\ \/ pad' = Neutral /\ UNCHANGED broken
       \/ UNCHANGED pad /\ broken' = TRUE
    /\ pc' = IF pc = "cleanup" THEN "closing" ELSE "waiting"
    /\ UNCHANGED <<clock, mode, active, deathCount, commands, captured, focused, regained, row>>

GameEnds ==
    /\ pc = "waiting"
    /\ pc' = "ended"
    /\ UNCHANGED <<clock, mode, active, deathCount, commands, captured, pad, focused, broken,
                   regained, row>>

Next ==
    \/ Top \/ SendSetup \/ Budget \/ Unfocused \/ Look \/ Read \/ Discard \/ Judge
    \/ Stops \/ CleanUp \/ GameEnds
    \/ NewCommand \/ SwitchWindow

Spec == Init /\ [][Next]_vars

-----------------------------------------------------------------------------
\* No press is forgotten: between two turns an input that is held has a time at
\* which it is released, and while the session waits for the game to end
\* nothing is held, unless a neutral() of the clean-up raised.
EveryPressEnds ==
    /\ pc = "top" /\ pad # Neutral => releaseAt # 0
    /\ pc = "waiting" /\ ~broken => pad = Neutral

\* A frame is recorded with the input that was held when it was captured, if
\* the focus did not go and come back since the pilot last changed it.
RecordedInputIsHeld ==
    row # None /\ ~row.excused => row.recorded = row.held
=============================================================================
