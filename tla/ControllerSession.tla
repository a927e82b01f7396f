-------------------------- MODULE ControllerSession --------------------------
(***************************************************************************)
(* GamepadSession of control/session.py over the actuators and the lease   *)
(* of control/: processes that each open the virtual gamepad, launch the   *)
(* game, play, and keep the gamepad connected until the game is closed.    *)
(* A call on the device may fail at any time, and Ctrl+C may come wherever *)
(* no handler is around; processes run concurrently and share the lock     *)
(* file and the machine.                                                   *)
(***************************************************************************)
CONSTANTS
    Sessions,       (* processes; each runs one session at a time           *)
    Stray,          (* a running game that no live session launched         *)
    None            (* nobody                                               *)

ASSUME SessionAssumption ==
    Stray \notin Sessions /\ None \notin Sessions

VARIABLES
    pc,         (* where each process is                                    *)
    lease,      (* who holds the lock on the file                           *)
    report,     (* what the gamepad of each process reports, or "absent"    *)
    games,      (* running games: the sessions that launched them, or Stray *)
    launched,   (* child is not None                                        *)
    owed,       (* release_error is not None                                *)
    windows,    (* the platform, which stays what it is                     *)
    \* history
    escaped,    (* sessions that an interrupt took from their running game  *)
    unlisted    (* sessions for whom a game began to run, or lost its       *)
                (* session, after they read the process list                *)

aside == <<windows, escaped, unlisted>>
vars == <<pc, lease, report, games, launched, owed, aside>>

Init ==
    /\ pc = [s \in Sessions |-> "start"]
    /\ lease = None
    /\ report = [s \in Sessions |-> "absent"]
    /\ games \in SUBSET {Stray}
    /\ launched = [s \in Sessions |-> FALSE]
    /\ owed = [s \in Sessions |-> FALSE]
    /\ windows \in BOOLEAN
    /\ escaped = {} /\ unlisted = {}

Goto(s, label) == pc' = [pc EXCEPT ![s] = label]

\* What the gamepad may report after neutral(): a call that raises may have
\* written before it did.
AfterNeutral(s, ok) == IF ok THEN {"neutral"} ELSE {"neutral", report[s]}

-----------------------------------------------------------------------------
(* __enter__                                                               *)

\* On Windows the process list must show no game, and reading it may fail.
Check(s) ==
    /\ pc[s] = "start"
    /\ \/ (windows => games = {}) /\ Goto(s, "checked")
       \/ windows /\ Goto(s, "over")
    /\ unlisted' = unlisted \ {s}
    /\ UNCHANGED <<lease, report, games, launched, owed, windows, escaped>>

\* Mutant: the lock is not exclusive.
AcquireShared(s) ==
    /\ pc[s] = "checked"
    /\ lease' = s /\ Goto(s, "leased")
    /\ UNCHANGED <<report, games, launched, owed, aside>>

\* ControllerLease(), without blocking.
Acquire(s) ==
    /\ pc[s] = "checked"
    /\ IF lease = None THEN lease' = s /\ Goto(s, "leased")
                       ELSE lease' = lease /\ Goto(s, "over")
    /\ UNCHANGED <<report, games, launched, owed, aside>>

\* The device is created and reports a defined, neutral state.
Open(s) ==
    /\ pc[s] = "leased"
    /\ report' = [report EXCEPT ![s] = "neutral"]
    /\ Goto(s, "settling")
    /\ UNCHANGED <<lease, games, launched, owed, aside>>

\* No device, or one that did not take its first report: Linux closes it again,
\* on Windows the exception goes on holding it.
OpenFails(s) ==
    /\ pc[s] = "leased"
    /\ \/ UNCHANGED report
       \/ windows /\ report' = [report EXCEPT ![s] = "neutral"]
    /\ Goto(s, "freeing")
    /\ UNCHANGED <<lease, games, launched, owed, aside>>

Settle(s) ==
    /\ pc[s] = "settling"
    /\ Goto(s, "launching")
    /\ UNCHANGED <<lease, report, games, launched, owed, aside>>

\* Mutant: the lease is closed and the device is not.
SettleInterruptedFrees(s) ==
    /\ pc[s] = "settling"
    /\ Goto(s, "freeing")
    /\ UNCHANGED <<lease, report, games, launched, owed, aside>>

\* An interrupt of the sleep: the actuator is closed, then the lease.
SettleInterrupted(s) ==
    /\ pc[s] = "settling"
    /\ Goto(s, "unplugging")
    /\ UNCHANGED <<lease, report, games, launched, owed, aside>>

Launch(s) ==
    /\ pc[s] = "launching"
    /\ games' = games \cup {s}
    /\ launched' = [launched EXCEPT ![s] = TRUE]
    /\ Goto(s, "running")
    /\ UNCHANGED <<lease, report, owed, aside>>

\* Without a command, where the platform allows it.
LaunchNothing(s) ==
    /\ pc[s] = "launching" /\ ~windows
    /\ Goto(s, "running")
    /\ UNCHANGED <<lease, report, games, launched, owed, aside>>

LaunchFails(s) ==
    /\ pc[s] = "launching"
    /\ Goto(s, "closing")
    /\ UNCHANGED <<lease, report, games, launched, owed, aside>>

\* A game that runs without a session, or will soon, from now on: whoever has
\* read the process list before does not know of it.
Unnoticed(happens) == unlisted' = IF happens THEN Sessions ELSE unlisted

\* Ctrl+C inside Popen, or before child is assigned: the game runs, child is None.
LaunchInterrupted(s) ==
    /\ pc[s] = "launching"
    /\ games' = games \cup {s}
    /\ escaped' = escaped \cup {s} /\ Unnoticed(TRUE)
    /\ Goto(s, "closing")
    /\ UNCHANGED <<lease, report, launched, owed, windows>>

-----------------------------------------------------------------------------
(* The body of the session, and close.                                     *)

\* Any call of the actuator.
Play(s) ==
    /\ pc[s] = "running"
    /\ report' \in {[report EXCEPT ![s] = r] : r \in {"neutral", "held"}}
    /\ UNCHANGED <<pc, lease, games, launched, owed, aside>>

\* The body ends, or raises.
Leave(s) ==
    /\ pc[s] = "running"
    /\ Goto(s, "closing")
    /\ UNCHANGED <<lease, report, games, launched, owed, aside>>

\* Mutant: the error of the first release is not kept.
ReleaseForgets(s) ==
    /\ pc[s] = "closing"
    /\ \E ok \in BOOLEAN : \E r \in AfterNeutral(s, ok) : report' = [report EXCEPT ![s] = r]
    /\ Goto(s, "polling")
    /\ UNCHANGED <<lease, games, launched, owed, aside>>

\* The first neutral(); whatever it raises is kept.
Release(s) ==
    /\ pc[s] = "closing"
    /\ \E ok \in BOOLEAN :
          /\ \E r \in AfterNeutral(s, ok) : report' = [report EXCEPT ![s] = r]
          /\ owed' = [owed EXCEPT ![s] = ~ok]
    /\ Goto(s, "polling")
    /\ UNCHANGED <<lease, games, launched, aside>>

\* Mutant: the game is waited for only if the input was released.
PollReleased(s) ==
    /\ pc[s] = "polling"
    /\ Goto(s, IF launched[s] /\ s \in games /\ ~owed[s] THEN "waiting" ELSE "unplugging")
    /\ UNCHANGED <<lease, report, games, launched, owed, aside>>

PollChild(s) ==
    /\ pc[s] = "polling"
    /\ Goto(s, IF launched[s] /\ s \in games THEN "waiting" ELSE "unplugging")
    /\ UNCHANGED <<lease, report, games, launched, owed, aside>>

\* neutral() in the loop succeeds.
Retried(s) ==
    /\ pc[s] = "waiting" /\ owed[s]
    /\ report' = [report EXCEPT ![s] = "neutral"]
    /\ owed' = [owed EXCEPT ![s] = FALSE]
    /\ UNCHANGED <<pc, lease, games, launched, aside>>

\* It fails again, perhaps after it wrote.
RetryFails(s) ==
    /\ pc[s] = "waiting" /\ owed[s]
    /\ \E r \in AfterNeutral(s, FALSE) : report' = [report EXCEPT ![s] = r]
    /\ UNCHANGED <<pc, lease, games, launched, owed, aside>>

\* Mutant: the loop ends only when the input is released as well.
WaitOverReleased(s) ==
    /\ pc[s] = "waiting" /\ s \notin games /\ ~owed[s]
    /\ Goto(s, "unplugging")
    /\ UNCHANGED <<lease, report, games, launched, owed, aside>>

\* An interrupt inside the loop changes nothing: only the end of the game does.
WaitOver(s) ==
    /\ pc[s] = "waiting" /\ s \notin games
    /\ Goto(s, "unplugging")
    /\ UNCHANGED <<lease, report, games, launched, owed, aside>>

\* close of the actuator: a last neutral(), and in any case the device goes.  On
\* Windows it goes with its last reference, which an exception may hold that was
\* raised inside the gamepad: by the body, by the first neutral(), or by this one.
Unplug(s) ==
    /\ pc[s] = "unplugging"
    /\ \/ report' = [report EXCEPT ![s] = "absent"]
       \/ windows /\ \E r \in AfterNeutral(s, FALSE) : report' = [report EXCEPT ![s] = r]
    /\ Goto(s, "freeing")
    /\ UNCHANGED <<lease, games, launched, owed, aside>>

\* The lease is closed after the device was let go.
Free(s) ==
    /\ pc[s] = "freeing"
    /\ lease' = None
    /\ Goto(s, "ending")
    /\ UNCHANGED <<report, games, launched, owed, aside>>

\* The process ends, and with it what its exceptions held.
Exit(s) ==
    /\ pc[s] = "ending"
    /\ report' = [report EXCEPT ![s] = "absent"]
    /\ Goto(s, "over")
    /\ UNCHANGED <<lease, games, launched, owed, aside>>

-----------------------------------------------------------------------------
(* The world around the sessions.                                          *)

\* The end of a process: the system removes its device and frees its lock.
ProcessDies(s) ==
    /\ Goto(s, "over")
    /\ report' = [report EXCEPT ![s] = "absent"]
    /\ lease' = IF lease = s THEN None ELSE lease
    /\ UNCHANGED <<launched, owed, windows>>

Orphaned(s) == IF s \in games THEN (games \ {s}) \cup {Stray} ELSE games

Kill(s) ==
    /\ pc[s] \notin {"start", "over"}
    /\ ProcessDies(s)
    /\ games' = Orphaned(s)
    /\ Unnoticed(s \in games)
    /\ UNCHANGED escaped

\* Ctrl+C in close where no handler is around: before the first neutral(), while
\* the child is polled or the wait announced, and inside the handler of the
\* Ctrl+C before it.  The process ends and takes the gamepad with it.
Escape(s) ==
    /\ pc[s] \in {"closing", "polling", "waiting"}
    /\ ProcessDies(s)
    /\ escaped' = escaped \cup {s}
    /\ Unnoticed(s \in games)
    /\ UNCHANGED games

\* A person starts another process.
Again(s) ==
    /\ pc[s] = "over"
    /\ Goto(s, "start")
    /\ games' = Orphaned(s)
    /\ launched' = [launched EXCEPT ![s] = FALSE]
    /\ owed' = [owed EXCEPT ![s] = FALSE]
    /\ escaped' = escaped \ {s}
    /\ UNCHANGED <<lease, report, windows, unlisted>>

\* A person closes a game, normally.
GameEnds ==
    /\ \E g \in games : games' = games \ {g}
    /\ UNCHANGED <<pc, lease, report, launched, owed, aside>>

\* A person starts the game by hand.
GameStarts ==
    /\ games' = games \cup {Stray}
    /\ Unnoticed(TRUE)
    /\ UNCHANGED <<pc, lease, report, launched, owed, windows, escaped>>

Enter(s) ==
    \/ Check(s) \/ Acquire(s) \/ Open(s) \/ OpenFails(s)
    \/ Settle(s) \/ SettleInterrupted(s)
    \/ Launch(s) \/ LaunchNothing(s) \/ LaunchFails(s) \/ LaunchInterrupted(s)

Close(s) ==
    \/ Release(s) \/ PollChild(s) \/ Retried(s) \/ RetryFails(s)
    \/ WaitOver(s) \/ Unplug(s) \/ Free(s) \/ Exit(s)

Step(s) == Enter(s) \/ Play(s) \/ Leave(s) \/ Close(s)

Next ==
    \/ \E s \in Sessions : Step(s) \/ Again(s) \/ Kill(s) \/ Escape(s)
    \/ GameEnds
    \/ GameStarts

Spec == Init /\ [][Next]_vars

\* Each process goes on, unless it is killed; nothing makes a person close a game
\* or the device work.
FairSpec ==
    /\ Spec
    /\ \A s \in Sessions :
          /\ WF_vars(Release(s) \/ PollChild(s) \/ Unplug(s) \/ Free(s) \/ Exit(s))
          /\ WF_vars(WaitOver(s))

-----------------------------------------------------------------------------

Labels == {"start", "checked", "leased", "settling", "launching", "running", "closing",
           "polling", "waiting", "unplugging", "freeing", "ending", "over"}
Reports == {"absent", "neutral", "held"}

TypeOK ==
    /\ pc \in [Sessions -> Labels]
    /\ lease \in Sessions \cup {None}
    /\ report \in [Sessions -> Reports]
    /\ games \subseteq Sessions \cup {Stray}
    /\ launched \in [Sessions -> BOOLEAN]
    /\ owed \in [Sessions -> BOOLEAN]
    /\ windows \in BOOLEAN
    /\ escaped \subseteq Sessions
    /\ unlisted \subseteq Sessions

\* "One virtual controller owner per user": whatever is killed, interrupted or
\* fails while opening or closing, two gamepads never exist at a time -- but for
\* one on Windows whose process has freed the lock and is ending with an
\* exception that still holds it.
OnePad ==
    \A s, t \in Sessions :
        report[s] # "absent" /\ report[t] # "absent" =>
            s = t \/ (windows /\ \E u \in {s, t} : pc[u] = "ending")

\* "Stop automation without unplugging the controller from a running game": as
\* long as the game a session launched runs, its gamepad is connected, through
\* failed releases, retries and the interrupts the wait handles; only an
\* interrupt that no handler is around disconnects it.
PadOutlivesGame ==
    \A s \in games \cap Sessions : report[s] # "absent" \/ s \in escaped

\* "Attaching another pad can select player two": on Windows a gamepad appears
\* beside a running game only if that game was started by hand, or lost its
\* session, after the process list was read: the list is read before the lock is
\* taken, and no game of a competing session gets in between.
NoPadJoinsAGame ==
    [][\A s \in Sessions :
          windows /\ report[s] = "absent" /\ report'[s] # "absent" =>
              games = {} \/ s \in unlisted]_vars

\* A held button does not outlast the automation while the game goes on, if the
\* device recovers: the wait retries the release.
InputIsReleased ==
    \A s \in Sessions :
        SF_vars(Retried(s)) => (pc[s] = "waiting" ~> (report[s] = "neutral" \/ pc[s] # "waiting"))

\* A session that is closing comes to its end and frees the controller for the
\* next, unless its game runs for ever; also on a device that never recovers.
ControllerComesFree ==
    \A s \in Sessions : pc[s] = "closing" ~> (pc[s] = "over" \/ [](s \in games))

-----------------------------------------------------------------------------
(* What the recovery guide says of the session and the code does not do.   *)

\* docs/CONTROLLER_RECOVERY.md: "Repeated Ctrl+C while waiting leaves the
\* controller connected."  A Ctrl+C inside the handler of the one before does not.
PadStaysConnected ==
    [][\A s \in Sessions : pc[s] = "waiting" /\ s \in games' => report'[s] # "absent"]_vars
=============================================================================
