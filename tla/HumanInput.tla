----------------------------- MODULE HumanInput -----------------------------
(***************************************************************************)
(* How a recorder reads what a person holds (control/human_input.py and    *)
(* control/keyboard_input.py).  A source is one of                         *)
(*                                                                         *)
(*   evdev   the Linux gamepad: the kernel queues the changes, and a poll  *)
(*           drains the queue into a copy of the controls;                 *)
(*   inputs  the Windows gamepad: read() blocks, so a thread folds the     *)
(*           changes into the raw state that a poll snapshots;             *)
(*   x11     the keyboard: a poll asks for the keys that are down, between *)
(*           two looks at which window has the focus;                      *)
(*   scripted  a sequence of actions, for tests and synthetic recordings.  *)
(*                                                                         *)
(* A person moves the controls, the gamepad is unplugged and the focus     *)
(* changes at any time.  Deflections are counted in quarters.              *)
(***************************************************************************)
EXTENDS ActionSpace, Sequences

CONSTANTS
    Backends,       \* the sources that are considered
    Positions,      \* control -> the positions a person puts it in
    MaxQueue,       \* events the kernel keeps for a reader
    Script,         \* the actions of the scripted source
    None

Axes == {"ABS_X", "ABS_Y", "ABS_HAT0X", "ABS_HAT0Y"}
Flag == [BTN_SOUTH |-> "jump", BTN_WEST |-> "shoot", BTN_EAST |-> "dash", BTN_TR |-> "lock"]
DPad == {"BTN_DPAD_LEFT", "BTN_DPAD_RIGHT", "BTN_DPAD_UP", "BTN_DPAD_DOWN"}
Arrows == {"Left", "Right", "Up", "Down"}
Letters == [jump |-> "z", shoot |-> "x", dash |-> "Shift_L", lock |-> "c"]
Controls == Axes \cup DOMAIN Flag \cup DPad \cup Arrows \cup {Letters[f] : f \in DOMAIN Letters}

Moved == DOMAIN Positions

\* One position of a control that is not at rest.
Pushed(c) == CHOOSE v \in Positions[c] : v # 0

\* The controls of a source's device; the D-pad of an evdev gamepad is a hat.
Own(b) ==
    Moved \cap CASE b = "evdev"  -> Axes \cup DOMAIN Flag
                [] b = "inputs" -> Axes \cup DOMAIN Flag \cup DPad
                [] b = "scripted" -> {}
                [] OTHER        -> Arrows \cup {Letters[f] : f \in DOMAIN Letters}

ASSUME InputAssumption ==
    /\ Backends \subseteq {"evdev", "inputs", "x11", "scripted"}
    /\ Script \in Seq(EnumerateActions) /\ Script # <<>>
    /\ Moved \subseteq Controls
    /\ \A c \in Moved : 0 \in Positions[c] /\ Positions[c] \subseteq Deflections /\ Positions[c] # {0}
    /\ MaxQueue \in Nat /\ MaxQueue > 1

VARIABLES
    backend,    \* the source that was opened
    held,       \* where each control really is
    plugged,    \* the gamepad is connected
    focused,    \* the game's window has the keyboard focus
    queue,      \* evdev: changes the source has not read
    played,     \* scripted: how many actions of the script were returned
    physical,   \* evdev: _physical, the source's copy of the controls
    batch,      \* inputs: controls whose change the thread has still to apply
    seen,       \* inputs: the positions read() last reported
    raw,        \* inputs: _raw
    reader,     \* inputs: the thread is "reading", "failed" (_error) or "gone"
    closed,     \* _closed
    pc,         \* how far the poll is
    sample,     \* x11: the keys the poll found down
    answer,     \* what the poll returned, None while it runs
    untold,     \* history, inputs: controls that no read() has reported yet
    away,       \* history: 0 nothing, 1 the focus was lost, 2 and came back, in this poll
    stray,      \* history: the sample was taken while another window had the focus
    late        \* history: polls answered after the thread had failed, up to 2

person == <<held, plugged, focused>>
\* What the sources that do not drain a queue keep.
thread == <<batch, seen, raw, reader, played>>
history == <<untold, away, stray, late>>
vars == <<backend, person, queue, physical, thread, closed, pc, sample, answer, history>>

-----------------------------------------------------------------------------
(* From the controls to an action.                                         *)

At(positions, c) == IF c \in DOMAIN positions THEN positions[c] ELSE 0
Down(positions, c) == At(positions, c) # 0

Span(lo, hi) == IF hi = lo THEN 1 ELSE hi - lo

\* _normalize_axis, in quarters: [lo, hi] onto [-4, 4].
NormalizeAxis(value, lo, hi) == (4 * (2 * (value - lo) - Span(lo, hi))) \div Span(lo, hi)

\* What the devices report for a position.  A hat is positive down on both; the
\* evdev stick is positive down too, in a range of its own, and the XInput
\* stick is positive up in a range with one value more below zero.
EvdevMin == 0
EvdevMax == 8
XInputMin == -4
XInputMax == 3
Reported(b, c, v) ==
    CASE c = "ABS_X" -> IF b = "evdev" THEN 4 + v ELSE IF v > XInputMax THEN XInputMax ELSE v
      [] c = "ABS_Y" -> IF b = "evdev" THEN 4 - v ELSE IF v > XInputMax THEN XInputMax ELSE v
      [] c = "ABS_HAT0X" -> IF v > 0 THEN 1 ELSE IF v < 0 THEN -1 ELSE 0
      [] c = "ABS_HAT0Y" -> IF v > 0 THEN -1 ELSE IF v < 0 THEN 1 ELSE 0
      [] OTHER -> IF v # 0 THEN 1 ELSE 0

Wire(b, positions) == [c \in Moved |-> Reported(b, c, positions[c])]

BlankRawState == [x |-> 0, y |-> 0, jump |-> FALSE, duck |-> FALSE, dash |-> FALSE,
                  shoot |-> FALSE, lock |-> FALSE]

\* The evdev poll: the D-pad overrides the stick, and down is a duck.
EvdevRaw(values) ==
    LET stickX == IF "ABS_X" \in Moved THEN NormalizeAxis(values["ABS_X"], EvdevMin, EvdevMax) ELSE 0
        stickY == IF "ABS_Y" \in Moved THEN -NormalizeAxis(values["ABS_Y"], EvdevMin, EvdevMax) ELSE 0
        hatX == At(values, "ABS_HAT0X")
        hatY == At(values, "ABS_HAT0Y")
        y == IF hatY # 0 THEN -4 * hatY ELSE stickY
    IN  [x |-> IF hatX # 0 THEN 4 * hatX ELSE stickX, y |-> y, duck |-> y < -1,
         jump |-> Down(values, "BTN_SOUTH"), shoot |-> Down(values, "BTN_WEST"),
         dash |-> Down(values, "BTN_EAST"), lock |-> Down(values, "BTN_TR")]

\* Mutant: the hat of the Windows gamepad is taken to be positive up.
ApplyHatUp(state, code, value) ==
    CASE code = "ABS_X"     -> [state EXCEPT !.x = NormalizeAxis(value, XInputMin, XInputMax)]
      [] code = "ABS_Y"     -> [state EXCEPT !.y = NormalizeAxis(value, XInputMin, XInputMax)]
      [] code = "ABS_HAT0Y" -> [state EXCEPT !.y = 4 * value]
      [] code \in DOMAIN Flag -> [state EXCEPT ![Flag[code]] = value # 0]
      [] OTHER -> state

\* _InputsInputSource._apply: one event folded into the raw state.
Apply(state, code, value) ==
    CASE code = "ABS_X"     -> [state EXCEPT !.x = NormalizeAxis(value, XInputMin, XInputMax)]
      [] code = "ABS_Y"     -> [state EXCEPT !.y = NormalizeAxis(value, XInputMin, XInputMax)]
      [] code = "ABS_HAT0X" -> [state EXCEPT !.x = 4 * value]
      [] code = "ABS_HAT0Y" -> [state EXCEPT !.y = -4 * value]
      [] code \in DOMAIN Flag -> [state EXCEPT ![Flag[code]] = value # 0]
      [] code = "BTN_DPAD_LEFT"  -> [state EXCEPT !.x = -4 * value]
      [] code = "BTN_DPAD_RIGHT" -> [state EXCEPT !.x = 4 * value]
      [] code = "BTN_DPAD_UP"    -> [state EXCEPT !.y = 4 * value]
      [] code = "BTN_DPAD_DOWN"  -> [state EXCEPT !.y = -4 * value]
      [] OTHER -> state

\* keyboard_action: opposite arrows cancel.
KeyboardRaw(keys) ==
    LET key(c) == Reported("x11", c, At(keys, c))
        y == 4 * (key("Up") - key("Down"))
    IN  [x |-> 4 * (key("Right") - key("Left")), y |-> y, duck |-> y < 0,
         jump |-> Down(keys, Letters.jump), shoot |-> Down(keys, Letters.shoot),
         dash |-> Down(keys, Letters.dash), lock |-> Down(keys, Letters.lock)]

-----------------------------------------------------------------------------
(* The person, the kernel and the window system.                           *)

Dropped == [code |-> "SYN_DROPPED", value |-> 0]

\* A full queue is replaced by the news that events were lost and the last one.
Enqueue(c) ==
    LET event == [code |-> c, value |-> Wire(backend, held')[c]]
    IN  IF Len(queue) < MaxQueue THEN Append(queue, event) ELSE <<Dropped, event>>

Move(c) ==
    /\ \E v \in Positions[c] \ {held[c]} : held' = [held EXCEPT ![c] = v]
    /\ queue' = IF backend = "evdev" /\ plugged THEN Enqueue(c) ELSE queue
    /\ UNCHANGED <<backend, plugged, focused, physical, thread, closed, pc, sample, answer, history>>

Unplug ==
    /\ plugged /\ plugged' = FALSE
    /\ UNCHANGED <<backend, held, focused, queue, physical, thread, closed, pc, sample, answer,
                   history>>

SwitchWindow ==
    /\ backend = "x11"
    /\ focused' = ~focused
    /\ away' = IF pc = "idle" THEN 0 ELSE IF focused THEN 1 ELSE 2
    /\ UNCHANGED <<backend, held, plugged, queue, physical, thread, closed, pc, sample, answer,
                   untold, stray, late>>

-----------------------------------------------------------------------------
(* Opening.  evdev reads the keys that are down and then the axes, from a  *)
(* device that already queues events; the inputs source starts blank.      *)

AtRest == [c \in Moved |-> 0]

Init ==
    /\ backend \in Backends
    /\ \E already \in SUBSET Own(backend) :
            held = [c \in Moved |-> IF c \in already THEN Pushed(c) ELSE 0]
    /\ plugged = TRUE /\ focused = TRUE
    /\ queue = <<>> /\ physical = AtRest
    /\ batch = {} /\ seen = (IF backend = "inputs" THEN held ELSE AtRest) /\ raw = BlankRawState /\ reader = "reading"
    /\ played = 0
    /\ closed = FALSE
    /\ pc = IF backend = "evdev" THEN "keys" ELSE "idle"
    /\ sample = AtRest /\ answer = None
    /\ untold = Moved /\ away = 0 /\ stray = FALSE /\ late = 0

ReadInitial(which, from, to) ==
    /\ backend = "evdev" /\ pc = from
    /\ physical' = [c \in Moved |-> IF c \in which THEN Wire("evdev", held)[c] ELSE physical[c]]
    /\ pc' = to
    /\ UNCHANGED <<backend, person, queue, thread, closed, sample, answer, history>>

ActiveKeys == plugged /\ ReadInitial(Moved \ Axes, "keys", "axes")
AxisValues == plugged /\ ReadInitial(Moved \cap Axes, "axes", "idle")

\* The device is gone before the source is open; nothing is recorded.
OpenFails ==
    /\ pc \in {"keys", "axes"} /\ ~plugged
    /\ pc' = "over"
    /\ UNCHANGED <<backend, person, queue, physical, thread, closed, sample, answer, history>>

-----------------------------------------------------------------------------
(* Polls.  One that raises ends the recording, which closes the source.    *)

Goto(label) == pc' = label /\ UNCHANGED <<backend, person, closed>>

Raises == Goto("failed") /\ UNCHANGED <<queue, physical, thread, sample, answer, history>>

Returns(state) ==
    /\ Goto("idle")
    /\ answer' = FromRaw(state)

\* Mutant: a poll does not ask how the thread is.
BeginPollUnasked ==
    /\ pc = "idle" /\ ~closed
    /\ answer' = None
    /\ away' = 0 /\ stray' = FALSE
    /\ \/ backend = "evdev" /\ Goto("draining")
       \/ backend = "inputs" /\ Goto("checked")
       \/ backend = "x11" /\ focused /\ Goto("focused")
    /\ UNCHANGED <<queue, physical, thread, sample, untold, late>>

BeginPoll ==
    /\ pc = "idle" /\ ~closed
    /\ answer' = None
    /\ away' = 0 /\ stray' = FALSE
    /\ \/ backend = "evdev" /\ Goto("draining")
       \/ backend = "inputs" /\ reader # "failed" /\ Goto("checked")
       \/ backend = "x11" /\ focused /\ Goto("focused")
    /\ UNCHANGED <<queue, physical, thread, sample, untold, late>>

PollRefused ==
    /\ pc = "idle" /\ ~closed
    /\ \/ backend = "inputs" /\ reader = "failed"
       \/ backend = "x11" /\ ~focused
       \/ backend = "scripted" /\ played = Len(Script)
    /\ Raises

\* scripted: the next action; what follows the last one is PollRefused.
NextOfScript ==
    /\ backend = "scripted" /\ pc = "idle" /\ ~closed /\ played < Len(Script)
    /\ Goto("idle")
    /\ answer' = Script[played + 1] /\ played' = played + 1
    /\ UNCHANGED <<queue, physical, batch, seen, raw, reader, sample, history>>

\* evdev: one read_one() that returned an event.
ReadEvent(event) ==
    /\ physical' = [physical EXCEPT ![event.code] = event.value]
    /\ queue' = Tail(queue)
    /\ UNCHANGED <<backend, person, thread, closed, pc, sample, answer, history>>

\* Mutant: the news that events were lost is read like a SYN_REPORT.
ReadOneUnaware ==
    /\ pc = "draining" /\ plugged /\ queue # <<>>
    /\ IF Head(queue) = Dropped
       THEN /\ queue' = Tail(queue)
            /\ UNCHANGED <<backend, person, physical, thread, closed, pc, sample, answer, history>>
       ELSE ReadEvent(Head(queue))

ReadOne ==
    /\ pc = "draining" /\ plugged /\ queue # <<>>
    /\ Head(queue) # Dropped
    /\ ReadEvent(Head(queue))

ReadFails ==
    /\ pc = "draining"
    /\ ~plugged \/ (queue # <<>> /\ Head(queue) = Dropped)
    /\ Raises

\* evdev: read_one() found nothing more, and the copy is decoded.
Drained ==
    /\ pc = "draining" /\ plugged /\ queue = <<>>
    /\ Returns(EvdevRaw(physical))
    /\ UNCHANGED <<queue, physical, thread, sample, history>>

\* inputs: the raw state is copied under the lock.
Snapshot ==
    /\ pc = "checked"
    /\ Returns(raw)
    /\ late' = IF reader = "failed" /\ late < 2 THEN late + 1 ELSE late
    /\ UNCHANGED <<queue, physical, thread, sample, untold, away, stray>>

QueryKeymap ==
    /\ pc = "focused"
    /\ sample' = held /\ stray' = ~focused
    /\ Goto("queried")
    /\ UNCHANGED <<queue, physical, thread, answer, untold, away, late>>

\* Mutant: the focus is looked at once, before the keys.
FocusKeptUnseen ==
    /\ pc = "queried"
    /\ Returns(KeyboardRaw(sample))
    /\ UNCHANGED <<queue, physical, thread, sample, history>>

FocusKept ==
    /\ pc = "queried" /\ focused
    /\ Returns(KeyboardRaw(sample))
    /\ UNCHANGED <<queue, physical, thread, sample, history>>

FocusLost ==
    /\ pc = "queried" /\ ~focused
    /\ Raises

\* The recorder is through with the source, or a poll raised.
Close ==
    /\ pc \in {"idle", "failed"} /\ ~closed
    /\ closed' = TRUE /\ pc' = "over"
    /\ UNCHANGED <<backend, person, queue, physical, thread, sample, answer, history>>

-----------------------------------------------------------------------------
(* The thread of the inputs source.                                        *)

\* read() returns what has changed since the last one.
ReaderReads ==
    /\ backend = "inputs" /\ reader = "reading" /\ batch = {} /\ ~closed
    /\ plugged /\ held # seen
    /\ batch' = {c \in Moved : held[c] # seen[c]}
    /\ seen' = held /\ untold' = untold \ batch'
    /\ UNCHANGED <<backend, person, queue, physical, raw, reader, played, closed, pc, sample, answer,
                   away, stray, late>>

ReaderApplies ==
    /\ backend = "inputs" /\ reader = "reading"
    /\ \E c \in batch : /\ raw' = Apply(raw, c, Wire("inputs", seen)[c])
                        /\ batch' = batch \ {c}
    /\ UNCHANGED <<backend, person, queue, physical, seen, reader, played, closed, pc, sample, answer, history>>

\* read() raised: an error, unless the source was closed meanwhile.
ReaderEnds ==
    /\ backend = "inputs" /\ reader = "reading" /\ batch = {}
    /\ ~plugged \/ closed
    /\ reader' = IF closed THEN "gone" ELSE "failed"
    /\ UNCHANGED <<backend, person, queue, physical, batch, seen, raw, played, closed, pc, sample, answer, history>>

Poll ==
    \/ ActiveKeys \/ AxisValues \/ OpenFails
    \/ BeginPoll \/ PollRefused \/ Close
    \/ ReadOne \/ ReadFails \/ Drained
    \/ Snapshot \/ NextOfScript
    \/ QueryKeymap \/ FocusKept \/ FocusLost

Next ==
    \/ Poll
    \/ ReaderReads \/ ReaderApplies \/ ReaderEnds
    \/ \E c \in Own(backend) : Move(c)
    \/ Unplug \/ SwitchWindow

Spec == Init /\ [][Next]_vars

-----------------------------------------------------------------------------
\* A poll returns one of the 56 legal actions.
InputTypeOK ==
    /\ backend \in Backends
    /\ \A c \in Moved : held[c] \in Positions[c] /\ seen[c] \in Positions[c] /\ sample[c] \in Positions[c]
    /\ plugged \in BOOLEAN /\ focused \in BOOLEAN /\ closed \in BOOLEAN
    /\ Len(queue) <= MaxQueue
    /\ batch \subseteq Own(backend) /\ untold \subseteq Moved
    /\ raw \in RawStates
    /\ reader \in {"reading", "failed", "gone"}
    /\ played \in 0..Len(Script)
    /\ pc \in {"keys", "axes", "idle", "draining", "checked", "focused", "queried", "failed", "over"}
    /\ answer \in EnumerateActions \cup {None}

\* What an evdev poll returns is what the person holds when it finds the queue
\* empty: no event that came while it was opened or drained is lost, and none
\* that the kernel lost goes unnoticed.
PollIsCurrent ==
    [][pc = "draining" /\ pc' = "idle" => answer' = FromRaw(EvdevRaw(Wire("evdev", held)))]_vars

\* The controls of each axis of the raw state.
Sideward == {"ABS_X", "ABS_HAT0X", "BTN_DPAD_LEFT", "BTN_DPAD_RIGHT"}
Upward == {"ABS_Y", "ABS_HAT0Y", "BTN_DPAD_UP", "BTN_DPAD_DOWN"}

\* How far a control in that position pulls its axis: a hat and a D-pad all the
\* way, and so does the stick at the last of its positions above zero.
Pull(c, v) ==
    CASE c \in {"ABS_X", "ABS_Y"} -> IF v >= XInputMax THEN 4 ELSE v
      [] c \in {"ABS_HAT0X", "ABS_HAT0Y"} -> IF v > 0 THEN 4 ELSE IF v < 0 THEN -4 ELSE 0
      [] c \in {"BTN_DPAD_LEFT", "BTN_DPAD_DOWN"} -> IF v # 0 THEN -4 ELSE 0
      [] OTHER -> IF v # 0 THEN 4 ELSE 0

\* When the thread has caught up, the raw state has every button that it was ever
\* told of as it is, and a stick that only one control has moved where that is.
ThreadKeepsUp ==
    backend = "inputs" /\ batch = {} /\ seen = held =>
        LET told == Own("inputs") \ untold
        IN  /\ \A c \in told \cap DOMAIN Flag : raw[Flag[c]] = Down(held, c)
            /\ \A c \in told \cap Sideward : told \cap Sideward = {c} => raw.x = Pull(c, held[c])
            /\ \A c \in told \cap Upward : told \cap Upward = {c} => raw.y = Pull(c, held[c])

\* Once the thread has failed, at most the poll that was under way answers.
DeadReaderIsNoticed == late <= 1

\* Keys that were read while another window had the focus are answered only if
\* the focus came back before the second look.
LostFocusIsNoticed ==
    [][pc = "queried" /\ pc' = "idle" /\ stray => away = 2]_vars

-----------------------------------------------------------------------------
(* What the comments say of the sources and the code does not do.          *)

\* _blank_raw_state: "the two backends must produce demonstrations that are
\* interchangeable".  So once the thread has caught up, its raw state is the
\* action that the evdev source would have returned; controls that are held
\* from before the opening and D-pads that report buttons are left aside.
PlatformsAgree ==
    backend = "inputs" /\ batch = {} /\ seen = held
    /\ (\A c \in untold : held[c] = 0) /\ DPad \cap Moved \subseteq untold =>
        FromRaw(raw) = FromRaw(EvdevRaw(Wire("evdev", held)))
=============================================================================
