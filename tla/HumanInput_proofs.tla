-------------------------- MODULE HumanInput_proofs --------------------------
(***************************************************************************)
(* What the input sources promise, for every set of controls, positions,   *)
(* length of the kernel's queue and script: an answer is a legal action, a *)
(* poll of the evdev source is current, the thread of the Windows source   *)
(* keeps up with what it was told, a dead reader is noticed, and keys of   *)
(* another window are answered only after the focus came back.  First,     *)
(* what the action space they decode into promises its callers.            *)
(***************************************************************************)
EXTENDS HumanInput, TLAPS

-----------------------------------------------------------------------------
(* The action space.                                                       *)

RawLike == [x : Int, y : Int, jump : BOOLEAN, duck : BOOLEAN, dash : BOOLEAN, shoot : BOOLEAN,
            lock : BOOLEAN]

LEMMA NearestAimIsAim ==
    ASSUME NEW x \in Int, NEW y \in Int
    PROVE  NearestAim8(x, y) \in AIM8
BY DEF NearestAim8, AIM8, Abs

\* Action.from_raw returns a legal action whatever a device holds.
THEOREM FromRawIsLegal ==
    ASSUME NEW state \in RawLike
    PROVE  FromRaw(state) \in EnumerateActions
<1> DEFINE vert == IF state.duck THEN (IF state.dash THEN "none" ELSE "duck")
                   ELSE IF state.jump THEN "jump" ELSE "none"
           shoot == state.shoot /\ ~state.dash
           lock == state.lock /\ vert # "duck" /\ (shoot \/ state.dash)
           aim == IF lock THEN NearestAim8(state.x, state.y) ELSE "e"
           move == IF lock THEN "none" ELSE Sideways(state.x)
<1>1. /\ state.x \in Int /\ state.y \in Int
      /\ state.jump \in BOOLEAN /\ state.duck \in BOOLEAN /\ state.dash \in BOOLEAN
      /\ state.shoot \in BOOLEAN /\ state.lock \in BOOLEAN
  BY DEF RawLike
<1>2. NearestAim8(state.x, state.y) \in AIM8
  BY <1>1, NearestAimIsAim
<1>3. aim \in AIM8 /\ (~lock => aim = "e")
  BY <1>2 DEF AIM8
<1>4. move \in MOVE /\ (lock => move = "none")
  BY DEF MOVE, Sideways
<1>5. vert \in VERT /\ ~(state.dash /\ vert = "duck")
  BY <1>1 DEF VERT
<1>6. shoot \in BOOLEAN /\ lock \in BOOLEAN /\ ~(state.dash /\ shoot)
      /\ (lock => vert # "duck" /\ (shoot \/ state.dash))
  BY <1>1
<1>7. FromRaw(state) = [move |-> move, vert |-> vert, dash |-> state.dash, shoot |-> shoot,
                        lock |-> lock, aim |-> aim]
  BY DEF FromRaw
<1> HIDE DEF vert, shoot, lock, aim, move
<1>8. FromRaw(state) \in Actions
  BY <1>1, <1>3, <1>4, <1>5, <1>6, <1>7 DEF Actions
<1>9. IsLegal(FromRaw(state))
  BY <1>1, <1>3, <1>4, <1>5, <1>6, <1>7 DEF IsLegal
<1> QED
  BY <1>8, <1>9 DEF EnumerateActions

\* ReflexOverride.merge: "The result is always a legal action, which the
\* planner's executor relies on", and it moves where the planner wanted to.
THEOREM MergeIsLegal ==
    ASSUME NEW planned \in EnumerateActions, NEW kind \in {"parry", "dash"}
    PROVE  /\ Merge(kind, planned) \in EnumerateActions
           /\ Merge(kind, planned).move = planned.move
<1>1. planned.move \in MOVE /\ planned.shoot \in BOOLEAN
  BY DEF EnumerateActions, Actions
<1>2. CASE kind = "parry"
  <2>1. Merge(kind, planned) = [move |-> planned.move, vert |-> "jump", dash |-> FALSE,
                                shoot |-> planned.shoot, lock |-> FALSE, aim |-> "e"]
    BY <1>2 DEF Merge
  <2>2. Merge(kind, planned) \in Actions
    BY <1>1, <2>1 DEF Actions, VERT, AIM8
  <2>3. IsLegal(Merge(kind, planned))
    BY <2>1 DEF IsLegal
  <2> QED
    BY <2>1, <2>2, <2>3 DEF EnumerateActions
<1>3. CASE kind = "dash"
  <2>1. Merge(kind, planned) = [move |-> planned.move, vert |-> "none", dash |-> TRUE,
                                shoot |-> FALSE, lock |-> FALSE, aim |-> "e"]
    BY <1>3 DEF Merge
  <2>2. Merge(kind, planned) \in Actions
    BY <1>1, <2>1 DEF Actions, VERT, AIM8
  <2>3. IsLegal(Merge(kind, planned))
    BY <2>1 DEF IsLegal
  <2> QED
    BY <2>1, <2>2, <2>3 DEF EnumerateActions
<1> QED
  BY <1>2, <1>3

LEMMA AimVectorIsInjective ==
    ASSUME NEW a \in AIM8, NEW b \in AIM8, AimVector(a) = AimVector(b)
    PROVE  a = b
<1>1. AimVector(a).x = AimVector(b).x /\ AimVector(a).y = AimVector(b).y
  OBVIOUS
<1> QED
  BY <1>1 DEF AimVector, AIM8

\* Action.to_buttons, which is what a replay stores, loses nothing: two legal
\* actions have the same buttons only if they are the same.
THEOREM ButtonsTellActionsApart ==
    ASSUME NEW a \in EnumerateActions, NEW b \in EnumerateActions, ToButtons(a) = ToButtons(b)
    PROVE  a = b
<1> DEFINE dx(m) == CASE m = "left" -> -1 [] m = "right" -> 1 [] OTHER -> 0
           dy(v) == IF v = "duck" THEN -1 ELSE 0
           stick(c) == IF c.lock THEN AimVector(c.aim) ELSE [x |-> dx(c.move), y |-> dy(c.vert)]
<1>1. /\ a \in Actions /\ IsLegal(a)
      /\ b \in Actions /\ IsLegal(b)
  BY DEF EnumerateActions
<1>2. \A c : ToButtons(c) = [stick |-> stick(c), a |-> c.vert = "jump", x |-> c.shoot,
                             b |-> c.dash, rt |-> c.lock]
  BY DEF ToButtons
<1>3. /\ stick(a) = stick(b)
      /\ (a.vert = "jump") = (b.vert = "jump")
      /\ a.shoot = b.shoot /\ a.dash = b.dash /\ a.lock = b.lock
  <2> HIDE DEF stick
  <2>1. [stick |-> stick(a), a |-> a.vert = "jump", x |-> a.shoot, b |-> a.dash, rt |-> a.lock]
        = [stick |-> stick(b), a |-> b.vert = "jump", x |-> b.shoot, b |-> b.dash, rt |-> b.lock]
    BY <1>2
  <2> QED
    BY <2>1
<1>4. /\ a.move \in MOVE /\ a.vert \in VERT /\ a.aim \in AIM8 /\ a.lock \in BOOLEAN
      /\ b.move \in MOVE /\ b.vert \in VERT /\ b.aim \in AIM8 /\ b.lock \in BOOLEAN
  BY <1>1 DEF Actions
<1>5. a.move = b.move /\ a.vert = b.vert /\ a.aim = b.aim
  <2>1. CASE a.lock
    <3>1. a.move = "none" /\ b.move = "none" /\ a.vert # "duck" /\ b.vert # "duck"
      BY <1>1, <1>3, <2>1 DEF IsLegal
    <3>2. AimVector(a.aim) = AimVector(b.aim)
      BY <1>3, <2>1
    <3>3. a.aim = b.aim
      BY <1>4, <3>2, AimVectorIsInjective
    <3> QED
      BY <1>3, <1>4, <3>1, <3>3 DEF VERT
  <2>2. CASE ~a.lock
    <3>1. a.aim = "e" /\ b.aim = "e"
      BY <1>1, <1>3, <2>2 DEF IsLegal
    <3>2. [x |-> dx(a.move), y |-> dy(a.vert)] = [x |-> dx(b.move), y |-> dy(b.vert)]
      BY <1>3, <2>2
    <3>3. dx(a.move) = dx(b.move) /\ dy(a.vert) = dy(b.vert)
      BY <3>2
    <3>4. a.move = b.move
      BY <1>4, <3>3 DEF MOVE
    <3> QED
      BY <1>3, <1>4, <3>1, <3>3, <3>4 DEF VERT
  <2> QED
    BY <1>4, <2>1, <2>2
<1> QED
  BY <1>1, <1>3, <1>5 DEF Actions

-----------------------------------------------------------------------------
(* Types.  An answer is legal because every source decodes with FromRaw;   *)
(* what the thread has folded stays within the range of a stick, because   *)
(* what it is told of does.                                                *)

Labels == {"keys", "axes", "idle", "draining", "checked", "focused", "queried", "failed", "over"}

AsPlaced(h) == h \in [Moved -> Deflections] /\ \A c \in Moved : h[c] \in Positions[c]

\* What a device queues names a control and says an integer.
Event == [code : Moved, value : Int]

TypeInv ==
    /\ backend \in Backends
    /\ AsPlaced(held) /\ AsPlaced(seen) /\ AsPlaced(sample)
    /\ \A c \in Moved \ Own(backend) : held[c] = seen[c]
    /\ physical \in [Moved -> Int]
    /\ plugged \in BOOLEAN /\ focused \in BOOLEAN /\ closed \in BOOLEAN
    /\ queue \in Seq(Event \cup {Dropped}) /\ Len(queue) <= MaxQueue
    /\ batch \subseteq Own(backend) /\ untold \subseteq Moved
    /\ raw \in RawStates
    /\ reader \in {"reading", "failed", "gone"}
    /\ played \in 0..Len(Script)
    /\ pc \in Labels
    /\ answer \in EnumerateActions \cup {None}

LEMMA OwnIsMoved == \A b : Own(b) \subseteq Moved
BY DEF Own

LEMMA ReportedIsInt ==
    ASSUME NEW b, NEW c, NEW v \in Deflections
    PROVE  Reported(b, c, v) \in Int
BY DEF Reported, Deflections, XInputMax

LEMMA WireIsInt ==
    ASSUME NEW b, NEW h, AsPlaced(h)
    PROVE  Wire(b, h) \in [Moved -> Int]
<1>1. \A c \in Moved : Reported(b, c, h[c]) \in Int
  BY ReportedIsInt DEF AsPlaced
<1> QED
  BY <1>1 DEF Wire

LEMMA EvdevIsRawLike ==
    ASSUME NEW values \in [Moved -> Int]
    PROVE  EvdevRaw(values) \in RawLike
<1> DEFINE sx == IF "ABS_X" \in Moved THEN NormalizeAxis(values["ABS_X"], EvdevMin, EvdevMax) ELSE 0
           sy == IF "ABS_Y" \in Moved THEN -NormalizeAxis(values["ABS_Y"], EvdevMin, EvdevMax) ELSE 0
           hx == At(values, "ABS_HAT0X")
           hy == At(values, "ABS_HAT0Y")
           y == IF hy # 0 THEN -4 * hy ELSE sy
           x == IF hx # 0 THEN 4 * hx ELSE sx
<1>1. \A v \in Int : NormalizeAxis(v, EvdevMin, EvdevMax) \in Int
  BY DEF NormalizeAxis, EvdevMin, EvdevMax, Span
<1>2. sx \in Int /\ sy \in Int
  <2> HIDE DEF sx, sy
  <2>1. CASE "ABS_X" \in Moved
    <3>1. values["ABS_X"] \in Int
      BY <2>1
    <3>2. sx \in Int
      BY <1>1, <2>1, <3>1 DEF sx
    <3> QED
      BY <1>1, <3>2 DEF sy
  <2>2. CASE "ABS_X" \notin Moved
    BY <1>1, <2>2 DEF sx, sy
  <2> QED
    BY <2>1, <2>2
<1>3. hx \in Int /\ hy \in Int
  BY DEF At
<1> HIDE DEF sx, sy, hx, hy
<1>4. x \in Int /\ y \in Int
  BY <1>2, <1>3
<1> HIDE DEF x, y
<1>5. EvdevRaw(values) =
        [x |-> x, y |-> y, duck |-> y < -1, jump |-> Down(values, "BTN_SOUTH"),
         shoot |-> Down(values, "BTN_WEST"), dash |-> Down(values, "BTN_EAST"),
         lock |-> Down(values, "BTN_TR")]
  BY DEF EvdevRaw, x, y, sx, sy, hx, hy
<1> QED
  BY <1>4, <1>5 DEF RawLike, Down

LEMMA KeyboardIsRawLike ==
    ASSUME NEW keys, AsPlaced(keys)
    PROVE  KeyboardRaw(keys) \in RawLike
<1> DEFINE key(c) == Reported("x11", c, At(keys, c))
           x == 4 * (key("Right") - key("Left"))
           y == 4 * (key("Up") - key("Down"))
<1>1. \A c : key(c) \in Int
  <2>1. \A c : At(keys, c) \in Deflections
    BY DEF At, AsPlaced, Deflections
  <2> QED
    BY <2>1, ReportedIsInt
<1> HIDE DEF key
<1>2. x \in Int /\ y \in Int
  BY <1>1
<1> HIDE DEF x, y
<1>3. KeyboardRaw(keys) =
        [x |-> x, y |-> y, duck |-> y < 0, jump |-> Down(keys, Letters.jump),
         shoot |-> Down(keys, Letters.shoot), dash |-> Down(keys, Letters.dash),
         lock |-> Down(keys, Letters.lock)]
  BY DEF KeyboardRaw, x, y, key
<1> QED
  BY <1>2, <1>3 DEF RawLike, Down

\* An event changes one field, and a stick's stays in its range.
LEMMA FieldChange ==
    ASSUME NEW state \in RawStates
    PROVE  /\ \A n \in Deflections : /\ [state EXCEPT !.x = n] \in RawStates
                                    /\ [state EXCEPT !.y = n] \in RawStates
           /\ \A c \in DOMAIN Flag, n \in BOOLEAN : [state EXCEPT ![Flag[c]] = n] \in RawStates
<1>1. \A n \in Deflections : /\ [state EXCEPT !.x = n] \in RawStates
                            /\ [state EXCEPT !.y = n] \in RawStates
  BY DEF RawStates
<1>2. \A c \in DOMAIN Flag : Flag[c] \in {"jump", "shoot", "dash", "lock"}
  BY DEF Flag
<1>3. \A f \in {"jump", "shoot", "dash", "lock"}, n \in BOOLEAN :
          [state EXCEPT ![f] = n] \in RawStates
  BY DEF RawStates
<1> QED
  BY <1>1, <1>2, <1>3

LEMMA ApplyStaysRaw ==
    ASSUME NEW state \in RawStates, NEW c, NEW v \in Deflections
    PROVE  Apply(state, c, Reported("inputs", c, v)) \in RawStates
<1> DEFINE w == Reported("inputs", c, v)
<1> HIDE DEF w
<1>1. c \in {"ABS_X", "ABS_Y"} => NormalizeAxis(w, XInputMin, XInputMax) \in Deflections
  <2>1. c \in {"ABS_X", "ABS_Y"} => w \in XInputMin..XInputMax
    BY DEF w, Reported, XInputMin, XInputMax, Deflections
  <2> QED
    BY <2>1 DEF NormalizeAxis, Span, XInputMin, XInputMax, Deflections
<1>2. c \in {"ABS_HAT0X", "ABS_HAT0Y"} \cup DPad => 4 * w \in Deflections /\ -4 * w \in Deflections
  <2>1. c \in {"ABS_HAT0X", "ABS_HAT0Y"} \cup DPad => w \in -1..1
    BY DEF w, Reported, DPad, Deflections
  <2> QED
    BY <2>1 DEF Deflections
<1>3. CASE c = "ABS_X"
  <2>1. Apply(state, c, w) = [state EXCEPT !.x = NormalizeAxis(w, XInputMin, XInputMax)]
    BY <1>3 DEF Apply, Flag
  <2> QED
    BY <1>1, <1>3, <2>1, FieldChange DEF w
<1>4. CASE c = "ABS_Y"
  <2>1. Apply(state, c, w) = [state EXCEPT !.y = NormalizeAxis(w, XInputMin, XInputMax)]
    BY <1>4 DEF Apply, Flag
  <2> QED
    BY <1>1, <1>4, <2>1, FieldChange DEF w
<1>5. CASE c \in {"ABS_HAT0X", "ABS_HAT0Y"} \cup DPad
  <2>1. \E n \in {4 * w, -4 * w} : \/ Apply(state, c, w) = [state EXCEPT !.x = n]
                                  \/ Apply(state, c, w) = [state EXCEPT !.y = n]
    <3>1. CASE c = "ABS_HAT0X"
      BY <3>1 DEF Apply, Flag
    <3>2. CASE c = "ABS_HAT0Y"
      BY <3>2 DEF Apply, Flag
    <3>3. CASE c = "BTN_DPAD_LEFT"
      BY <3>3 DEF Apply, Flag
    <3>4. CASE c = "BTN_DPAD_RIGHT"
      BY <3>4 DEF Apply, Flag
    <3>5. CASE c = "BTN_DPAD_UP"
      BY <3>5 DEF Apply, Flag
    <3>6. CASE c = "BTN_DPAD_DOWN"
      BY <3>6 DEF Apply, Flag
    <3> QED
      BY <1>5, <3>1, <3>2, <3>3, <3>4, <3>5, <3>6 DEF DPad
  <2> QED
    BY <1>2, <1>5, <2>1, FieldChange DEF w
<1>6. CASE c \in DOMAIN Flag
  <2>1. Apply(state, c, w) = [state EXCEPT ![Flag[c]] = w # 0]
    BY <1>6 DEF Apply, Flag
  <2> QED
    BY <1>6, <2>1, FieldChange DEF w
<1>7. CASE c \notin {"ABS_X", "ABS_Y", "ABS_HAT0X", "ABS_HAT0Y"} \cup DPad \cup DOMAIN Flag
  <2>1. Apply(state, c, w) = state
    BY <1>7 DEF Apply, DPad
  <2> QED
    BY <2>1 DEF w
<1> QED
  BY <1>3, <1>4, <1>5, <1>6, <1>7

LEMMA TypeInit == Init => TypeInv
<1> SUFFICES ASSUME Init
             PROVE  TypeInv
  OBVIOUS
<1>1. \A c \in Moved : 0 \in Positions[c] /\ Positions[c] \subseteq Deflections
                       /\ Pushed(c) \in Positions[c]
  <2> SUFFICES ASSUME NEW c \in Moved
               PROVE  0 \in Positions[c] /\ Positions[c] \subseteq Deflections
                      /\ Pushed(c) \in Positions[c]
    OBVIOUS
  <2>1. 0 \in Positions[c] /\ Positions[c] \subseteq Deflections /\ \E v \in Positions[c] : v # 0
    BY InputAssumption
  <2> QED
    BY <2>1 DEF Pushed
<1>2. AsPlaced(AtRest)
  BY <1>1 DEF AsPlaced, AtRest
<1>3. /\ AsPlaced(held)
      /\ \A c \in Moved \ Own(backend) : held[c] = 0
  <2> PICK already \in SUBSET Own(backend) :
              held = [c \in Moved |-> IF c \in already THEN Pushed(c) ELSE 0]
    BY DEF Init
  <2> QED
    BY <1>1 DEF AsPlaced
<1>4. AsPlaced(seen) /\ \A c \in Moved \ Own(backend) : held[c] = seen[c]
  BY <1>2, <1>3 DEF Init, AtRest
<1>5. physical \in [Moved -> Int]
  BY DEF Init, AtRest
<1>6. raw \in RawStates
  BY DEF Init, BlankRawState, RawStates, Deflections
<1>7. queue \in Seq(Event \cup {Dropped}) /\ Len(queue) <= MaxQueue
  BY InputAssumption DEF Init
<1>8. played \in 0..Len(Script)
  BY InputAssumption DEF Init
<1>9. /\ backend \in Backends
      /\ batch \subseteq Own(backend) /\ untold \subseteq Moved
      /\ reader \in {"reading", "failed", "gone"}
      /\ pc \in Labels /\ answer \in EnumerateActions \cup {None}
      /\ plugged \in BOOLEAN /\ focused \in BOOLEAN /\ closed \in BOOLEAN
  BY DEF Init, Labels
<1> QED
  BY <1>2, <1>3, <1>4, <1>5, <1>6, <1>7, <1>8, <1>9 DEF TypeInv, Init

LEMMA TypeStep == TypeInv /\ [Next]_vars => TypeInv'
<1> SUFFICES ASSUME TypeInv, [Next]_vars
             PROVE  TypeInv'
  OBVIOUS
<1> USE DEF person, thread, history, Goto
<1>1. CASE ActiveKeys \/ AxisValues
  <2>1. Wire("evdev", held) \in [Moved -> Int]
    BY WireIsInt DEF TypeInv
  <2>2. \E which : physical' = [c \in Moved |-> IF c \in which THEN Wire("evdev", held)[c]
                                               ELSE physical[c]]
    BY <1>1 DEF ActiveKeys, AxisValues, ReadInitial
  <2>3. physical' \in [Moved -> Int]
    BY <2>1, <2>2 DEF TypeInv
  <2> QED
    BY <1>1, <2>3 DEF TypeInv, ActiveKeys, AxisValues, ReadInitial, Labels
<1>2. CASE OpenFails \/ Close \/ PollRefused \/ ReadFails \/ FocusLost
  BY <1>2 DEF TypeInv, OpenFails, Close, PollRefused, ReadFails, FocusLost, Raises, Labels
<1>3. CASE BeginPoll
  BY <1>3 DEF TypeInv, BeginPoll, Labels
<1>4. CASE ReadOne
  <2>1. queue \in Seq(Event \cup {Dropped}) /\ queue # <<>> /\ Head(queue) # Dropped
    BY <1>4 DEF TypeInv, ReadOne
  <2>2. Head(queue) \in Event /\ Tail(queue) \in Seq(Event \cup {Dropped})
        /\ Len(Tail(queue)) <= Len(queue)
    BY <2>1
  <2>3. physical' \in [Moved -> Int]
    BY <1>4, <2>2 DEF TypeInv, ReadOne, ReadEvent, Event
  <2>4. queue' \in Seq(Event \cup {Dropped}) /\ Len(queue') <= MaxQueue
    BY <1>4, <2>1, <2>2, InputAssumption DEF TypeInv, ReadOne, ReadEvent
  <2> QED
    BY <1>4, <2>3, <2>4 DEF TypeInv, ReadOne, ReadEvent
<1>5. CASE Drained
  <2>1. FromRaw(EvdevRaw(physical)) \in EnumerateActions
    BY EvdevIsRawLike, FromRawIsLegal DEF TypeInv
  <2> QED
    BY <1>5, <2>1 DEF TypeInv, Drained, Returns, Labels
<1>6. CASE Snapshot
  <2>1. FromRaw(raw) \in EnumerateActions
    BY FromRawIsLegal DEF TypeInv, RawStates, RawLike, Deflections
  <2> QED
    BY <1>6, <2>1 DEF TypeInv, Snapshot, Returns, Labels
<1>7. CASE NextOfScript
  <2>1. Script \in Seq(EnumerateActions) /\ played \in Nat /\ played < Len(Script)
    BY <1>7, InputAssumption DEF TypeInv, NextOfScript
  <2>2. Script[played + 1] \in EnumerateActions /\ played + 1 \in 0..Len(Script)
    BY <2>1
  <2> QED
    BY <1>7, <2>2 DEF TypeInv, NextOfScript, Labels
<1>8. CASE QueryKeymap
  BY <1>8 DEF TypeInv, QueryKeymap, Labels
<1>9. CASE FocusKept
  <2>1. FromRaw(KeyboardRaw(sample)) \in EnumerateActions
    BY KeyboardIsRawLike, FromRawIsLegal DEF TypeInv
  <2> QED
    BY <1>9, <2>1 DEF TypeInv, FocusKept, Returns, Labels
<1>10. CASE ReaderReads
  <2>1. batch' \subseteq Own(backend)
    BY <1>10 DEF TypeInv, ReaderReads
  <2>2. untold' \subseteq Moved /\ seen' = held
    BY <1>10 DEF TypeInv, ReaderReads
  <2> QED
    BY <1>10, <2>1, <2>2 DEF TypeInv, ReaderReads
<1>11. CASE ReaderApplies
  <2> PICK c \in batch : /\ raw' = Apply(raw, c, Wire("inputs", seen)[c])
                         /\ batch' = batch \ {c}
    BY <1>11 DEF ReaderApplies
  <2>1. c \in Moved /\ seen[c] \in Deflections /\ Wire("inputs", seen)[c] = Reported("inputs", c, seen[c])
    BY OwnIsMoved DEF TypeInv, AsPlaced, Wire
  <2>2. raw' \in RawStates
    BY <2>1, ApplyStaysRaw DEF TypeInv
  <2> QED
    BY <1>11, <2>2 DEF TypeInv, ReaderApplies
<1>12. CASE ReaderEnds
  BY <1>12 DEF TypeInv, ReaderEnds
<1>13. CASE \E c \in Own(backend) : Move(c)
  <2> PICK c \in Own(backend) : Move(c)
    BY <1>13
  <2> PICK v \in Positions[c] : held' = [held EXCEPT ![c] = v]
    BY DEF Move
  <2>1. c \in Moved /\ v \in Deflections
    BY OwnIsMoved, InputAssumption
  <2>2. AsPlaced(held') /\ \A d \in Moved \ Own(backend) : held'[d] = seen[d]
    BY <2>1 DEF TypeInv, AsPlaced
  <2>3. queue' \in Seq(Event \cup {Dropped}) /\ Len(queue') <= MaxQueue
    <3> DEFINE event == [code |-> c, value |-> Wire(backend, held')[c]]
    <3>1. event \in Event
      BY <2>1, <2>2, WireIsInt DEF Event
    <3>2. \/ queue' = queue
          \/ queue' = Append(queue, event) /\ Len(queue) < MaxQueue
          \/ queue' = <<Dropped, event>>
      BY DEF Move, Enqueue
    <3> HIDE DEF event
    <3>3. CASE queue' = queue
      BY <3>3 DEF TypeInv
    <3>4. CASE queue' = Append(queue, event) /\ Len(queue) < MaxQueue
      <4>1. queue' \in Seq(Event \cup {Dropped}) /\ Len(queue') = Len(queue) + 1
        BY <3>1, <3>4 DEF TypeInv
      <4> QED
        BY <3>4, <4>1, InputAssumption DEF TypeInv
    <3>5. CASE queue' = <<Dropped, event>>
      <4>1. queue' \in Seq(Event \cup {Dropped}) /\ Len(queue') = 2
        BY <3>1, <3>5
      <4> QED
        BY <4>1, InputAssumption
    <3> QED
      BY <3>2, <3>3, <3>4, <3>5
  <2> QED
    BY <2>2, <2>3 DEF TypeInv, Move
<1>14. CASE Unplug \/ SwitchWindow
  <2>1. plugged' \in BOOLEAN /\ focused' \in BOOLEAN
    BY <1>14 DEF TypeInv, Unplug, SwitchWindow
  <2> QED
    BY <1>14, <2>1 DEF TypeInv, Unplug, SwitchWindow
<1>15. CASE UNCHANGED vars
  BY <1>15 DEF TypeInv, vars
<1> QED
  BY <1>1, <1>2, <1>3, <1>4, <1>5, <1>6, <1>7, <1>8, <1>9, <1>10, <1>11, <1>12, <1>13, <1>14,
     <1>15 DEF Next, Poll

\* Every poll of every source returns one of the 56 legal actions
\* (Action.from_raw on what the device said).
THEOREM AnswersAreLegal == Spec => []InputTypeOK
<1>1. TypeInv => InputTypeOK
  BY DEF TypeInv, AsPlaced, InputTypeOK, Labels
<1> QED
  BY <1>1, TypeInit, TypeStep, PTL DEF Spec

-----------------------------------------------------------------------------
(* The thread that has failed, and the focus that is looked at twice.      *)

\* A poll that was answered after the failure is over, and the next one asks.
ReaderInv ==
    /\ late \in 0..1
    /\ late = 1 => reader = "failed" /\ pc # "checked"

\* Between its looks a poll has lost the focus once if another window has it.
FocusInv ==
    /\ focused \in BOOLEAN /\ away \in 0..2
    /\ pc \in {"focused", "queried"} =>
            /\ focused <=> away # 1
            /\ stray => away # 0

LEMMA InputInit == Init => ReaderInv /\ FocusInv
BY DEF Init, ReaderInv, FocusInv

LEMMA ReaderStep == ReaderInv /\ [Next]_vars => ReaderInv'
<1> SUFFICES ASSUME ReaderInv, [Next]_vars
             PROVE  ReaderInv'
  OBVIOUS
<1> USE DEF thread, history
<1>1. CASE BeginPoll
  BY <1>1 DEF ReaderInv, BeginPoll, Goto
<1>2. CASE Snapshot
  BY <1>2 DEF ReaderInv, Snapshot, Returns, Goto
<1>3. CASE ReaderEnds
  BY <1>3 DEF ReaderInv, ReaderEnds
<1>4. CASE ActiveKeys \/ AxisValues \/ OpenFails
  BY <1>4 DEF ReaderInv, ActiveKeys, AxisValues, ReadInitial, OpenFails
<1>5. CASE PollRefused \/ Close \/ ReadFails \/ FocusLost
  BY <1>5 DEF ReaderInv, PollRefused, Close, ReadFails, FocusLost, Raises, Goto
<1>6. CASE ReadOne \/ Drained \/ NextOfScript
  BY <1>6 DEF ReaderInv, ReadOne, ReadEvent, Drained, NextOfScript, Returns, Goto
<1>7. CASE QueryKeymap \/ FocusKept
  BY <1>7 DEF ReaderInv, QueryKeymap, FocusKept, Returns, Goto
<1>8. CASE ReaderReads \/ ReaderApplies
  BY <1>8 DEF ReaderInv, ReaderReads, ReaderApplies
<1>9. CASE \E c \in Own(backend) : Move(c)
  BY <1>9 DEF ReaderInv, Move
<1>10. CASE Unplug \/ SwitchWindow
  BY <1>10 DEF ReaderInv, Unplug, SwitchWindow
<1>11. CASE UNCHANGED vars
  BY <1>11 DEF ReaderInv, vars
<1> QED
  BY <1>1, <1>2, <1>3, <1>4, <1>5, <1>6, <1>7, <1>8, <1>9, <1>10, <1>11 DEF Next, Poll

LEMMA FocusStep == FocusInv /\ [Next]_vars => FocusInv'
<1> SUFFICES ASSUME FocusInv, [Next]_vars
             PROVE  FocusInv'
  OBVIOUS
<1> USE DEF FocusInv, person, history
<1>1. CASE BeginPoll
  BY <1>1 DEF BeginPoll, Goto
<1>2. CASE QueryKeymap
  <2>1. /\ pc' = "queried" /\ away' = away /\ focused' = focused
        /\ stray' = ~focused
    BY <1>2 DEF QueryKeymap, Goto
  <2>2. CASE focused
    BY <1>2, <2>1, <2>2 DEF QueryKeymap
  <2>3. CASE ~focused
    BY <1>2, <2>1, <2>3 DEF QueryKeymap
  <2> QED
    BY <2>2, <2>3
<1>3. CASE SwitchWindow
  <2>1. pc' = pc /\ stray' = stray /\ focused' \in BOOLEAN /\ away' \in 0..2
    BY <1>3 DEF SwitchWindow
  <2>2. CASE pc = "idle"
    BY <2>1, <2>2
  <2>3. CASE pc # "idle" /\ focused
    <3>1. away' = 1 /\ ~focused'
      BY <1>3, <2>3, Zenon DEF SwitchWindow
    <3> QED
      BY <2>1, <3>1
  <2>4. CASE pc # "idle" /\ ~focused
    <3>1. away' = 2 /\ focused'
      BY <1>3, <2>4, Zenon DEF SwitchWindow
    <3> QED
      BY <2>1, <3>1
  <2> QED
    BY <2>2, <2>3, <2>4
<1>4. CASE ActiveKeys \/ AxisValues \/ OpenFails
  BY <1>4 DEF ActiveKeys, AxisValues, ReadInitial, OpenFails
<1>5. CASE PollRefused \/ Close \/ ReadFails \/ FocusLost
  BY <1>5 DEF PollRefused, Close, ReadFails, FocusLost, Raises, Goto
<1>6. CASE ReadOne \/ Drained \/ NextOfScript \/ Snapshot \/ FocusKept
  BY <1>6 DEF ReadOne, ReadEvent, Drained, NextOfScript, Snapshot, FocusKept, Returns, Goto
<1>7. CASE ReaderReads \/ ReaderApplies \/ ReaderEnds
  BY <1>7 DEF ReaderReads, ReaderApplies, ReaderEnds
<1>8. CASE (\E c \in Own(backend) : Move(c)) \/ Unplug
  BY <1>8 DEF Move, Unplug
<1>9. CASE UNCHANGED vars
  BY <1>9 DEF vars
<1> QED
  BY <1>1, <1>2, <1>3, <1>4, <1>5, <1>6, <1>7, <1>8, <1>9 DEF Next, Poll

\* Only the poll that was past the check answers from a thread that has failed
\* (_InputsInputSource.poll looks at _error first).
THEOREM Noticed == Spec => []DeadReaderIsNoticed
<1>1. ReaderInv => DeadReaderIsNoticed
  BY DEF ReaderInv, DeadReaderIsNoticed
<1> QED
  BY <1>1, InputInit, ReaderStep, PTL DEF Spec

\* X11KeyboardInputSource.poll looks at the focus on both sides of the keys: a
\* sample of another window's keys is returned only if the focus came back in
\* between.
THEOREM OnlyTheGamesKeys == Spec => LostFocusIsNoticed
<1>1. FocusInv /\ [Next]_vars =>
        [pc = "queried" /\ pc' = "idle" /\ stray => away = 2]_vars
  <2> SUFFICES ASSUME FocusInv, Next, pc = "queried", pc' = "idle", stray
               PROVE  away = 2
    OBVIOUS
  <2>1. focused
    <3> USE DEF Goto
    <3>1. CASE FocusKept
      BY <3>1 DEF FocusKept
    <3>2. CASE ActiveKeys \/ AxisValues \/ OpenFails \/ BeginPoll \/ Snapshot \/ NextOfScript
      BY <3>2 DEF ActiveKeys, AxisValues, ReadInitial, OpenFails, BeginPoll, Snapshot, NextOfScript
    <3>3. CASE PollRefused \/ Close \/ ReadFails \/ FocusLost \/ QueryKeymap
      BY <3>3 DEF PollRefused, Close, ReadFails, FocusLost, Raises, QueryKeymap
    <3>4. CASE ReadOne \/ Drained
      BY <3>4 DEF ReadOne, Drained
    <3>5. CASE ReaderReads \/ ReaderApplies \/ ReaderEnds
      BY <3>5 DEF ReaderReads, ReaderApplies, ReaderEnds
    <3>6. CASE \E c \in Own(backend) : Move(c)
      BY <3>6 DEF Move
    <3>7. CASE Unplug \/ SwitchWindow
      BY <3>7 DEF Unplug, SwitchWindow
    <3> QED
      BY <3>1, <3>2, <3>3, <3>4, <3>5, <3>6, <3>7 DEF Next, Poll
  <2> QED
    BY <2>1 DEF FocusInv
<1> QED
  BY <1>1, InputInit, FocusStep, PTL DEF Spec, LostFocusIsNoticed

-----------------------------------------------------------------------------
(* The copy an evdev poll decodes.  Whatever differs between the copy and  *)
(* the controls is on its way: unless the kernel has said that it lost     *)
(* events, the last queued event of a control says where it is.            *)

\* Controls whose position is still to be read when the source opens.
Unread(c) == pc = "keys" \/ (pc = "axes" /\ c \in Axes)

\* What the queue q and the copy p hold of c agrees with the value w.
Queued(q, c, w) ==
    \E i \in 1..Len(q) : /\ q[i].code = c /\ q[i].value = w
                         /\ \A j \in 1..Len(q) : j > i => q[j].code # c
Settled(q, c) == \A i \in 1..Len(q) : q[i].code # c

Lost == queue # <<>> /\ Head(queue) = Dropped

CopyInv ==
    backend = "evdev" =>
        \/ ~plugged
        \/ Lost
        \/ \A c \in Moved :
                \/ Queued(queue, c, Wire("evdev", held)[c])
                \/ Settled(queue, c) /\ (Unread(c) \/ physical[c] = Wire("evdev", held)[c])

\* The evdev source never runs the other sources' steps.
PollInv == pc \in {"keys", "axes", "draining"} => backend = "evdev"

LEMMA AppendIsLast ==
    ASSUME NEW q \in Seq(Event \cup {Dropped}), NEW e \in Event
    PROVE  /\ Queued(Append(q, e), e.code, e.value)
           /\ \A c, w : c # e.code /\ Queued(q, c, w) => Queued(Append(q, e), c, w)
           /\ \A c : c # e.code /\ Settled(q, c) => Settled(Append(q, e), c)
           /\ q # <<>> => Head(Append(q, e)) = Head(q)
<1> DEFINE r == Append(q, e)
<1>1. /\ Len(r) = Len(q) + 1 /\ Len(q) \in Nat
      /\ \A i \in 1..Len(q) : r[i] = q[i]
      /\ r[Len(q) + 1] = e
      /\ q # <<>> => Head(r) = Head(q)
  OBVIOUS
<1> HIDE DEF r
<1>2. Queued(r, e.code, e.value)
  <2>1. Len(q) + 1 \in 1..Len(r) /\ \A j \in 1..Len(r) : ~(j > Len(q) + 1)
    BY <1>1
  <2> QED
    BY <1>1, <2>1 DEF Queued
<1>3. ASSUME NEW c, NEW w, c # e.code, Queued(q, c, w)
      PROVE  Queued(r, c, w)
  <2> PICK i \in 1..Len(q) : /\ q[i].code = c /\ q[i].value = w
                             /\ \A j \in 1..Len(q) : j > i => q[j].code # c
    BY <1>3 DEF Queued
  <2>1. \A j \in 1..Len(r) : j \in 1..Len(q) \/ j = Len(q) + 1
    BY <1>1
  <2>2. \A j \in 1..Len(r) : j > i => r[j].code # c
    BY <1>1, <1>3, <2>1
  <2>3. i \in 1..Len(r) /\ r[i] = q[i]
    BY <1>1
  <2> QED
    BY <2>2, <2>3 DEF Queued
<1>4. ASSUME NEW c, c # e.code, Settled(q, c)
      PROVE  Settled(r, c)
  <2>1. \A j \in 1..Len(r) : j \in 1..Len(q) \/ j = Len(q) + 1
    BY <1>1
  <2> QED
    BY <1>1, <1>4, <2>1 DEF Settled
<1> QED
  BY <1>1, <1>2, <1>3, <1>4 DEF r

LEMMA TailLosesTheHead ==
    ASSUME NEW q \in Seq(Event \cup {Dropped}), q # <<>>
    PROVE  /\ \A c, w : Queued(q, c, w) =>
                \/ Queued(Tail(q), c, w)
                \/ Settled(Tail(q), c) /\ Head(q).code = c /\ Head(q).value = w
           /\ \A c : Settled(q, c) => Settled(Tail(q), c) /\ Head(q).code # c
<1> DEFINE t == Tail(q)
<1>1. /\ Len(q) \in Nat /\ Len(q) > 0 /\ Len(t) = Len(q) - 1
      /\ \A i \in 1..Len(t) : t[i] = q[i + 1]
      /\ Head(q) = q[1]
  OBVIOUS
<1> HIDE DEF t
<1>2. ASSUME NEW c, NEW w, Queued(q, c, w)
      PROVE  \/ Queued(t, c, w)
             \/ Settled(t, c) /\ Head(q).code = c /\ Head(q).value = w
  <2> PICK i \in 1..Len(q) : /\ q[i].code = c /\ q[i].value = w
                             /\ \A j \in 1..Len(q) : j > i => q[j].code # c
    BY <1>2 DEF Queued
  <2>1. CASE i = 1
    <3>1. \A j \in 1..Len(t) : j + 1 \in 1..Len(q) /\ j + 1 > i
      BY <1>1, <2>1
    <3> QED
      BY <1>1, <2>1, <3>1 DEF Settled
  <2>2. CASE i > 1
    <3>1. i - 1 \in 1..Len(t) /\ t[i - 1] = q[i]
      BY <1>1, <2>2
    <3>2. \A j \in 1..Len(t) : j > i - 1 => j + 1 \in 1..Len(q) /\ j + 1 > i
      BY <1>1, <2>2
    <3>3. \A j \in 1..Len(t) : j > i - 1 => t[j].code # c
      BY <1>1, <3>2
    <3> QED
      BY <3>1, <3>3 DEF Queued
  <2> QED
    BY <1>1, <2>1, <2>2
<1>3. ASSUME NEW c, Settled(q, c)
      PROVE  Settled(t, c) /\ Head(q).code # c
  <2>1. 1 \in 1..Len(q) /\ \A j \in 1..Len(t) : j + 1 \in 1..Len(q)
    BY <1>1
  <2> QED
    BY <1>1, <1>3, <2>1 DEF Settled
<1> QED
  BY <1>2, <1>3 DEF t

\* What is known of one control when nothing was lost.
Tracked(c) ==
    \/ Queued(queue, c, Wire("evdev", held)[c])
    \/ Settled(queue, c) /\ (Unread(c) \/ physical[c] = Wire("evdev", held)[c])

LEMMA CopyInit == Init => CopyInv /\ PollInv
BY DEF Init, CopyInv, PollInv, Settled, Unread

LEMMA PollStep == PollInv /\ [Next]_vars => PollInv'
<1> SUFFICES ASSUME PollInv, [Next]_vars
             PROVE  PollInv'
  OBVIOUS
<1> USE DEF PollInv, Goto
<1>1. CASE ActiveKeys \/ AxisValues \/ OpenFails
  BY <1>1 DEF ActiveKeys, AxisValues, ReadInitial, OpenFails
<1>2. CASE BeginPoll
  BY <1>2 DEF BeginPoll
<1>3. CASE PollRefused \/ Close \/ ReadFails \/ FocusLost \/ QueryKeymap
  BY <1>3 DEF PollRefused, Close, ReadFails, FocusLost, Raises, QueryKeymap
<1>4. CASE ReadOne \/ Drained \/ NextOfScript \/ Snapshot \/ FocusKept
  BY <1>4 DEF ReadOne, ReadEvent, Drained, NextOfScript, Snapshot, FocusKept, Returns
<1>5. CASE ReaderReads \/ ReaderApplies \/ ReaderEnds
  BY <1>5 DEF ReaderReads, ReaderApplies, ReaderEnds
<1>6. CASE \E c \in Own(backend) : Move(c)
  BY <1>6 DEF Move
<1>7. CASE Unplug \/ SwitchWindow
  BY <1>7 DEF Unplug, SwitchWindow
<1>8. CASE UNCHANGED vars
  BY <1>8 DEF vars
<1> QED
  BY <1>1, <1>2, <1>3, <1>4, <1>5, <1>6, <1>7, <1>8 DEF Next, Poll

\* Steps that touch neither the controls, the queue nor the copy, and leave
\* nothing unread, keep what is known.
LEMMA CopyUntouched ==
    ASSUME CopyInv, UNCHANGED <<backend, held, plugged, queue, physical>>,
           \A c \in Moved : Unread(c) => Unread(c)'
    PROVE  CopyInv'
BY DEF CopyInv, Lost, Unread

LEMMA CopyStep == CopyInv /\ TypeInv /\ PollInv /\ [Next]_vars => CopyInv'
<1> SUFFICES ASSUME CopyInv, TypeInv, PollInv, [Next]_vars
             PROVE  CopyInv'
  OBVIOUS
<1> USE DEF person, thread, history, Goto
<1>1. CASE ActiveKeys \/ AxisValues
  <2>1. /\ backend = "evdev" /\ pc \in {"keys", "axes"}
        /\ UNCHANGED <<backend, held, plugged, queue>>
    BY <1>1 DEF ActiveKeys, AxisValues, ReadInitial
  <2>2. /\ \A c \in Moved : ~Unread(c) => physical'[c] = physical[c]
                                          \/ physical'[c] = Wire("evdev", held)[c]
        /\ \A c \in Moved : Unread(c) => Unread(c)' \/ physical'[c] = Wire("evdev", held)[c]
    <3>1. CASE ActiveKeys
      BY <3>1 DEF ActiveKeys, ReadInitial, Unread
    <3>2. CASE AxisValues
      BY <3>2 DEF AxisValues, ReadInitial, Unread
    <3> QED
      BY <1>1, <3>1, <3>2
  <2>3. ASSUME NEW c \in Moved, Tracked(c)
        PROVE  Tracked(c)'
    BY <2>1, <2>2, <2>3 DEF Tracked
  <2> QED
    BY <2>1, <2>3 DEF CopyInv, Lost, Tracked
<1>2. CASE OpenFails
  BY <1>2 DEF CopyInv, OpenFails
<1>3. CASE BeginPoll \/ PollRefused \/ Close \/ ReadFails
  <2>1. UNCHANGED <<backend, held, plugged, queue, physical>> /\ pc \notin {"keys", "axes"}
    BY <1>3 DEF BeginPoll, PollRefused, Close, ReadFails, Raises
  <2> QED
    BY <2>1, CopyUntouched DEF Unread
<1>4. CASE Drained \/ Snapshot \/ NextOfScript \/ QueryKeymap \/ FocusKept \/ FocusLost
  <2>1. UNCHANGED <<backend, held, plugged, queue, physical>> /\ pc \notin {"keys", "axes"}
    BY <1>4 DEF Drained, Snapshot, NextOfScript, QueryKeymap, FocusKept, FocusLost, Returns, Raises
  <2> QED
    BY <2>1, CopyUntouched DEF Unread
<1>5. CASE ReaderReads \/ ReaderApplies \/ ReaderEnds
  <2>1. UNCHANGED <<backend, held, plugged, queue, physical, pc>>
    BY <1>5 DEF ReaderReads, ReaderApplies, ReaderEnds
  <2> QED
    BY <2>1, CopyUntouched DEF Unread
<1>6. CASE SwitchWindow \/ UNCHANGED vars
  <2>1. UNCHANGED <<backend, held, plugged, queue, physical, pc>>
    BY <1>6 DEF SwitchWindow, vars
  <2> QED
    BY <2>1, CopyUntouched DEF Unread
<1>7. CASE Unplug
  BY <1>7 DEF CopyInv, Unplug
<1>8. CASE ReadOne
  <2>1. /\ pc = "draining" /\ plugged /\ ~Lost /\ queue # <<>>
        /\ physical' = [physical EXCEPT ![Head(queue).code] = Head(queue).value]
        /\ queue' = Tail(queue)
        /\ UNCHANGED <<backend, held, plugged, pc>>
    BY <1>8 DEF ReadOne, ReadEvent, Lost
  <2>2. queue \in Seq(Event \cup {Dropped}) /\ physical \in [Moved -> Int]
    BY DEF TypeInv
  <2>3. backend = "evdev" /\ \A c \in Moved : Tracked(c)
    BY <2>1 DEF PollInv, CopyInv, Tracked
  <2>4. ASSUME NEW c \in Moved
        PROVE  Tracked(c)'
    <3> DEFINE w == Wire("evdev", held)[c]
    <3>1. w' = w /\ (Unread(c)' <=> Unread(c)) /\ ~Unread(c)
      BY <2>1 DEF Unread
    <3> HIDE DEF w
    <3>2. \/ Queued(queue, c, w)
          \/ Settled(queue, c) /\ physical[c] = w
      BY <2>3, <3>1 DEF Tracked, w
    <3>3. CASE Queued(queue, c, w)
      <4>1. \/ Queued(Tail(queue), c, w)
            \/ Settled(Tail(queue), c) /\ Head(queue).code = c /\ Head(queue).value = w
        BY <2>1, <2>2, <3>3, TailLosesTheHead
      <4>2. CASE Queued(Tail(queue), c, w)
        BY <2>1, <3>1, <4>2 DEF Tracked, w
      <4>3. CASE Settled(Tail(queue), c) /\ Head(queue).code = c /\ Head(queue).value = w
        <5>1. physical'[c] = w
          BY <2>1, <2>2, <4>3
        <5> QED
          BY <2>1, <3>1, <4>3, <5>1 DEF Tracked, w
      <4> QED
        BY <4>1, <4>2, <4>3
    <3>4. CASE Settled(queue, c) /\ physical[c] = w
      <4>1. Settled(Tail(queue), c) /\ Head(queue).code # c
        BY <2>1, <2>2, <3>4, TailLosesTheHead
      <4>2. physical'[c] = w
        BY <2>1, <2>2, <3>4, <4>1
      <4> QED
        BY <2>1, <3>1, <4>1, <4>2 DEF Tracked, w
    <3> QED
      BY <3>2, <3>3, <3>4
  <2> QED
    BY <2>4 DEF CopyInv, Tracked
<1>9. CASE \E c \in Own(backend) : Move(c)
  <2> PICK m \in Own(backend) : Move(m)
    BY <1>9
  <2> PICK v \in Positions[m] : held' = [held EXCEPT ![m] = v]
    BY DEF Move
  <2>1. /\ queue' = IF backend = "evdev" /\ plugged THEN Enqueue(m) ELSE queue
        /\ UNCHANGED <<backend, plugged, physical, pc>>
    BY DEF Move
  <2>2. CASE backend # "evdev" \/ ~plugged
    BY <2>1, <2>2 DEF CopyInv
  <2>3. CASE backend = "evdev" /\ plugged
    <3> DEFINE e == [code |-> m, value |-> Wire("evdev", held')[m]]
    <3>1. queue' = IF Len(queue) < MaxQueue THEN Append(queue, e) ELSE <<Dropped, e>>
      BY <2>1, <2>3 DEF Enqueue
    <3>2. queue \in Seq(Event \cup {Dropped}) /\ held \in [Moved -> Deflections]
      BY DEF TypeInv, AsPlaced
    <3>3. m \in Moved /\ v \in Deflections
      BY OwnIsMoved, InputAssumption
    <3>4. e \in Event /\ e.code = m /\ e.value = Wire("evdev", held')[m]
      <4>1. held'[m] \in Deflections
        BY <3>2, <3>3
      <4> QED
        BY <3>3, <4>1, ReportedIsInt DEF Event, Wire
    <3>5. \A c \in Moved : c # m => Wire("evdev", held')[c] = Wire("evdev", held)[c]
      BY <3>2, <3>3 DEF Wire
    <3> HIDE DEF e
    <3>6. CASE ~(Len(queue) < MaxQueue)
      <4>1. Lost'
        BY <3>1, <3>4, <3>6 DEF Lost
      <4> QED
        BY <4>1 DEF CopyInv
    <3>7. CASE Len(queue) < MaxQueue /\ Lost
      <4>1. Lost'
        BY <3>1, <3>2, <3>4, <3>7, AppendIsLast DEF Lost
      <4> QED
        BY <4>1 DEF CopyInv
    <3>8. CASE Len(queue) < MaxQueue /\ ~Lost
      <4>1. \A c \in Moved : Tracked(c)
        BY <2>3, <3>8 DEF CopyInv, Tracked
      <4>2. queue' = Append(queue, e)
        BY <3>1, <3>8
      <4>3. ASSUME NEW c \in Moved, c # m
            PROVE  Tracked(c)'
        <5>1. Wire("evdev", held')[c] = Wire("evdev", held)[c]
              /\ physical' = physical /\ pc' = pc
          BY <2>1, <3>5, <4>3
        <5>2. CASE Queued(queue, c, Wire("evdev", held)[c])
          <6>1. Queued(queue', c, Wire("evdev", held)[c])
            BY <3>2, <3>4, <4>2, <4>3, <5>2, AppendIsLast
          <6> QED
            BY <5>1, <6>1 DEF Tracked
        <5>3. CASE Settled(queue, c) /\ (Unread(c) \/ physical[c] = Wire("evdev", held)[c])
          <6>1. Settled(queue', c)
            BY <3>2, <3>4, <4>2, <4>3, <5>3, AppendIsLast
          <6> QED
            BY <5>1, <5>3, <6>1 DEF Tracked, Unread
        <5> QED
          BY <4>1, <5>2, <5>3 DEF Tracked
      <4>4. Tracked(m)'
        BY <3>2, <3>4, <4>2, AppendIsLast DEF Tracked
      <4> QED
        BY <4>3, <4>4 DEF CopyInv, Tracked
    <3> QED
      BY <3>6, <3>7, <3>8
  <2> QED
    BY <2>2, <2>3
<1> QED
  BY <1>1, <1>2, <1>3, <1>4, <1>5, <1>6, <1>7, <1>8, <1>9 DEF Next, Poll

\* _EvdevInputSource: opening reads the positions before it drains, a poll
\* drains before it decodes and raises on SYN_DROPPED; so what a poll returns
\* is what is held when it finds the queue empty, whatever moved meanwhile.
THEOREM NothingIsMissed == Spec => PollIsCurrent
<1>1. CopyInv /\ TypeInv /\ PollInv /\ [Next]_vars =>
        [pc = "draining" /\ pc' = "idle" => answer' = FromRaw(EvdevRaw(Wire("evdev", held)))]_vars
  <2> SUFFICES ASSUME CopyInv, TypeInv, PollInv, Next, pc = "draining", pc' = "idle"
               PROVE  answer' = FromRaw(EvdevRaw(Wire("evdev", held)))
    OBVIOUS
  <2> USE DEF Goto
  <2>1. CASE Drained
    <3>1. /\ plugged /\ queue = <<>> /\ ~Lost /\ backend = "evdev"
          /\ answer' = FromRaw(EvdevRaw(physical))
      BY <2>1 DEF Drained, Returns, PollInv, Lost
    <3>2. \A c \in Moved : physical[c] = Wire("evdev", held)[c]
      <4>1. \A c, w : ~Queued(queue, c, w)
        BY <3>1 DEF Queued
      <4> QED
        BY <3>1, <4>1 DEF CopyInv, Unread
    <3>3. physical \in [Moved -> Int] /\ Wire("evdev", held) \in [Moved -> Int]
      BY WireIsInt DEF TypeInv
    <3>4. physical = Wire("evdev", held)
      BY <3>2, <3>3
    <3> QED
      BY <3>1, <3>4
  <2>2. CASE ActiveKeys \/ AxisValues \/ OpenFails \/ BeginPoll \/ Snapshot \/ NextOfScript
    BY <2>2 DEF ActiveKeys, AxisValues, ReadInitial, OpenFails, BeginPoll, Snapshot, NextOfScript
  <2>3. CASE PollRefused \/ Close \/ ReadFails \/ FocusLost \/ QueryKeymap \/ FocusKept
    BY <2>3 DEF PollRefused, Close, ReadFails, FocusLost, Raises, QueryKeymap, FocusKept
  <2>4. CASE ReadOne
    BY <2>4 DEF ReadOne, ReadEvent
  <2>5. CASE ReaderReads \/ ReaderApplies \/ ReaderEnds
    BY <2>5 DEF ReaderReads, ReaderApplies, ReaderEnds
  <2>6. CASE \E c \in Own(backend) : Move(c)
    BY <2>6 DEF Move
  <2>7. CASE Unplug \/ SwitchWindow
    BY <2>7 DEF Unplug, SwitchWindow
  <2> QED
    BY <2>1, <2>2, <2>3, <2>4, <2>5, <2>6, <2>7 DEF Next, Poll
<1> QED
  BY <1>1, TypeInit, TypeStep, CopyInit, CopyStep, PollStep, PTL DEF Spec, PollIsCurrent

-----------------------------------------------------------------------------
(* The thread of the Windows source folds one change at a time into a      *)
(* state it shares with the polls.  Of the controls it was told of, those  *)
(* it still has to apply are set apart: the others are as read() last      *)
(* reported them, and so is a stick that no other of them has moved.       *)

Told == Moved \ untold

FoldedInv ==
    backend = "inputs" =>
        /\ batch \subseteq Told
        /\ \A c \in (Told \ batch) \cap DOMAIN Flag : raw[Flag[c]] = Down(seen, c)
        /\ \A c \in (Told \ batch) \cap Sideward :
                Told \cap Sideward = {c} => raw.x = Pull(c, seen[c])
        /\ \A c \in (Told \ batch) \cap Upward :
                Told \cap Upward = {c} => raw.y = Pull(c, seen[c])

\* _apply sets what the code of its event names, and nothing else.
LEMMA ApplyFolds ==
    ASSUME NEW state \in RawStates, NEW c \in Controls, NEW v \in Deflections
    PROVE  LET next == Apply(state, c, Reported("inputs", c, v))
           IN  /\ \A f \in DOMAIN Flag :
                    next[Flag[f]] = IF f = c THEN v # 0 ELSE state[Flag[f]]
               /\ next.x = IF c \in Sideward THEN Pull(c, v) ELSE state.x
               /\ next.y = IF c \in Upward THEN Pull(c, v) ELSE state.y
<1> DEFINE w == Reported("inputs", c, v)
           next == Apply(state, c, w)
<1>1. /\ DOMAIN Flag = {"BTN_SOUTH", "BTN_WEST", "BTN_EAST", "BTN_TR"}
      /\ Flag["BTN_SOUTH"] = "jump" /\ Flag["BTN_WEST"] = "shoot"
      /\ Flag["BTN_EAST"] = "dash" /\ Flag["BTN_TR"] = "lock"
  BY DEF Flag
<1>2. /\ state = [x |-> state.x, y |-> state.y, jump |-> state.jump, duck |-> state.duck,
                  dash |-> state.dash, shoot |-> state.shoot, lock |-> state.lock]
  BY DEF RawStates
<1>3. CASE c \in {"ABS_X", "ABS_Y"}
  <2>1. w = IF v > 3 THEN 3 ELSE v
    BY <1>3 DEF w, Reported, XInputMax
  <2>2. NormalizeAxis(w, XInputMin, XInputMax) = Pull(c, v)
    BY <1>3, <2>1 DEF NormalizeAxis, Span, XInputMin, XInputMax, Pull, Deflections
  <2> HIDE DEF w
  <2>3. next = IF c = "ABS_X" THEN [state EXCEPT !.x = Pull(c, v)]
                              ELSE [state EXCEPT !.y = Pull(c, v)]
    <3>1. CASE c = "ABS_X"
      BY <2>2, <3>1 DEF Apply, Flag
    <3>2. CASE c = "ABS_Y"
      BY <2>2, <3>2 DEF Apply, Flag
    <3> QED
      BY <1>3, <3>1, <3>2
  <2> HIDE DEF next
  <2>4. /\ \A f \in DOMAIN Flag : f # c /\ next[Flag[f]] = state[Flag[f]]
        /\ next.x = IF c = "ABS_X" THEN Pull(c, v) ELSE state.x
        /\ next.y = IF c = "ABS_Y" THEN Pull(c, v) ELSE state.y
    BY <1>1, <1>2, <1>3, <2>3
  <2> QED
    BY <1>3, <2>4 DEF Sideward, Upward, next, w
<1>4. CASE c \in {"ABS_HAT0X", "ABS_HAT0Y"} \cup DPad
  <2>1. IF c \in {"ABS_HAT0Y", "BTN_DPAD_LEFT", "BTN_DPAD_DOWN"} THEN -4 * w = Pull(c, v)
                                                                 ELSE 4 * w = Pull(c, v)
    BY <1>4 DEF w, Reported, Pull, DPad, Deflections
  <2> HIDE DEF w
  <2>2. next = IF c \in Sideward THEN [state EXCEPT !.x = Pull(c, v)]
                                 ELSE [state EXCEPT !.y = Pull(c, v)]
    <3>1. CASE c = "ABS_HAT0X"
      BY <2>1, <3>1 DEF Apply, Flag, Sideward
    <3>2. CASE c = "ABS_HAT0Y"
      BY <2>1, <3>2 DEF Apply, Flag, Sideward
    <3>3. CASE c = "BTN_DPAD_LEFT"
      BY <2>1, <3>3 DEF Apply, Flag, Sideward
    <3>4. CASE c = "BTN_DPAD_RIGHT"
      BY <2>1, <3>4 DEF Apply, Flag, Sideward
    <3>5. CASE c = "BTN_DPAD_UP"
      BY <2>1, <3>5 DEF Apply, Flag, Sideward
    <3>6. CASE c = "BTN_DPAD_DOWN"
      BY <2>1, <3>6 DEF Apply, Flag, Sideward
    <3> QED
      BY <1>4, <3>1, <3>2, <3>3, <3>4, <3>5, <3>6 DEF DPad
  <2> HIDE DEF next
  <2>3. c \notin DOMAIN Flag /\ (c \in Sideward <=> c \notin Upward)
    BY <1>1, <1>4 DEF DPad, Sideward, Upward
  <2>4. /\ \A f \in DOMAIN Flag : f # c /\ next[Flag[f]] = state[Flag[f]]
        /\ next.x = IF c \in Sideward THEN Pull(c, v) ELSE state.x
        /\ next.y = IF c \in Upward THEN Pull(c, v) ELSE state.y
    BY <1>1, <1>2, <2>2, <2>3
  <2> QED
    BY <2>4 DEF next, w
<1>5. CASE c \in DOMAIN Flag
  <2>1. next = [state EXCEPT ![Flag[c]] = v # 0]
    <3>1. (w # 0) = (v # 0)
      BY <1>1, <1>5 DEF w, Reported
    <3> HIDE DEF w
    <3>2. next = [state EXCEPT ![Flag[c]] = w # 0]
      BY <1>5 DEF Apply, Flag
    <3> QED
      BY <3>1, <3>2
  <2> HIDE DEF next, w
  <2>2. c \notin Sideward /\ c \notin Upward
    BY <1>1, <1>5 DEF Sideward, Upward
  <2>3. next.x = state.x /\ next.y = state.y
    BY <1>1, <1>2, <1>5, <2>1
  <2>4. next[Flag[c]] = (v # 0)
    BY <1>1, <1>2, <1>5, <2>1
  <2>5. \A f \in DOMAIN Flag : f # c => next[Flag[f]] = state[Flag[f]]
    BY <1>1, <1>2, <1>5, <2>1
  <2> QED
    BY <2>2, <2>3, <2>4, <2>5 DEF next, w
<1>6. CASE c \notin {"ABS_X", "ABS_Y", "ABS_HAT0X", "ABS_HAT0Y"} \cup DPad \cup DOMAIN Flag
  <2>1. next = state
    BY <1>6 DEF Apply, DPad
  <2>2. c \notin Sideward /\ c \notin Upward
    BY <1>6 DEF Sideward, Upward, DPad
  <2> HIDE DEF next, w
  <2>3. /\ \A f \in DOMAIN Flag : f # c /\ next[Flag[f]] = state[Flag[f]]
        /\ next.x = state.x /\ next.y = state.y
    BY <1>6, <2>1
  <2> QED
    BY <2>2, <2>3 DEF next, w
<1> QED
  BY <1>3, <1>4, <1>5, <1>6

LEMMA FoldedInit == Init => FoldedInv
BY DEF Init, FoldedInv, Told

LEMMA FoldedStep == FoldedInv /\ TypeInv /\ [Next]_vars => FoldedInv'
<1> SUFFICES ASSUME FoldedInv, TypeInv, [Next]_vars
             PROVE  FoldedInv'
  OBVIOUS
<1> USE DEF person, thread, history, Goto
<1>1. CASE UNCHANGED <<backend, batch, seen, raw, untold>>
  BY <1>1 DEF FoldedInv, Told
<1>2. CASE ReaderReads
  <2>1. /\ backend' = backend /\ batch = {} /\ raw' = raw /\ untold' = untold \ batch'
        /\ batch' \subseteq Moved
        /\ \A c \in Moved \ batch' : seen'[c] = seen[c]
    BY <1>2 DEF ReaderReads
  <2>2. /\ Told' = Told \cup batch'
        /\ Told' \ batch' \subseteq Told \ batch
        /\ \A c \in Told' \ batch' : seen'[c] = seen[c]
    BY <2>1 DEF Told
  <2>3. ASSUME NEW S, NEW c \in Told' \ batch', Told' \cap S = {c}
        PROVE  Told \cap S = {c}
    BY <2>2, <2>3
  <2>4. \A c \in Moved \ batch' : Down(seen', c) = Down(seen, c)
    <3>1. seen \in [Moved -> Deflections] /\ seen' \in [Moved -> Deflections]
      BY <1>2 DEF TypeInv, AsPlaced, ReaderReads
    <3> QED
      BY <2>1, <3>1 DEF Down, At
  <2>5. CASE backend = "inputs"
    <3>1. batch' \subseteq Told'
      BY <2>2
    <3>2. \A c \in (Told' \ batch') \cap DOMAIN Flag : raw'[Flag[c]] = Down(seen', c)
      BY <2>1, <2>2, <2>4, <2>5 DEF FoldedInv, Told
    <3>3. \A c \in (Told' \ batch') \cap Sideward :
                Told' \cap Sideward = {c} => raw'.x = Pull(c, seen'[c])
      BY <2>1, <2>2, <2>3, <2>5 DEF FoldedInv
    <3>4. \A c \in (Told' \ batch') \cap Upward :
                Told' \cap Upward = {c} => raw'.y = Pull(c, seen'[c])
      BY <2>1, <2>2, <2>3, <2>5 DEF FoldedInv
    <3> QED
      BY <3>1, <3>2, <3>3, <3>4 DEF FoldedInv
  <2> QED
    BY <2>1, <2>5 DEF FoldedInv
<1>3. CASE ReaderApplies
  <2> PICK m \in batch : /\ raw' = Apply(raw, m, Wire("inputs", seen)[m])
                         /\ batch' = batch \ {m}
    BY <1>3 DEF ReaderApplies
  <2>1. backend = "inputs" /\ UNCHANGED <<backend, seen, untold>>
    BY <1>3 DEF ReaderApplies
  <2>2. /\ m \in Moved /\ m \in Controls /\ raw \in RawStates
        /\ seen \in [Moved -> Deflections]
        /\ Wire("inputs", seen)[m] = Reported("inputs", m, seen[m])
    BY OwnIsMoved, InputAssumption DEF TypeInv, AsPlaced, Wire
  <2>3. /\ \A f \in DOMAIN Flag : raw'[Flag[f]] = IF f = m THEN seen[m] # 0 ELSE raw[Flag[f]]
        /\ raw'.x = IF m \in Sideward THEN Pull(m, seen[m]) ELSE raw.x
        /\ raw'.y = IF m \in Upward THEN Pull(m, seen[m]) ELSE raw.y
    BY <2>2, ApplyFolds
  <2>4. /\ Told' = Told /\ batch \subseteq Told
        /\ Told' \ batch' = (Told \ batch) \cup {m}
    BY <2>1 DEF Told, FoldedInv
  <2>5. \A c \in (Told' \ batch') \cap DOMAIN Flag : raw'[Flag[c]] = Down(seen', c)
    <3>1. Down(seen, m) = (seen[m] # 0)
      BY <2>2 DEF Down, At
    <3> QED
      BY <2>1, <2>3, <2>4, <3>1 DEF FoldedInv
  <2>6. \A c \in (Told' \ batch') \cap Sideward :
            Told' \cap Sideward = {c} => raw'.x = Pull(c, seen'[c])
    BY <2>1, <2>3, <2>4 DEF FoldedInv
  <2>7. \A c \in (Told' \ batch') \cap Upward :
            Told' \cap Upward = {c} => raw'.y = Pull(c, seen'[c])
    BY <2>1, <2>3, <2>4 DEF FoldedInv
  <2> QED
    BY <2>4, <2>5, <2>6, <2>7 DEF FoldedInv
<1>4. CASE ActiveKeys \/ AxisValues \/ OpenFails \/ BeginPoll \/ PollRefused \/ Close \/ ReadFails
  <2>1. UNCHANGED <<backend, batch, seen, raw, untold>>
    BY <1>4 DEF ActiveKeys, AxisValues, ReadInitial, OpenFails, BeginPoll, PollRefused, Close,
                ReadFails, Raises
  <2> QED
    BY <1>1, <2>1
<1>5. CASE ReadOne \/ Drained \/ Snapshot \/ NextOfScript \/ QueryKeymap \/ FocusKept \/ FocusLost
  <2>1. UNCHANGED <<backend, batch, seen, raw, untold>>
    BY <1>5 DEF ReadOne, ReadEvent, Drained, Snapshot, NextOfScript, QueryKeymap, FocusKept,
                FocusLost, Returns, Raises
  <2> QED
    BY <1>1, <2>1
<1>6. CASE ReaderEnds \/ Unplug \/ SwitchWindow \/ UNCHANGED vars
  <2>1. UNCHANGED <<backend, batch, seen, raw, untold>>
    BY <1>6 DEF ReaderEnds, Unplug, SwitchWindow, vars
  <2> QED
    BY <1>1, <2>1
<1>7. CASE \E c \in Own(backend) : Move(c)
  <2>1. UNCHANGED <<backend, batch, seen, raw, untold>>
    BY <1>7 DEF Move
  <2> QED
    BY <1>1, <2>1
<1> QED
  BY <1>2, <1>3, <1>4, <1>5, <1>6, <1>7 DEF Next, Poll

\* _InputsInputSource._read_loop and _apply: however the reads, the single
\* changes and the polls interleave, once the thread has caught up the raw
\* state has every button it was told of as it is held, and every stick that
\* one control has moved where that control is.
THEOREM RawStateKeepsUp == Spec => []ThreadKeepsUp
<1>1. FoldedInv /\ TypeInv => ThreadKeepsUp
  <2> SUFFICES ASSUME FoldedInv, TypeInv, backend = "inputs", batch = {}, seen = held
               PROVE  LET told == Own("inputs") \ untold
                      IN  /\ \A c \in told \cap DOMAIN Flag : raw[Flag[c]] = Down(held, c)
                          /\ \A c \in told \cap Sideward :
                                told \cap Sideward = {c} => raw.x = Pull(c, held[c])
                          /\ \A c \in told \cap Upward :
                                told \cap Upward = {c} => raw.y = Pull(c, held[c])
    BY DEF ThreadKeepsUp
  <2>1. Own("inputs") \ untold \subseteq Told \ batch
    BY OwnIsMoved DEF Told
  <2>2. \A S : (S = Sideward \/ S = Upward) =>
            Told \cap S = (Own("inputs") \ untold) \cap S
    BY DEF Told, Own, Sideward, Upward, Axes, DPad
  <2> QED
    BY <2>1, <2>2 DEF FoldedInv
<1> QED
  BY <1>1, TypeInit, TypeStep, FoldedInit, FoldedStep, PTL DEF Spec
=============================================================================
