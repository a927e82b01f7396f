------------------------ MODULE RecordSession_proofs ------------------------
(***************************************************************************)
(* Theorems about recordings, for every number of frames and of writers    *)
(* that follow each other on one directory, killed or failing anywhere,    *)
(* with reviews and audits by the dataset gate at any moment; and about    *)
(* the frames an audit samples, for segments of any number and length.     *)
(***************************************************************************)
EXTENDS DatasetGate, FiniteSetTheorems, SequenceTheorems, TLAPS

Entry == {Torn} \cup [take : 1..MaxTakes, frame : FrameIndices]

Recording == {"loop", "log", "row", "count", "verify"}
Labels == Recording \cup {"start", "opening", "events", "over"}

TypeInv ==
    /\ ReplayTypeOK
    /\ writer # "closed" => take \in 1..MaxTakes
    /\ pc \in Labels
    /\ created \in BOOLEAN
    /\ count \in 0..MaxFrames
    /\ pc \in {"log", "row", "count"} => count < MaxFrames
    /\ rows \in Seq(Nat) /\ sampled \in Seq(Nat)
    /\ recorded \subseteq 1..MaxTakes

LEMMA Bounds == MaxFrames \in Nat /\ MaxTakes \in Nat
BY ReplayAssumption

\* What a write of a line does to the log.
LEMMA LogLineIs ==
    ASSUME NEW S, actions \in Seq(S), NEW line \in S, LogLine(line)
    PROVE  /\ actions' \in Seq(S)
           /\ \/ actions' = actions /\ ~Parses
              \/ /\ Len(actions') = Len(actions) + 1
                 /\ \A i \in 1..Len(actions) : actions'[i] = actions[i]
                 /\ actions'[Len(actions) + 1] = line
           /\ DOMAIN actions = 1..Len(actions) /\ DOMAIN actions' = 1..Len(actions')
<1>1. DOMAIN actions = 1..Len(actions) /\ Len(actions) \in Nat
  BY LenProperties, SMTT(30)
<1>2. CASE actions # <<>> /\ actions[Len(actions)] = Torn
  <2>1. actions' = actions
    BY <1>2 DEF LogLine
  <2>2. Len(actions) \in DOMAIN actions
    BY <1>1, <1>2, EmptySeq
  <2>3. QED
    BY <1>1, <1>2, <2>1, <2>2 DEF Parses
<1>3. CASE ~(actions # <<>> /\ actions[Len(actions)] = Torn)
  <2>1. actions' = Append(actions, line)
    BY <1>3 DEF LogLine
  <2>2. /\ actions' \in Seq(S) /\ Len(actions') = Len(actions) + 1
        /\ \A i \in 1..Len(actions) : actions'[i] = actions[i]
        /\ actions'[Len(actions) + 1] = line
    BY <2>1, AppendProperties
  <2>3. QED
    BY <1>1, <2>2, LenProperties
<1>4. QED
  BY <1>2, <1>3

LEMMA LineType ==
    ASSUME TypeInv, writer = "open", NEW f \in FrameIndices
    PROVE  Line(take, f) \in Entry
BY DEF TypeInv, Line, Entry

\* Any use of the writer keeps its types.
LEMMA ReplayType ==
    ASSUME TypeInv, ReplayNext
    PROVE  ReplayTypeOK' /\ (writer' # "closed" => take' \in 1..MaxTakes)
<1> USE DEF TypeInv, ReplayTypeOK
<1> SUFFICES ASSUME actions \in Seq(Entry)
             PROVE  /\ ReplayTypeOK' /\ (writer' # "closed" => take' \in 1..MaxTakes)
  BY DEF Entry
<1>0. MaxTakes \in Nat /\ MaxFrames \in Nat
  BY Bounds
<1>1. CASE OpenWriter
  BY <1>0, <1>1 DEF OpenWriter, disk
<1>2. ASSUME NEW f \in FrameIndices, LogAction(f)
      PROVE  ReplayTypeOK' /\ (writer' # "closed" => take' \in 1..MaxTakes)
  <2>1. actions' \in Seq(Entry)
    BY <1>2, LineType, LogLineIs DEF LogAction
  <2>2. QED
    BY <1>2, <2>1 DEF LogAction, Entry
<1>3. ASSUME NEW n \in 0..MaxFrames, WriteMeta(n)
      PROVE  ReplayTypeOK' /\ (writer' # "closed" => take' \in 1..MaxTakes)
  BY <1>0, <1>3 DEF WriteMeta
<1>4. CASE WriteEvents
  BY <1>0, <1>4 DEF WriteEvents
<1>5. CASE Stop
  BY <1>5 DEF Stop, disk
<1>6. CASE StopInLine
  <2>1. actions' \in Seq(Entry)
    BY <1>6, LogLineIs DEF StopInLine, Entry
  <2>2. QED
    BY <1>6, <2>1 DEF StopInLine, Entry
<1>7. QED
  BY <1>1, <1>2, <1>3, <1>4, <1>5, <1>6 DEF ReplayNext

\* The recorder uses the writer as any caller may, or leaves it alone, or is
\* interrupted inside log_action.
LEMMA RecorderUses ==
    ASSUME TypeInv, [RecordNext]_allVars
    PROVE  ReplayNext \/ UNCHANGED replayVars \/ LogInterrupted
<1>0. MaxFrames \in Nat
  BY Bounds
<1>1. CASE Log
  BY <1>0, <1>1 DEF Log, ReplayNext, TypeInv, FrameIndices
<1>2. CASE Finalize
  BY <1>2 DEF Finalize, ReplayNext, TypeInv
<1>3. QED
  BY <1>1, <1>2 DEF RecordNext, Create, Open, OpenFails, Capture, Row, CountFrame, LimitReached,
     Interrupted, FinalizeRest, Abandon, Kill, Again, OtherProgram, ReplayNext, allVars

LEMMA InitType == RecordInit => TypeInv
<1> SUFFICES ASSUME RecordInit PROVE TypeInv
  OBVIOUS
<1>1. <<>> \in Seq(Entry) /\ <<>> \in Seq(Nat)
  OBVIOUS
<1>2. actions \in Seq(Entry) /\ rows \in Seq(Nat) /\ sampled \in Seq(Nat)
  BY <1>1 DEF RecordInit, ReplayInit
<1>3. ReplayTypeOK
  BY <1>2, Bounds DEF RecordInit, ReplayInit, ReplayTypeOK, Entry
<1>4. writer = "closed" /\ pc = "start" /\ created = FALSE /\ count = 0 /\ recorded = {}
  BY DEF RecordInit, ReplayInit
<1>5. count \in 0..MaxFrames
  BY <1>4, Bounds
<1>6. pc \in Labels /\ pc \notin {"log", "row", "count"}
  BY <1>4 DEF Labels, Recording
<1>7. QED
  BY <1>2, <1>3, <1>4, <1>5, <1>6 DEF TypeInv

LEMMA TypeStep == TypeInv /\ [RecordNext]_allVars => TypeInv'
<1> SUFFICES ASSUME TypeInv, [RecordNext]_allVars PROVE TypeInv'
  OBVIOUS
<1>0. MaxFrames \in Nat /\ MaxTakes \in Nat
  BY Bounds
<1>1. ReplayTypeOK' /\ (writer' # "closed" => take' \in 1..MaxTakes)
  <2>1. CASE ReplayNext
    BY <2>1, ReplayType
  <2>2. CASE UNCHANGED replayVars
    BY <2>2 DEF TypeInv, ReplayTypeOK, replayVars, disk, writerVars
  <2>3. CASE LogInterrupted
    BY <1>0, <2>3 DEF TypeInv, ReplayTypeOK, LogInterrupted, disk, FrameIndices
  <2>4. QED
    BY <2>1, <2>2, <2>3, RecorderUses
<1>2. count \in Nat
  BY <1>0 DEF TypeInv
<1>3. /\ pc' \in Labels /\ created' \in BOOLEAN /\ count' \in 0..MaxFrames
      /\ pc' \in {"log", "row", "count"} => count' < MaxFrames
      /\ recorded' \subseteq 1..MaxTakes
  <2> USE DEF TypeInv, Labels, Recording, Goto
  <2>1. CASE Open
    BY <1>1, <2>1 DEF Open, OpenWriter
  <2>2. CASE CountFrame
    BY <1>0, <2>2 DEF CountFrame
  <2>3. CASE Again
    BY <1>0, <2>3 DEF Again
  <2>4. CASE ~Open /\ ~CountFrame /\ ~Again
    BY <2>4 DEF RecordNext, Create, OpenFails, Capture, Log, Row, LimitReached, Interrupted,
       LogInterrupted, Finalize, FinalizeRest, Abandon, Kill, OtherProgram, allVars, recordVars
  <2>5. QED
    BY <2>1, <2>2, <2>3, <2>4
<1>4. rows' \in Seq(Nat) /\ sampled' \in Seq(Nat)
  <2>1. CASE Log
    BY <1>2, <2>1, AppendProperties DEF Log, TypeInv
  <2>2. CASE Row
    BY <1>2, <2>2, AppendProperties DEF Row, TypeInv
  <2>3. CASE ~Log /\ ~Row
    BY <2>3 DEF RecordNext, Create, Open, OpenFails, Capture, CountFrame, LimitReached, Interrupted,
       LogInterrupted, Finalize, FinalizeRest, Abandon, Kill, Again, OtherProgram, allVars,
       recordVars, TypeInv
  <2>4. QED
    BY <2>1, <2>2, <2>3
<1>5. QED
  BY <1>1, <1>3, <1>4 DEF TypeInv

-----------------------------------------------------------------------------
(* Which lines are whose.                                                  *)

\* An interrupt inside log_action has left a frame noted without its line.
Unlogged == pc = "verify" /\ count \in logged

\* The last n lines are of take t.
TailIsOf(lines, t, n) ==
    /\ n <= Len(lines)
    /\ \A i \in 1..Len(lines) : i > Len(lines) - n => lines[i].take = t

\* Some n lines in a row are of take t.
HoldsRun(lines, t, n) ==
    \E b \in Nat : /\ b + n <= Len(lines)
                  /\ \A i \in 1..Len(lines) : b < i /\ i <= b + n => lines[i].take = t

\* As long as every line parses, the writer's own lines are the last ones, and
\* meta.json counts lines of its take.
LogInv ==
    Parses =>
        /\ writer = "open" /\ ~Unlogged => TailIsOf(actions, take, Cardinality(logged))
        /\ meta # None => HoldsRun(actions, meta.take, meta.frames)

LEMMA LoggedFinite ==
    ASSUME TypeInv
    PROVE  IsFiniteSet(logged) /\ Cardinality(logged) \in Nat
<1>1. logged \subseteq 0..(MaxFrames - 1) /\ MaxFrames - 1 \in Int
  BY Bounds DEF TypeInv, ReplayTypeOK, FrameIndices
<1>2. IsFiniteSet(0..(MaxFrames - 1))
  BY <1>1, FS_Interval
<1>3. QED
  BY <1>1, <1>2, FS_Subset, FS_CardinalityType

\* Lines that are kept keep what they are part of.
LEMMA RunKept ==
    ASSUME NEW S, actions \in Seq(S), NEW line \in S, LogLine(line),
           NEW t, NEW n \in Nat, HoldsRun(actions, t, n)
    PROVE  HoldsRun(actions', t, n)
<1>1. Len(actions) \in Nat /\ Len(actions') \in Nat
  BY LogLineIs, LenProperties
<1>2. CASE actions' = actions
  BY <1>2
<1>3. CASE /\ Len(actions') = Len(actions) + 1
           /\ \A i \in 1..Len(actions) : actions'[i] = actions[i]
  <2>1. PICK b \in Nat : /\ b + n <= Len(actions)
                        /\ \A i \in 1..Len(actions) : b < i /\ i <= b + n => actions[i].take = t
    BY DEF HoldsRun
  <2>2. b + n <= Len(actions')
    BY <1>1, <1>3, <2>1
  <2>3. ASSUME NEW i \in 1..Len(actions'), b < i, i <= b + n PROVE actions'[i].take = t
    <3>1. i \in 1..Len(actions)
      BY <1>1, <2>1, <2>3
    <3>2. QED
      BY <1>3, <2>1, <2>3, <3>1
  <2>4. QED
    BY <2>2, <2>3 DEF HoldsRun
<1>4. QED
  BY <1>2, <1>3, LogLineIs

LEMMA ParsesBefore ==
    ASSUME NEW S, actions \in Seq(S), NEW line \in S, LogLine(line), Parses'
    PROVE  /\ Parses
           /\ Len(actions') = Len(actions) + 1
           /\ \A i \in 1..Len(actions) : actions'[i] = actions[i]
           /\ actions'[Len(actions) + 1] = line
           /\ line # Torn
<1>1. /\ DOMAIN actions = 1..Len(actions) /\ DOMAIN actions' = 1..Len(actions')
      /\ Len(actions) \in Nat
  BY LogLineIs, LenProperties
<1>2. CASE actions' = actions /\ ~Parses
  BY <1>2 DEF Parses
<1>3. CASE /\ Len(actions') = Len(actions) + 1
           /\ \A i \in 1..Len(actions) : actions'[i] = actions[i]
           /\ actions'[Len(actions) + 1] = line
  <2>1. Len(actions) + 1 \in DOMAIN actions' /\ \A i \in DOMAIN actions : i \in DOMAIN actions'
    BY <1>1, <1>3
  <2>2. QED
    BY <1>1, <1>3, <2>1 DEF Parses
<1>4. QED
  BY <1>2, <1>3, LogLineIs

LEMMA TailGrows ==
    ASSUME NEW S, actions \in Seq(S), NEW line \in S, LogLine(line), Parses',
           NEW t, line.take = t, NEW n \in Nat, TailIsOf(actions, t, n)
    PROVE  TailIsOf(actions', t, n + 1)
<1>1. Len(actions) \in Nat
  BY LenProperties
<1>2. ASSUME NEW i \in 1..Len(actions'), i > Len(actions') - (n + 1)
      PROVE  actions'[i].take = t
  <2>1. CASE i = Len(actions) + 1
    BY <2>1, ParsesBefore
  <2>2. CASE i # Len(actions) + 1
    <3>1. i \in 1..Len(actions) /\ i > Len(actions) - n
      BY <1>1, <1>2, <2>2, ParsesBefore
    <3>2. QED
      BY <3>1, ParsesBefore DEF TailIsOf
  <2>3. QED
    BY <2>1, <2>2
<1>3. n + 1 <= Len(actions')
  BY <1>1, ParsesBefore DEF TailIsOf
<1>4. QED
  BY <1>2, <1>3 DEF TailIsOf

\* What finalize counts are the writer's own lines.
LEMMA TailIsRun ==
    ASSUME NEW S, NEW lines \in Seq(S), NEW t, NEW n \in Nat,
           TailIsOf(lines, t, n) \/ n = 0
    PROVE  HoldsRun(lines, t, n)
<1>1. Len(lines) \in Nat
  BY LenProperties
<1>2. CASE n = 0
  <2>1. 0 + n <= Len(lines) /\ \A i \in 1..Len(lines) : 0 < i /\ i <= 0 + n => lines[i].take = t
    BY <1>1, <1>2
  <2>2. QED
    BY <2>1 DEF HoldsRun
<1>3. CASE TailIsOf(lines, t, n)
  <2>1. Len(lines) - n \in Nat /\ (Len(lines) - n) + n <= Len(lines)
    BY <1>1, <1>3 DEF TailIsOf
  <2>2. \A i \in 1..Len(lines) : Len(lines) - n < i => lines[i].take = t
    BY <1>1, <1>3 DEF TailIsOf
  <2>3. QED
    BY <2>1, <2>2 DEF HoldsRun
<1>4. QED
  BY <1>2, <1>3

LEMMA LogStep ==
    ASSUME TypeInv, LogInv, [RecordNext]_allVars
    PROVE  LogInv'
<1> SUFFICES ASSUME Parses'
             PROVE  /\ writer' = "open" /\ ~Unlogged'
                          => TailIsOf(actions', take', Cardinality(logged'))
                    /\ meta' # None => HoldsRun(actions', meta'.take, meta'.frames)
  BY DEF LogInv
<1> DEFINE Tail1 == writer' = "open" /\ ~Unlogged'
                          => TailIsOf(actions', take', Cardinality(logged'))
           Run1 == meta' # None => HoldsRun(actions', meta'.take, meta'.frames)
<1>0. /\ actions \in Seq(Entry) /\ Len(actions) \in Nat
      /\ IsFiniteSet(logged) /\ Cardinality(logged) \in Nat
      /\ meta # None => meta.frames \in Nat
  BY LoggedFinite, LenProperties, Bounds DEF TypeInv, ReplayTypeOK, Entry
<1>1. CASE OpenWriter
  <2>1. TailIsOf(actions', take', Cardinality(logged'))
    BY <1>0, <1>1, FS_EmptySet DEF OpenWriter, disk, TailIsOf
  <2>2. QED
    BY <1>1, <2>1 DEF OpenWriter, disk, LogInv, Parses
<1>2. ASSUME NEW f \in FrameIndices, LogAction(f), ~Unlogged PROVE Tail1 /\ Run1
  <2>1. LogLine(Line(take, f)) /\ Line(take, f) \in Entry /\ Line(take, f).take = take
    BY <1>2, LineType DEF LogAction, Line
  <2>2. Parses
    BY <1>0, <2>1, ParsesBefore
  <2>3. Cardinality(logged') = Cardinality(logged) + 1
    BY <1>0, <1>2, FS_AddElement DEF LogAction
  <2>4. TailIsOf(actions, take, Cardinality(logged))
    BY <1>2, <2>2 DEF LogInv, LogAction
  <2>5. TailIsOf(actions', take, Cardinality(logged) + 1)
    BY <1>0, <2>1, <2>4, TailGrows
  <2>6. take' = take /\ meta' = meta
    BY <1>2 DEF LogAction
  <2>7. Run1
    BY <1>0, <2>1, <2>2, <2>6, RunKept DEF LogInv
  <2>8. QED
    BY <2>3, <2>5, <2>6, <2>7
<1>3. ASSUME NEW n \in 0..MaxFrames, WriteMeta(n), n # 0 => ~Unlogged PROVE Tail1 /\ Run1
  <2>1. n \in Nat /\ actions' = actions /\ Parses
    BY <1>3, Bounds DEF WriteMeta, Parses
  <2>2. TailIsOf(actions, take, n) \/ n = 0
    BY <1>3, <2>1 DEF WriteMeta, Aligned, LogInv
  <2>3. HoldsRun(actions, take, n)
    BY <1>0, <2>1, <2>2, TailIsRun
  <2>4. QED
    BY <1>3, <2>1, <2>3 DEF WriteMeta
<1>4. CASE WriteEvents \/ Stop
  <2>1. writer' = "closed" /\ actions' = actions /\ meta' = meta
    BY <1>4 DEF WriteEvents, Stop, disk
  <2>2. QED
    BY <2>1 DEF LogInv, Parses
<1>5. CASE StopInLine
  BY <1>0, <1>5, ParsesBefore DEF StopInLine, Entry
<1>6. CASE LogInterrupted
  BY <1>6 DEF LogInterrupted, Goto, Unlogged, disk, LogInv, Parses
<1>7. CASE UNCHANGED replayVars /\ (pc # "verify" \/ UNCHANGED allVars)
  BY <1>7 DEF replayVars, disk, writerVars, LogInv, Parses, Unlogged, allVars, recordVars
<1>8. CASE OtherProgram
  <2>1. ~Unlogged /\ ReplayNext
    BY <1>8 DEF OtherProgram, Unlogged
  <2>2. QED
    BY <1>1, <1>2, <1>3, <1>4, <1>5, <2>1 DEF ReplayNext
<1>9. CASE Log
  <2>1. ~Unlogged /\ LogAction(count) /\ count \in FrameIndices
    BY <1>9, Bounds DEF Log, Unlogged, TypeInv, FrameIndices
  <2>2. QED
    BY <1>2, <2>1
<1>10. CASE Finalize
  <2>1. WriteMeta(count) /\ count \in 0..MaxFrames /\ ~Unlogged
    BY <1>10, Bounds DEF Finalize, Unlogged, TypeInv, Verified, WriteMeta, Aligned
  <2>2. QED
    BY <1>3, <2>1
<1>11. QED
  BY <1>1, <1>4, <1>5, <1>6, <1>7, <1>8, <1>9, <1>10
  DEF RecordNext, Create, Open, OpenFails, Capture, Row, CountFrame, LimitReached, Interrupted,
      FinalizeRest, Abandon, Kill, Again, allVars

-----------------------------------------------------------------------------
(* What the recorder leaves, and what becomes of it.                       *)

Numbered(s) == \A i \in 1..Len(s) : s[i] = i - 1
StartsWithOurs(lines, n) == n <= Len(lines) /\ \A i \in 1..n : lines[i] = Line(1, i - 1)

\* The recorder records only where nobody has been before.
FreshInv ==
    /\ ~created => pc = "start"
    /\ ~created \/ pc = "opening" =>
          /\ take = 0 /\ writer = "closed" /\ meta = None /\ events = None /\ finalized = {}
          /\ Len(actions) = 0 /\ Len(rows) = 0 /\ Len(sampled) = 0 /\ count = 0 /\ recorded = {}
    /\ recorded \in {{}, {1}}

RecordingInv ==
    /\ recorded = {1} /\ take = 1 /\ writer = "open" /\ created
    /\ meta = None /\ events = None /\ finalized = {}
    /\ StartsWithOurs(actions, Len(actions))
    /\ Len(sampled) = Len(actions) /\ Numbered(sampled) /\ Numbered(rows)
    /\ pc \in {"loop", "log"} => Len(actions) = count /\ Len(rows) = count /\ logged = 0..(count - 1)
    /\ pc = "row" => Len(actions) = count + 1 /\ Len(rows) = count /\ logged = 0..count
    /\ pc = "count" => Len(actions) = count + 1 /\ Len(rows) = count + 1 /\ logged = 0..count
    /\ pc = "verify" /\ count \notin logged => Len(actions) = count

\* Certified frames have their line, their row and their sample.
Complete(n) ==
    /\ n > 0 /\ StartsWithOurs(actions, n)
    /\ Len(rows) = n /\ Len(sampled) = n /\ Numbered(sampled) /\ Numbered(rows)

FinalizingInv ==
    /\ recorded = {1} /\ take = 1 /\ writer = "meta" /\ created
    /\ meta # None /\ meta.take = 1 /\ meta.frames = count /\ events = None /\ finalized = {}
    /\ Len(actions) = count /\ Complete(count)

\* Others may have come since; they have their own takes.
KeptInv ==
    /\ take >= 1 /\ created
    /\ writer # "closed" => take >= 2
    /\ writer = "meta" => meta # None /\ meta.take = take
    /\ meta # None /\ meta.take = 1 =>
          /\ Complete(meta.frames)
          /\ events # None => events = 1 /\ 1 \in finalized
    /\ 1 \in finalized /\ take = 1 =>
          meta # None /\ meta.take = 1 /\ meta.frames = Len(actions) /\ events # None

RecInv ==
    /\ FreshInv
    /\ pc \in Recording => RecordingInv
    /\ pc = "events" => FinalizingInv
    /\ pc \in {"start", "over"} /\ recorded = {1} => KeptInv

LEMMA Distinct ==
    /\ \A t, n \in Nat : [take |-> t, frames |-> n] # None /\ Line(t, n) # Torn
    /\ \A t \in Nat : t # None
BY ReplayAssumption DEF Line

LEMMA Lengths ==
    ASSUME TypeInv
    PROVE  /\ Len(actions) \in Nat /\ Len(rows) \in Nat /\ Len(sampled) \in Nat
           /\ DOMAIN actions = 1..Len(actions) /\ actions \in Seq(Entry)
           /\ count \in Nat /\ take \in Nat /\ MaxFrames \in Nat /\ MaxTakes \in Nat
           /\ meta # None => meta.frames \in Nat /\ meta.take \in Nat
BY Bounds, LenProperties DEF TypeInv, ReplayTypeOK, Entry

LEMMA InitRec == RecordInit => RecInv
BY DEF RecordInit, ReplayInit, RecInv, FreshInv, Recording

\* The recorder writes a line.
LEMMA RecLog ==
    ASSUME TypeInv, RecInv, Log
    PROVE  RecInv'
<1> USE Lengths
<1>1. RecordingInv /\ pc = "log" /\ pc' = "row"
  BY DEF RecInv, Log, Recording, Goto
<1>2. LogLine(Line(1, count)) /\ Line(1, count) \in Entry
  BY <1>1, LineType DEF Log, LogAction, RecordingInv, TypeInv, FrameIndices
<1>3. Parses
  BY <1>1, Distinct DEF RecordingInv, Parses, StartsWithOurs
<1>4. /\ Len(actions') = Len(actions) + 1
      /\ \A i \in 1..Len(actions) : actions'[i] = actions[i]
      /\ actions'[Len(actions) + 1] = Line(1, count)
  BY <1>2, <1>3, LogLineIs
<1>5. StartsWithOurs(actions', Len(actions'))
  BY <1>1, <1>4 DEF RecordingInv, StartsWithOurs
<1>6. Len(sampled') = Len(actions') /\ Numbered(sampled')
  <2>1. sampled' = Append(sampled, count) /\ sampled \in Seq(Nat)
    BY DEF Log, TypeInv
  <2>2. /\ Len(sampled') = Len(sampled) + 1 /\ sampled'[Len(sampled) + 1] = count
        /\ \A i \in 1..Len(sampled) : sampled'[i] = sampled[i]
    BY <2>1, AppendProperties
  <2>3. QED
    BY <1>1, <1>4, <2>2 DEF RecordingInv, Numbered
<1>7. logged' = 0..count
  BY <1>1 DEF Log, LogAction, RecordingInv
<1>8. UNCHANGED <<created, count, rows, recorded, take, writer, meta, events, finalized>>
  BY DEF Log, LogAction
<1>9. RecordingInv'
  BY <1>1, <1>4, <1>5, <1>6, <1>7, <1>8 DEF RecordingInv, Numbered
<1>10. FreshInv'
  BY <1>1, <1>8, <1>9 DEF RecInv, FreshInv, RecordingInv
<1>11. QED
  BY <1>1, <1>9, <1>10 DEF RecInv, Recording

LEMMA RecRow ==
    ASSUME TypeInv, RecInv, Row
    PROVE  RecInv'
<1> USE Lengths
<1>1. RecordingInv /\ pc = "row" /\ pc' = "count"
  BY DEF RecInv, Row, Recording, Goto
<1>2. /\ Len(rows') = Len(rows) + 1 /\ rows'[Len(rows) + 1] = count
      /\ \A i \in 1..Len(rows) : rows'[i] = rows[i]
  BY AppendProperties DEF Row, TypeInv
<1>3. UNCHANGED <<replayVars, created, count, recorded, sampled>>
  BY DEF Row
<1>4. Numbered(rows')
  BY <1>1, <1>2 DEF RecordingInv, Numbered
<1>5. UNCHANGED <<actions, take, writer, logged, meta, events, finalized>>
  BY <1>3 DEF replayVars, disk, writerVars
<1>6. RecordingInv'
  BY <1>1, <1>2, <1>3, <1>4, <1>5 DEF RecordingInv, Numbered, StartsWithOurs
<1>7. FreshInv'
  BY <1>1, <1>3, <1>6 DEF RecInv, FreshInv, RecordingInv
<1>8. QED
  BY <1>1, <1>6, <1>7 DEF RecInv, Recording

\* The other steps while it records.
LEMMA RecGoesOn ==
    ASSUME TypeInv, RecInv,
           Capture \/ CountFrame \/ LimitReached \/ Interrupted \/ LogInterrupted
    PROVE  RecInv'
<1> USE Lengths
<1>1. RecordingInv /\ pc \in Recording /\ pc' \in Recording
  BY DEF RecInv, Capture, CountFrame, LimitReached, Interrupted, LogInterrupted, Recording, Goto
<1>2. UNCHANGED <<created, rows, recorded, sampled, actions, take, writer, meta, events, finalized>>
  BY DEF Capture, CountFrame, LimitReached, Interrupted, LogInterrupted, replayVars, disk, writerVars
<1>3. RecordingInv'
  <2>1. CASE CountFrame
    BY <1>1, <1>2, <2>1
    DEF CountFrame, RecordingInv, Goto, replayVars, writerVars, StartsWithOurs, Numbered
  <2>2. CASE LogInterrupted
    BY <1>1, <1>2, <2>2 DEF LogInterrupted, RecordingInv, Goto, StartsWithOurs, Numbered
  <2>3. CASE Capture \/ LimitReached \/ Interrupted
    BY <1>1, <1>2, <2>3 DEF Capture, LimitReached, Interrupted, RecordingInv, Goto, replayVars,
       writerVars, StartsWithOurs, Numbered
  <2>4. QED
    BY <2>1, <2>2, <2>3
<1>4. FreshInv'
  BY <1>1, <1>2, <1>3 DEF RecInv, FreshInv, RecordingInv, Recording
<1>5. QED
  BY <1>1, <1>3, <1>4 DEF RecInv, Recording

LEMMA RecFinalize ==
    ASSUME TypeInv, RecInv, Finalize
    PROVE  RecInv'
<1> USE Lengths
<1>1. RecordingInv /\ pc = "verify" /\ pc' = "events"
  BY DEF RecInv, Finalize, Recording, Goto
<1>2. count > 0 /\ Len(rows) = count /\ logged = 0..(count - 1)
  BY DEF Finalize, Verified, WriteMeta, Aligned
<1>3. /\ meta' = [take |-> 1, frames |-> count] /\ writer' = "meta"
      /\ UNCHANGED <<created, count, rows, recorded, sampled, events, actions, take, finalized>>
  BY <1>1 DEF Finalize, WriteMeta, RecordingInv
<1>4. FinalizingInv'
  BY <1>1, <1>2, <1>3, Distinct DEF FinalizingInv, RecordingInv, Complete, Numbered, StartsWithOurs
<1>5. FreshInv'
  BY <1>1, <1>3, <1>4 DEF RecInv, FreshInv, FinalizingInv
<1>6. QED
  BY <1>1, <1>4, <1>5 DEF RecInv, Recording

\* The recorder is over, by its end, an error or a kill.
LEMMA RecEnds ==
    ASSUME TypeInv, RecInv, FinalizeRest \/ Abandon \/ (Kill /\ pc # "opening")
    PROVE  RecInv'
<1> USE Lengths
<1>1. pc' = "over" /\ UNCHANGED <<created, count, rows, recorded, sampled, take, meta>> /\ writer' = "closed"
  BY DEF FinalizeRest, Abandon, Kill, WriteEvents, Stop, StopInLine, Goto, disk
<1>2. CASE pc \in Recording
  <2>1. RecordingInv
    BY <1>2 DEF RecInv
  <2>2. UNCHANGED <<events, finalized>>
    BY <1>2 DEF FinalizeRest, Abandon, Kill, Stop, StopInLine, disk, Recording
  <2>3. KeptInv'
    BY <1>1, <2>1, <2>2 DEF KeptInv, RecordingInv
  <2>4. QED
    BY <1>1, <2>1, <2>3 DEF RecInv, FreshInv, RecordingInv, Recording
<1>3. CASE pc = "events"
  <2>1. FinalizingInv
    BY <1>3 DEF RecInv
  <2>2. actions' = actions /\ (UNCHANGED <<events, finalized>> \/ (events' = 1 /\ finalized' = {1}))
    BY <1>3, <2>1 DEF FinalizeRest, Abandon, Kill, Stop, disk, WriteEvents, FinalizingInv
  <2>3. KeptInv'
    BY <1>1, <2>1, <2>2, Distinct DEF KeptInv, FinalizingInv, Complete, StartsWithOurs, Numbered
  <2>4. QED
    BY <1>1, <2>1, <2>3 DEF RecInv, FreshInv, FinalizingInv, Recording
<1>4. QED
  BY <1>2, <1>3 DEF FinalizeRest, Abandon, Kill, Recording

\* It begins, and does not begin where others have been.
LEMMA RecBegins ==
    ASSUME TypeInv, RecInv,
           Create \/ Open \/ OpenFails \/ (Kill /\ pc = "opening") \/ Again
    PROVE  RecInv'
<1> USE Lengths
<1>1. CASE Create
  BY <1>1 DEF Create, RecInv, FreshInv, KeptInv, Complete, Recording, Goto, replayVars, disk,
     writerVars, StartsWithOurs, Numbered
<1>2. CASE Open
  <2>1. /\ pc = "opening" /\ pc' = "loop" /\ FreshInv
        /\ take' = 1 /\ writer' = "open" /\ logged' = {} /\ recorded' = {1}
        /\ UNCHANGED <<created, count, rows, sampled, meta, events, actions, finalized>>
    BY <1>2 DEF Open, OpenWriter, Goto, RecInv, FreshInv, disk
  <2>2. RecordingInv'
    BY <2>1 DEF FreshInv, RecordingInv, StartsWithOurs, Numbered
  <2>3. QED
    BY <2>1, <2>2 DEF RecInv, FreshInv, Recording
<1>3. CASE OpenFails \/ (Kill /\ pc = "opening")
  BY <1>3 DEF OpenFails, Kill, Goto, RecInv, FreshInv, Recording, replayVars, disk, writerVars
<1>4. CASE Again
  <2>1. KeptInv => KeptInv'
    BY <1>4 DEF Again, KeptInv, Complete, StartsWithOurs, Numbered, replayVars, disk, writerVars
  <2>2. QED
    BY <1>4, <2>1 DEF Again, Goto, RecInv, FreshInv, Recording, replayVars, disk, writerVars
<1>5. QED
  BY <1>1, <1>2, <1>3, <1>4

\* Another program keeps what the recorder has left, or makes it unreadable.
LEMMA OursKept ==
    ASSUME NEW S, actions \in Seq(S), NEW line \in S, LogLine(line),
           NEW n \in Nat, StartsWithOurs(actions, n)
    PROVE  StartsWithOurs(actions', n)
<1>1. Len(actions) \in Nat
  BY LenProperties
<1>2. CASE actions' = actions
  BY <1>2
<1>3. CASE /\ Len(actions') = Len(actions) + 1
           /\ \A i \in 1..Len(actions) : actions'[i] = actions[i]
  BY <1>1, <1>3 DEF StartsWithOurs
<1>4. QED
  BY <1>2, <1>3, LogLineIs

LEMMA RecOthers ==
    ASSUME TypeInv, RecInv, OtherProgram
    PROVE  RecInv'
<1> USE Lengths
<1>1. /\ pc \in {"start", "over"} /\ pc' = pc /\ created'
      /\ UNCHANGED <<count, rows, sampled, recorded>> /\ ReplayNext
  BY DEF OtherProgram
<1>2. FreshInv'
  BY <1>1 DEF RecInv, FreshInv
<1>3. ASSUME recorded = {1} PROVE KeptInv'
  <2>1. KeptInv /\ created
    BY <1>1, <1>3 DEF RecInv, KeptInv
  <2>2. CASE OpenWriter
    BY <1>1, <2>1, <2>2
    DEF OpenWriter, KeptInv, Complete, StartsWithOurs, Numbered, disk
  <2>3. ASSUME NEW line \in Entry, LogLine(line), writer = "open",
               UNCHANGED <<meta, events, take, finalized>>, writer' \in {"open", "closed"}
        PROVE  KeptInv'
    <3>1. ASSUME meta # None, meta.take = 1 PROVE Complete(meta.frames)'
      <4>1. StartsWithOurs(actions, meta.frames)
        BY <2>1, <3>1 DEF KeptInv, Complete
      <4>2. StartsWithOurs(actions', meta.frames)
        BY <2>3, <3>1, <4>1, OursKept
      <4>3. QED
        BY <1>1, <2>1, <2>3, <3>1, <4>2 DEF KeptInv, Complete, Numbered
    <3>2. QED
      BY <1>1, <2>1, <2>3, <3>1 DEF KeptInv
  <2>4. ASSUME NEW f \in FrameIndices, LogAction(f) PROVE KeptInv'
    <3>1. Line(take, f) \in Entry
      BY <2>4, LineType DEF LogAction
    <3>2. QED
      BY <2>3, <2>4, <3>1 DEF LogAction
  <2>5. CASE StopInLine
    BY <2>3, <2>5 DEF StopInLine, Entry
  <2>6. ASSUME NEW n \in 0..MaxFrames, WriteMeta(n) PROVE KeptInv'
    <3>1. meta' = [take |-> take, frames |-> n] /\ take >= 2
      BY <2>1, <2>6 DEF KeptInv, WriteMeta
    <3>2. meta' # None /\ meta'.take = take
      BY <3>1, Distinct, Bounds
    <3>3. writer' = "meta" /\ UNCHANGED <<take, finalized>>
      BY <2>6 DEF WriteMeta
    <3>4. QED
      BY <1>1, <3>1, <3>2, <3>3 DEF KeptInv
  <2>7. CASE WriteEvents
    <3>1. meta # None /\ meta.take # 1 /\ take >= 2
      BY <2>1, <2>7 DEF KeptInv, WriteEvents
    <3>2. QED
      BY <1>1, <2>1, <2>7, <3>1 DEF KeptInv, WriteEvents
  <2>8. CASE Stop
    BY <1>1, <2>1, <2>8 DEF KeptInv, Stop, Complete, StartsWithOurs, Numbered, disk
  <2>9. QED
    BY <1>1, <2>2, <2>4, <2>5, <2>6, <2>7, <2>8 DEF ReplayNext
<1>4. QED
  BY <1>1, <1>2, <1>3 DEF RecInv, Recording

-----------------------------------------------------------------------------

IInv == TypeInv /\ LogInv /\ RecInv

LEMMA NextIInv == IInv /\ [RecordNext]_allVars => IInv'
<1> SUFFICES ASSUME IInv, [RecordNext]_allVars PROVE IInv'
  OBVIOUS
<1>1. TypeInv' /\ LogInv'
  BY TypeStep, LogStep DEF IInv
<1>2. RecInv'
  <2>1. CASE UNCHANGED allVars
    BY <2>1 DEF IInv, RecInv, FreshInv, RecordingInv, FinalizingInv, KeptInv, Complete,
       StartsWithOurs, Numbered, allVars, recordVars, replayVars, disk, writerVars
  <2>2. QED
    BY <2>1, RecLog, RecRow, RecGoesOn, RecFinalize, RecEnds, RecBegins, RecOthers
    DEF IInv, RecordNext
<1>3. QED
  BY <1>1, <1>2 DEF IInv

LEMMA InitIInv == RecordInit => IInv
<1> SUFFICES ASSUME RecordInit PROVE IInv
  OBVIOUS
<1>1. LogInv
  <2>1. meta = None /\ writer = "closed"
    BY DEF RecordInit, ReplayInit
  <2>2. QED
    BY <2>1 DEF LogInv
<1>2. QED
  BY <1>1, InitType, InitRec DEF IInv

\* The conjunction that is inductive: types, the progress of the live writer and
\* what an earlier writer may have left on the disk.
THEOREM InductiveInvariant == RecordSpec => []IInv
<1>1. QED
  BY InitIInv, NextIInv, PTL DEF RecordSpec

\* Every variable of the replay and of its writer keeps its type.
THEOREM TypesHold == RecordSpec => []ReplayTypeOK
<1>1. IInv => ReplayTypeOK
  BY DEF IInv, TypeInv
<1>2. QED
  BY <1>1, InductiveInvariant, PTL

\* memory/replay.py: a replay that reads holds the actions of one take only,
\* for any number of writers that were killed on its directory before.
THEOREM ReadsAreOfOneTake == RecordSpec => []ReadsOneTake
<1>1. IInv => ReadsOneTake
  <2> SUFFICES ASSUME IInv, Readable, meta.frames > 0, NEW i \in DOMAIN actions
               PROVE  actions[i].take = meta.take
    BY DEF ReadsOneTake
  <2>0. TypeInv /\ meta # None /\ Parses
    BY DEF IInv, Readable
  <2>1. /\ Len(actions) \in Nat /\ meta.frames \in Nat /\ i \in 1..Len(actions)
        /\ Len(actions) = meta.frames
    BY <2>0, Lengths DEF Readable, Aligned
  <2>2. PICK b \in Nat :
           /\ b + meta.frames <= Len(actions)
           /\ \A k \in 1..Len(actions) : b < k /\ k <= b + meta.frames => actions[k].take = meta.take
    BY <2>0 DEF IInv, LogInv, HoldsRun
  <2>3. QED
    BY <2>1, <2>2
<1>2. QED
  BY <1>1, InductiveInvariant, PTL

\* scripts/record_session.py: a recording that reads was finalized.
THEOREM ReadingMeansFinalized == RecordSpec => []ReadableMeansFinalized
<1>1. IInv => ReadableMeansFinalized
  <2> SUFFICES ASSUME IInv, Readable, meta.take \in recorded
               PROVE  meta.take \in finalized /\ events = meta.take
    BY DEF ReadableMeansFinalized
  <2>1. recorded = {1} /\ meta.take = 1 /\ meta # None /\ events # None
    BY DEF IInv, RecInv, FreshInv, Readable
  <2>2. pc \in {"start", "over"}
    BY <2>1 DEF IInv, RecInv, TypeInv, Labels, RecordingInv, FinalizingInv, FreshInv
  <2>3. QED
    BY <2>1, <2>2 DEF IInv, RecInv, KeptInv
<1>2. QED
  BY <1>1, InductiveInvariant, PTL

\* A recording that reads has one action and one row per frame, each sampled
\* at its own frame.
THEOREM CertifiedRecordingsAreAligned == RecordSpec => []CertifiedIsAligned
<1>1. IInv => CertifiedIsAligned
  <2> SUFFICES ASSUME IInv, Readable, meta.take \in recorded
               PROVE  /\ [i \in DOMAIN actions |-> actions[i].frame] = rows
                      /\ sampled = rows
                      /\ Len(rows) = meta.frames
    BY DEF CertifiedIsAligned
  <2>1. recorded = {1} /\ meta.take = 1 /\ meta # None /\ events # None
    BY DEF IInv, RecInv, FreshInv, Readable
  <2>2. pc \in {"start", "over"}
    BY <2>1 DEF IInv, RecInv, TypeInv, Labels, RecordingInv, FinalizingInv, FreshInv
  <2>3. Complete(meta.frames)
    BY <2>1, <2>2 DEF IInv, RecInv, KeptInv
  <2>4. /\ Len(actions) = meta.frames /\ DOMAIN actions = 1..Len(actions) /\ meta.frames \in Nat
        /\ rows \in Seq(Nat) /\ sampled \in Seq(Nat)
    BY <2>1, <2>3, Lengths DEF IInv, Readable, Aligned, Complete, TypeInv
  <2>5. \A i \in 1..meta.frames : actions[i].frame = i - 1 /\ rows[i] = i - 1 /\ sampled[i] = i - 1
    <3>1. \A i \in 1..meta.frames : actions[i] = Line(1, i - 1)
      BY <2>3, <2>4 DEF Complete, StartsWithOurs
    <3>2. \A k : Line(1, k).frame = k
      BY DEF Line
    <3>3. QED
      BY <2>3, <2>4, <3>1, <3>2 DEF Complete, Numbered
  <2>6. sampled = rows
    BY <2>3, <2>4, <2>5, SeqEqual DEF Complete
  <2>7. rows = [i \in 1..meta.frames |-> rows[i]]
    BY <2>3, <2>4 DEF Complete
  <2>8. QED
    BY <2>3, <2>4, <2>5, <2>6, <2>7 DEF Complete
<1>2. QED
  BY <1>1, InductiveInvariant, PTL

\* "finalize is what makes the replay complete and readable", of recordings.
THEOREM RecordingsAreReadable == RecordSpec => []RecordingIsReadable
<1>1. IInv => RecordingIsReadable
  <2> SUFFICES ASSUME IInv, take \in recorded, take \in finalized, writer = "closed"
               PROVE  Readable
    BY DEF RecordingIsReadable, FinalizedIsReadable
  <2>1. recorded = {1} /\ take = 1
    BY DEF IInv, RecInv, FreshInv
  <2>2. pc \in {"start", "over"}
    BY <2>1 DEF IInv, RecInv, TypeInv, Labels, RecordingInv, FinalizingInv, FreshInv
  <2>3. /\ meta # None /\ events # None /\ meta.frames = Len(actions) /\ Complete(meta.frames)
    BY <2>1, <2>2 DEF IInv, RecInv, KeptInv
  <2>4. Len(actions) \in Nat /\ DOMAIN actions = 1..Len(actions)
    BY Lengths DEF IInv
  <2>5. \A i \in 1..Len(actions) : actions[i] = Line(1, i - 1) /\ actions[i].frame = i - 1
    <3>1. \A i \in 1..Len(actions) : actions[i] = Line(1, i - 1)
      BY <2>3, <2>4 DEF Complete, StartsWithOurs
    <3>2. \A k : Line(1, k).frame = k
      BY DEF Line
    <3>3. QED
      BY <3>1, <3>2
  <2>6. Parses
    BY <2>4, <2>5, Distinct DEF Parses
  <2>7. LoggedFrames = 0..(Len(actions) - 1)
    <3>1. \A k \in 0..(Len(actions) - 1) : k + 1 \in 1..Len(actions) /\ (k + 1) - 1 = k
      BY <2>4
    <3>2. \A i \in 1..Len(actions) : i - 1 \in 0..(Len(actions) - 1)
      BY <2>4
    <3>3. \A k \in 0..(Len(actions) - 1) : actions[k + 1].frame = k
      BY <2>4, <2>5, <3>1
    <3>4. \A i \in DOMAIN actions : actions[i].frame \in 0..(Len(actions) - 1)
      BY <2>4, <2>5, <3>2
    <3>5. \A k \in 0..(Len(actions) - 1) : \E i \in DOMAIN actions : k = actions[i].frame
      BY <2>4, <3>1, <3>3
    <3>6. QED
      BY <3>4, <3>5 DEF LoggedFrames
  <2>8. QED
    BY <2>3, <2>6, <2>7 DEF Readable, Aligned
<1>2. QED
  BY <1>1, InductiveInvariant, PTL

-----------------------------------------------------------------------------
(* The audit of the dataset: what it counts, and what it leaves behind.    *)

\* Reviews and audits only read a recording: with them it is still a recording,
\* so that what is proved of recordings holds of the audited ones.
THEOREM AuditedRecordingsAreRecordings == DatasetSpec => RecordSpec
<1>1. DatasetInit => RecordInit
  BY DEF DatasetInit
<1>2. [DatasetNext]_datasetVars => [RecordNext]_allVars
  BY DEF DatasetNext, datasetVars, Recorder, Reviewing, Label, Audit, StartAudit, Inspect, Probe,
     FinishReport, AuditDies
<1>3. QED
  BY <1>1, <1>2, PTL DEF DatasetSpec, RecordSpec

Docs == [mode : {"real", "synthetic"}, kind : Kinds,
         outcome : Provisional \cup UNION {Outcomes[k] : k \in Kinds},
         verified : BOOLEAN, full : BOOLEAN]

\* A description of the recorder's schema lies beside the recorder's meta data; it
\* is verified only by a review of that very take.
DocInv ==
    doc # Legacy =>
        /\ doc \in Docs
        /\ meta # None /\ meta.take \in recorded
        /\ doc.verified => reviewed = meta.take
        /\ doc.full => doc.kind = "attempt" /\ doc.outcome \in Endings

LEMMA RecordedGrows == RecordNext => recorded \subseteq recorded'
BY DEF RecordNext, Create, Open, OpenFails, Capture, Log, Row, CountFrame, LimitReached,
   Interrupted, LogInterrupted, Finalize, FinalizeRest, Abandon, Kill, Again, OtherProgram

LEMMA OnlyFinalizeDescribes ==
    RecordNext /\ pc = "verify" /\ pc' = "events" => Finalize
BY DEF RecordNext, Create, Open, OpenFails, Capture, Log, Row, CountFrame, LimitReached,
   Interrupted, LogInterrupted, Finalize, FinalizeRest, Abandon, Kill, Again, OtherProgram, Goto

LEMMA DocStep == IInv /\ DocInv /\ [DatasetNext]_datasetVars => DocInv'
<1> SUFFICES ASSUME IInv, DocInv, [DatasetNext]_datasetVars PROVE DocInv'
  OBVIOUS
<1>1. CASE Recorder
  <2>1. RecordNext /\ reviewed' = reviewed
    BY <1>1 DEF Recorder
  <2>2. CASE pc = "verify" /\ pc' = "events"
    <3>1. Finalize
      BY <2>1, <2>2, OnlyFinalizeDescribes
    <3>2. PICK mode \in {"real", "synthetic"}, kind \in Kinds, outcome \in Provisional :
             doc' = NewDoc(mode, kind, outcome)
      BY <1>1, <2>2 DEF Recorder
    <3>3. doc' \in Docs /\ ~doc'.verified /\ ~doc'.full
      BY <3>2 DEF NewDoc, Docs
    <3>4. meta' = [take |-> take, frames |-> count] /\ recorded' = recorded
      BY <3>1 DEF Finalize, WriteMeta
    <3>5. take \in recorded
      BY <2>2 DEF IInv, RecInv, Recording, RecordingInv
    <3>6. take \in Nat /\ count \in Nat
      BY Lengths DEF IInv
    <3>7. meta' # None /\ meta'.take \in recorded'
      BY <3>4, <3>5, <3>6, Distinct
    <3>8. QED
      BY <3>3, <3>7 DEF DocInv
  <2>3. CASE ~(pc = "verify" /\ pc' = "events")
    <3>1. doc' = IF meta' = meta THEN doc ELSE Legacy
      BY <1>1, <2>3 DEF Recorder
    <3>2. CASE meta' = meta
      BY <2>1, <3>1, <3>2, RecordedGrows DEF DocInv
    <3>3. CASE meta' # meta
      BY <3>1, <3>3 DEF DocInv
    <3>4. QED
      BY <3>2, <3>3
  <2>4. QED
    BY <2>2, <2>3
<1>2. ASSUME NEW outcome \in UNION {Outcomes[k] : k \in Kinds}, NEW full \in BOOLEAN,
             Label(outcome, full)
      PROVE  DocInv'
  <2>1. /\ doc # Legacy /\ doc' = [doc EXCEPT !.outcome = outcome, !.verified = TRUE, !.full = full]
        /\ full => doc.kind = "attempt" /\ outcome \in Endings
        /\ reviewed' = meta.take /\ meta' = meta /\ recorded' = recorded
    BY <1>2 DEF Label, allVars, replayVars, disk, recordVars
  <2>2. /\ doc' \in Docs /\ doc'.kind = doc.kind /\ doc'.outcome = outcome /\ doc'.full = full
    BY <2>1 DEF DocInv, Docs
  <2>3. QED
    BY <2>1, <2>2 DEF DocInv
<1>3. CASE Audit \/ UNCHANGED datasetVars
  <2>1. UNCHANGED <<doc, reviewed, meta, recorded>>
    BY <1>3 DEF Audit, StartAudit, Inspect, Probe, FinishReport, AuditDies, datasetVars, gateVars,
       allVars, replayVars, disk, recordVars
  <2>2. QED
    BY <2>1 DEF DocInv
<1>4. QED
  BY <1>1, <1>2, <1>3 DEF DatasetNext, Reviewing

LEMMA DocAlways == DatasetSpec => [](IInv /\ DocInv)
<1>1. DatasetInit => DocInv
  BY DEF DatasetInit, DocInv
<1>2. DatasetSpec => []IInv
  BY AuditedRecordingsAreRecordings, InductiveInvariant, PTL
<1>3. QED
  BY <1>1, <1>2, DocStep, PTL DEF DatasetSpec

\* evaluation/dataset_gate.py: a recording that an audit may count was finalized,
\* is aligned, and was reviewed after it was recorded.
THEOREM WhatCountsIsReviewed == DatasetSpec => []CountedIsReviewed
<1>1. DocInv /\ ReadableMeansFinalized /\ CertifiedIsAligned => CountedIsReviewed
  BY DEF DocInv, ReadableMeansFinalized, CertifiedIsAligned, CountedIsReviewed, Inspected, Eligible
<1>2. DatasetSpec => [](ReadableMeansFinalized /\ CertifiedIsAligned)
  BY AuditedRecordingsAreRecordings, ReadingMeansFinalized, CertifiedRecordingsAreAligned, PTL
<1>3. QED
  BY <1>1, <1>2, DocAlways, PTL

\* scripts/check_gameplay_dataset.py: training is allowed only while no later audit
\* has been started, whatever that one finds and wherever it dies.
THEOREM PassesAreInvalidated == DatasetSpec => []StalePassIsInvalidated
<1>1. DatasetInit => StalePassIsInvalidated
  BY DEF DatasetInit, StalePassIsInvalidated
<1>2. StalePassIsInvalidated /\ [DatasetNext]_datasetVars => StalePassIsInvalidated'
  BY DEF StalePassIsInvalidated, DatasetNext, datasetVars, gateVars, auditVars, Recorder, Reviewing,
     Label, Audit, StartAudit, Inspect, Probe, FinishReport, AuditDies
<1>3. QED
  BY <1>1, <1>2, PTL DEF DatasetSpec

-----------------------------------------------------------------------------
(* Counting: a finite set of pairs has one element of each rank.           *)

\* What a bijection and an injection say of the number of elements.
LEMMA Renamed ==
    ASSUME NEW S, IsFiniteSet(S), NEW T, NEW f \in [S -> T],
           \A x, y \in S : f[x] = f[y] => x = y,
           \A t \in T : \E x \in S : f[x] = t
    PROVE  IsFiniteSet(T) /\ Cardinality(T) = Cardinality(S)
<1>1. f \in Bijection(S, T)
  BY DEF Bijection, Injection, Surjection, IsInjective
<1>2. ExistsBijection(S, T)
  BY <1>1 DEF ExistsBijection
<1> QED
  BY <1>2, FS_Bijection

LEMMA Embedded ==
    ASSUME NEW S, NEW T, IsFiniteSet(T), NEW f \in [S -> T],
           \A x, y \in S : f[x] = f[y] => x = y
    PROVE  /\ IsFiniteSet(S) /\ Cardinality(S) <= Cardinality(T)
           /\ Cardinality(S) = Cardinality(T) => \A t \in T : \E x \in S : f[x] = t
<1>1. f \in Injection(S, T)
  BY DEF Injection, IsInjective
<1>2. /\ IsFiniteSet(S) /\ Cardinality(S) <= Cardinality(T)
      /\ Cardinality(S) = Cardinality(T) <=> f \in Surjection(S, T)
  BY <1>1, FS_Injection
<1> QED
  BY <1>2 DEF Surjection

Pairs == Int \X Int

LEMMA EarlierIsOrder ==
    /\ \A d \in Pairs : ~Earlier(d, d)
    /\ \A d, e, f \in Pairs : Earlier(d, e) /\ Earlier(e, f) => Earlier(d, f)
    /\ \A d, e \in Pairs : d = e \/ Earlier(d, e) \/ Earlier(e, d)
<1>1. \A d \in Pairs : d = <<d[1], d[2]>> /\ d[1] \in Int /\ d[2] \in Int
  BY DEF Pairs
<1> QED
  BY <1>1 DEF Earlier

Rank(S, d) == Cardinality({e \in S : Earlier(e, d)})

LEMMA RankIncreases ==
    ASSUME NEW S \in SUBSET Pairs, IsFiniteSet(S), NEW d \in S, NEW e \in S, Earlier(d, e)
    PROVE  Rank(S, d) < Rank(S, e)
<1> DEFINE D == {x \in S : Earlier(x, d)}
           E == {x \in S : Earlier(x, e)}
<1>1. D \subseteq E /\ d \in E /\ d \notin D
  BY EarlierIsOrder
<1>2. IsFiniteSet(D) /\ IsFiniteSet(E)
  BY FS_Subset
<1>3. Rank(S, d) = Cardinality(D) /\ Rank(S, e) = Cardinality(E)
  BY DEF Rank
<1> HIDE DEF D, E
<1>4. /\ Cardinality(D) \in Nat /\ Cardinality(E) \in Nat
      /\ Cardinality(D) <= Cardinality(E)
      /\ Cardinality(E) = Cardinality(D) => E = D
  BY <1>1, <1>2, FS_CardinalityType, FS_Subset
<1> QED
  BY <1>1, <1>3, <1>4

LEMMA RankIs ==
    ASSUME NEW S \in SUBSET Pairs, IsFiniteSet(S)
    PROVE  /\ Cardinality(S) \in Nat
           /\ \A d \in S : Rank(S, d) \in 0..(Cardinality(S) - 1)
           /\ \A d, e \in S : Earlier(d, e) <=> Rank(S, d) < Rank(S, e)
           /\ \A d, e \in S : Rank(S, d) = Rank(S, e) => d = e
           /\ \A n \in 0..(Cardinality(S) - 1) : \E d \in S : Rank(S, d) = n
<1>1. Cardinality(S) \in Nat
  BY FS_CardinalityType
<1>2. ASSUME NEW d \in S PROVE Rank(S, d) \in 0..(Cardinality(S) - 1)
  <2> DEFINE D == {x \in S : Earlier(x, d)}
  <2>1. D \subseteq S /\ d \notin D
    BY EarlierIsOrder
  <2>2. Rank(S, d) = Cardinality(D)
    BY DEF Rank
  <2> HIDE DEF D
  <2>3. /\ Cardinality(D) \in Nat /\ Cardinality(D) <= Cardinality(S)
        /\ Cardinality(S) = Cardinality(D) => S = D
    BY <2>1, FS_Subset, FS_CardinalityType
  <2> QED
    BY <1>1, <2>1, <2>2, <2>3
<1>3. \A d, e \in S : Earlier(d, e) => Rank(S, d) < Rank(S, e)
  BY RankIncreases
<1>4. \A d, e \in S : d = e \/ Earlier(d, e) \/ Earlier(e, d)
  BY EarlierIsOrder
<1>5. ASSUME NEW d \in S, NEW e \in S
      PROVE  /\ Earlier(d, e) <=> Rank(S, d) < Rank(S, e)
             /\ Rank(S, d) = Rank(S, e) => d = e
  <2>1. Rank(S, d) \in Nat /\ Rank(S, e) \in Nat
    BY <1>1, <1>2
  <2>2. Earlier(d, e) => Rank(S, d) < Rank(S, e)
    BY <1>3
  <2>3. Earlier(e, d) => Rank(S, e) < Rank(S, d)
    BY <1>3
  <2> QED
    BY <1>4, <2>1, <2>2, <2>3
<1>6. \A n \in 0..(Cardinality(S) - 1) : \E d \in S : Rank(S, d) = n
  <2> DEFINE T == 0..(Cardinality(S) - 1)
             f == [d \in S |-> Rank(S, d)]
  <2>1. f \in [S -> T] /\ \A d, e \in S : f[d] = f[e] => d = e
    BY <1>2, <1>5
  <2>2. IsFiniteSet(T) /\ Cardinality(T) = Cardinality(S)
    BY <1>1, FS_Interval
  <2>3. \A d \in S : f[d] = Rank(S, d)
    OBVIOUS
  <2> HIDE DEF f, T
  <2>4. \A n \in T : \E d \in S : f[d] = n
    BY <2>1, <2>2, Embedded
  <2> QED
    BY <2>3, <2>4 DEF T
<1> QED
  BY <1>1, <1>2, <1>5, <1>6

\* As many elements have a rank below w as there can be.
LEMMA FirstOnesAre ==
    ASSUME NEW S \in SUBSET Pairs, IsFiniteSet(S), NEW w \in Nat, w <= Cardinality(S)
    PROVE  LET first == {d \in S : Rank(S, d) < w} IN
           IsFiniteSet(first) /\ Cardinality(first) = w
<1> DEFINE first == {d \in S : Rank(S, d) < w}
           T == 0..(w - 1)
           f == [d \in first |-> Rank(S, d)]
<1>1. /\ Cardinality(S) \in Nat
      /\ \A d \in S : Rank(S, d) \in 0..(Cardinality(S) - 1)
      /\ \A d, e \in S : Rank(S, d) = Rank(S, e) => d = e
      /\ \A n \in 0..(Cardinality(S) - 1) : \E d \in S : Rank(S, d) = n
  BY RankIs
<1>2. IsFiniteSet(first)
  BY FS_Subset
<1>3. f \in [first -> T] /\ \A d, e \in first : f[d] = f[e] => d = e
  BY <1>1
<1>4. \A n \in T : \E d \in first : f[d] = n
  <2> SUFFICES ASSUME NEW n \in T PROVE \E d \in first : f[d] = n
    OBVIOUS
  <2>1. n \in 0..(Cardinality(S) - 1) /\ n < w
    BY <1>1
  <2>2. PICK d \in S : Rank(S, d) = n
    BY <1>1, <2>1
  <2> QED
    BY <2>1, <2>2
<1>5. IsFiniteSet(T) /\ Cardinality(T) = w
  BY FS_Interval
<1> HIDE DEF first, f, T
<1>6. Cardinality(T) = Cardinality(first)
  BY <1>2, <1>3, <1>4, Renamed
<1> QED
  BY <1>2, <1>5, <1>6 DEF first

-----------------------------------------------------------------------------
(* The deals: in each stratum the rounds from the first one to its quota.  *)

\* A set of numbers from 1 that has all before each of its members.
LEMMA FirstNumbers ==
    ASSUME NEW n \in Nat, NEW R \in SUBSET (1..n), \A x \in R : \A y \in 1..x : y \in R
    PROVE  IsFiniteSet(R) /\ R = 1..Cardinality(R)
<1>1. IsFiniteSet(R) /\ Cardinality(R) \in Nat
  <2>1. IsFiniteSet(1..n)
    BY FS_Interval
  <2> QED
    BY <2>1, FS_Subset, FS_CardinalityType
<1>2. ASSUME NEW x \in R PROVE x \in 1..Cardinality(R)
  <2>1. x \in 1..n /\ 1..x \subseteq R
    OBVIOUS
  <2>2. Cardinality(1..x) = x
    BY <2>1, FS_Interval
  <2>3. Cardinality(1..x) <= Cardinality(R)
    BY <1>1, <2>1, FS_Subset
  <2> QED
    BY <1>1, <2>1, <2>2, <2>3
<1>3. IsFiniteSet(1..Cardinality(R)) /\ Cardinality(1..Cardinality(R)) = Cardinality(R)
  BY <1>1, FS_Interval
<1> QED
  BY <1>1, <1>2, <1>3, FS_Subset

Dealt(deals, wanted) == {d \in deals : Rank(deals, d) < wanted}
InStratum(dealt, k) == {d \in dealt : d[2] = k}

LEMMA DealsAre ==
    ASSUME NEW G \in SUBSET Nat, IsFiniteSet(G), NEW sizes \in [G -> Nat \ {0}], NEW wanted \in Nat
    PROVE  LET deals == Deals(sizes, wanted) IN
           /\ IsFiniteSet(deals) /\ deals \in SUBSET Pairs
           /\ \A d \in deals : d = <<d[1], d[2]>> /\ d[1] \in 1..wanted /\ d[2] \in G
           /\ \A r, k : <<r, k>> \in deals <=> r \in 1..wanted /\ k \in G /\ r <= sizes[k]
<1> DEFINE deals == Deals(sizes, wanted)
<1>1. deals = {d \in (1..wanted) \X G : d[1] <= sizes[d[2]]}
  BY DEF Deals
<1>2. IsFiniteSet((1..wanted) \X G)
  <2>1. IsFiniteSet(1..wanted)
    BY FS_Interval
  <2> QED
    BY <2>1, FS_Product
<1>3. IsFiniteSet(deals)
  BY <1>1, <1>2, FS_Subset
<1> HIDE DEF deals
<1>4. \A d \in deals : d = <<d[1], d[2]>> /\ d[1] \in 1..wanted /\ d[2] \in G
  BY <1>1
<1>5. deals \in SUBSET Pairs
  BY <1>4 DEF Pairs
<1>6. \A r, k : <<r, k>> \in deals <=> r \in 1..wanted /\ k \in G /\ r <= sizes[k]
  BY <1>1
<1> QED
  BY <1>3, <1>4, <1>5, <1>6 DEF deals

LEMMA RoundsAre ==
    ASSUME NEW G \in SUBSET Nat, IsFiniteSet(G), NEW sizes \in [G -> Nat \ {0}], NEW wanted \in Nat,
           Cardinality(G) <= wanted, wanted <= Cardinality(Deals(sizes, wanted))
    PROVE  LET dealt == Dealt(Deals(sizes, wanted), wanted)
               q(k)  == Cardinality(InStratum(dealt, k))
           IN
           /\ IsFiniteSet(dealt) /\ Cardinality(dealt) = wanted
           /\ \A d \in dealt : d = <<d[1], d[2]>> /\ d[1] \in Nat /\ d[2] \in G
           /\ \A k \in G : q(k) \in 1..sizes[k] /\ \A r : <<r, k>> \in dealt <=> r \in 1..q(k)
           /\ \A j, k \in G : q(k) < sizes[k] => q(j) <= q(k) + 1
<1> DEFINE deals == Deals(sizes, wanted)
           dealt == Dealt(deals, wanted)
           q(k) == Cardinality(InStratum(dealt, k))
<1>1. /\ IsFiniteSet(deals) /\ deals \in SUBSET Pairs
      /\ \A d \in deals : d = <<d[1], d[2]>> /\ d[1] \in 1..wanted /\ d[2] \in G
      /\ \A r, k : <<r, k>> \in deals <=> r \in 1..wanted /\ k \in G /\ r <= sizes[k]
  BY DealsAre
<1> HIDE DEF deals
<1>2. IsFiniteSet(dealt) /\ Cardinality(dealt) = wanted
  BY <1>1, FirstOnesAre DEF Dealt, deals
<1>3. dealt \subseteq deals /\ \A d \in deals : d \in dealt <=> Rank(deals, d) < wanted
  BY DEF Dealt
<1>4. ASSUME NEW d \in dealt, NEW e \in deals, Earlier(e, d)
      PROVE  e \in dealt
  <2>1. d \in deals /\ Rank(deals, d) < wanted
    BY <1>3
  <2>2. /\ Rank(deals, e) < Rank(deals, d)
        /\ Rank(deals, e) \in Int /\ Rank(deals, d) \in Int
    BY <1>1, <1>4, <2>1, RankIs
  <2> QED
    BY <1>3, <2>1, <2>2
<1> HIDE DEF dealt
<1>5. ASSUME NEW k \in G
      PROVE  \A r : <<r, k>> \in dealt <=> r \in 1..q(k)
  <2> DEFINE R == {r \in 1..wanted : <<r, k>> \in dealt}
             f == [r \in R |-> <<r, k>>]
  <2>1. \A r : <<r, k>> \in dealt <=> r \in R
    BY <1>1, <1>3
  <2>2. \A x \in R : \A y \in 1..x : y \in R
    <3> SUFFICES ASSUME NEW x \in R, NEW y \in 1..x, y # x PROVE y \in R
      OBVIOUS
    <3>1. x \in 1..wanted /\ y \in 1..wanted /\ y < x /\ <<x, k>> \in dealt
      OBVIOUS
    <3>2. x <= sizes[k] /\ sizes[k] \in Nat
      BY <1>1, <1>3, <3>1
    <3>3. <<y, k>> \in deals
      BY <1>1, <3>1, <3>2
    <3>4. Earlier(<<y, k>>, <<x, k>>)
      BY <3>1 DEF Earlier
    <3> QED
      BY <1>4, <3>1, <3>3, <3>4
  <2>3. IsFiniteSet(R) /\ R = 1..Cardinality(R)
    <3>1. R \in SUBSET (1..wanted)
      OBVIOUS
    <3> HIDE DEF R
    <3> QED
      BY <2>2, <3>1, FirstNumbers
  <2>4. f \in [R -> InStratum(dealt, k)] /\ \A x, y \in R : f[x] = f[y] => x = y
    BY DEF InStratum
  <2>5. \A d \in InStratum(dealt, k) : \E r \in R : f[r] = d
    <3> SUFFICES ASSUME NEW d \in InStratum(dealt, k) PROVE \E r \in R : f[r] = d
      OBVIOUS
    <3>1. d \in dealt /\ d = <<d[1], k>> /\ d[1] \in 1..wanted
      BY <1>1, <1>3 DEF InStratum
    <3> QED
      BY <3>1
  <2> HIDE DEF R, f
  <2>6. Cardinality(InStratum(dealt, k)) = Cardinality(R)
    BY <2>3, <2>4, <2>5, Renamed
  <2> QED
    BY <2>1, <2>3, <2>6
<1>6. ASSUME NEW k \in G PROVE q(k) \in 1..sizes[k]
  <2>1. q(k) \in Nat
    <3>1. IsFiniteSet(InStratum(dealt, k))
      BY <1>2, FS_Subset DEF InStratum
    <3> QED
      BY <3>1, FS_CardinalityType
  <2>2. <<1, k>> \in dealt
    <3> DEFINE E == {e \in deals : Earlier(e, <<1, k>>)}
               H == G \ {k}
               f == [e \in E |-> e[2]]
    <3>1. IsFiniteSet(H) /\ Cardinality(H) = Cardinality(G) - 1
      BY FS_RemoveElement
    <3>2. \A e \in E : e = <<1, e[2]>> /\ e[2] \in H
      BY <1>1 DEF Earlier
    <3>3. f \in [E -> H] /\ \A x, y \in E : f[x] = f[y] => x = y
      BY <3>2
    <3>4. Rank(deals, <<1, k>>) = Cardinality(E)
      BY DEF Rank
    <3> HIDE DEF E, H, f
    <3>5. Cardinality(E) <= Cardinality(G) - 1
      BY <3>1, <3>3, Embedded
    <3>6. /\ Cardinality(G) \in Nat /\ Cardinality(H) \in Nat
          /\ IsFiniteSet(E) /\ Cardinality(E) \in Nat
      BY <3>1, <3>3, Embedded, FS_CardinalityType
    <3>7. 1 \in 1..wanted /\ 1 <= sizes[k]
      BY <3>1, <3>6
    <3> QED
      BY <1>1, <1>3, <3>4, <3>5, <3>6, <3>7
  <2>3. 1 <= q(k)
    BY <1>5, <2>2
  <2>4. <<q(k), k>> \in dealt
    BY <1>5, <2>1, <2>3
  <2> QED
    BY <1>1, <1>3, <2>1, <2>3, <2>4
<1>7. ASSUME NEW j \in G, NEW k \in G, q(k) < sizes[k]
      PROVE  q(j) <= q(k) + 1
  <2> SUFFICES ASSUME ~(q(j) <= q(k) + 1) PROVE FALSE
    OBVIOUS
  <2> DEFINE a == q(j)
             b == q(k)
  <2>1. a \in Nat /\ b \in Nat /\ b + 1 < a /\ 1 <= a /\ b + 1 <= sizes[k]
    BY <1>6, <1>7
  <2>2. <<a, j>> \in dealt
    BY <1>5, <2>1
  <2> HIDE DEF a
  <2>3. a \in 1..wanted
    BY <1>1, <1>3, <2>2
  <2>4. <<b + 1, k>> \in deals
    BY <1>1, <2>1, <2>3
  <2>5. Earlier(<<b + 1, k>>, <<a, j>>)
    BY <2>1 DEF Earlier
  <2>6. <<b + 1, k>> \in dealt
    BY <1>4, <2>2, <2>4, <2>5
  <2> QED
    BY <1>5, <2>1, <2>6
<1>8. \A d \in dealt : d = <<d[1], d[2]>> /\ d[1] \in Nat /\ d[2] \in G
  BY <1>1, <1>3
<1> QED
  BY <1>2, <1>5, <1>6, <1>7, <1>8 DEF deals, dealt

-----------------------------------------------------------------------------
(* The strata: each frame is in one of them, and has a rank there.         *)

Counted(segments) == \A j \in DOMAIN segments : FrameCount(segments[j]) \in Nat

LEMMA FramesAre ==
    ASSUME NEW S, NEW segments \in Seq(S), Counted(segments)
    PROVE  /\ IsFiniteSet(Frames(segments)) /\ Frames(segments) \in SUBSET Pairs
           /\ \A f \in Frames(segments) : f[1] \in DOMAIN segments
<1> DEFINE FramesOf(j) == {j} \X (0..(FrameCount(segments[j]) - 1))
           All == {FramesOf(j) : j \in DOMAIN segments}
           g == [j \in DOMAIN segments |-> FramesOf(j)]
<1>1. DOMAIN segments \subseteq Nat /\ IsFiniteSet(DOMAIN segments)
  <2>1. DOMAIN segments = 1..Len(segments) /\ Len(segments) \in Nat
    OBVIOUS
  <2> QED
    BY <2>1, FS_Interval
<1>2. \A j \in DOMAIN segments : IsFiniteSet(FramesOf(j))
  <2> SUFFICES ASSUME NEW j \in DOMAIN segments PROVE IsFiniteSet(FramesOf(j))
    OBVIOUS
  <2>1. FrameCount(segments[j]) - 1 \in Int
    BY DEF Counted
  <2>2. IsFiniteSet(0..(FrameCount(segments[j]) - 1))
    BY <2>1, FS_Interval
  <2>3. IsFiniteSet({j})
    BY FS_Singleton
  <2> QED
    BY <2>2, <2>3, FS_Product
<1>3. g \in Surjection(DOMAIN segments, All)
  BY DEF Surjection
<1>4. IsFiniteSet(All) /\ \A T \in All : IsFiniteSet(T)
  <2>1. IsFiniteSet(All)
    <3> HIDE DEF g, All
    <3> QED
      BY <1>1, <1>3, FS_Surjection
  <2> QED
    BY <1>2, <2>1
<1>5. Frames(segments) = UNION All
  BY DEF Frames
<1>6. ASSUME NEW f \in Frames(segments)
      PROVE  f \in Pairs /\ f[1] \in DOMAIN segments
  <2>1. PICK j \in DOMAIN segments : f \in FramesOf(j)
    BY <1>5
  <2> QED
    BY <1>1, <2>1 DEF Pairs
<1> HIDE DEF All
<1>7. IsFiniteSet(UNION All)
  BY <1>4, FS_UNION
<1> QED
  BY <1>5, <1>6, <1>7

LEMMA StrataAre ==
    ASSUME NEW S, NEW segments \in Seq(S), Counted(segments), AllListed(segments)
    PROVE  /\ IsFiniteSet(Groups(segments)) /\ Groups(segments) \in SUBSET Nat
           /\ \A k \in Groups(segments) :
                 /\ Stratum(segments, k) \in SUBSET Frames(segments)
                 /\ Stratum(segments, k) \in SUBSET Pairs /\ IsFiniteSet(Stratum(segments, k))
                 /\ Stratum(segments, k) # {}
           /\ Sizes(segments) \in [Groups(segments) -> Nat \ {0}]
           /\ \A k \in Groups(segments) :
                 Sizes(segments)[k] = Cardinality(Stratum(segments, k))
           /\ \A j, k \in Groups(segments) : \A f \in Stratum(segments, j) :
                 f \in Stratum(segments, k) => j = k
           /\ \A f \in Frames(segments) : \E k \in Groups(segments) : f \in Stratum(segments, k)
<1>1. IsFiniteSet(DOMAIN Strata) /\ DOMAIN Strata \in SUBSET Nat
  <2>1. DOMAIN Strata = 1..Len(Strata) /\ Len(Strata) \in Nat
    BY StrataAssumption
  <2> QED
    BY <2>1, FS_Interval
<1>2. IsFiniteSet(Groups(segments)) /\ Groups(segments) \in SUBSET (DOMAIN Strata)
  <2>1. Groups(segments) \in SUBSET (DOMAIN Strata)
    BY DEF Groups
  <2> QED
    BY <1>1, <2>1, FS_Subset
<1>3. ASSUME NEW k \in Groups(segments)
      PROVE  /\ Stratum(segments, k) \in SUBSET Frames(segments)
             /\ Stratum(segments, k) \in SUBSET Pairs /\ IsFiniteSet(Stratum(segments, k))
             /\ Stratum(segments, k) # {}
             /\ Cardinality(Stratum(segments, k)) \in Nat \ {0}
  <2>1. Stratum(segments, k) \in SUBSET Frames(segments) /\ Stratum(segments, k) # {}
    BY DEF Stratum, Groups
  <2>2. IsFiniteSet(Frames(segments)) /\ Frames(segments) \in SUBSET Pairs
    BY FramesAre
  <2>3. IsFiniteSet(Stratum(segments, k))
    BY <2>1, <2>2, FS_Subset
  <2>4. Cardinality(Stratum(segments, k)) \in Nat \ {0}
    BY <2>1, <2>3, FS_CardinalityType, FS_EmptySet
  <2> QED
    BY <2>1, <2>2, <2>3, <2>4
<1>4. /\ Sizes(segments) \in [Groups(segments) -> Nat \ {0}]
      /\ \A k \in Groups(segments) : Sizes(segments)[k] = Cardinality(Stratum(segments, k))
  BY <1>3 DEF Sizes
<1>5. ASSUME NEW j \in Groups(segments), NEW k \in Groups(segments),
             NEW f \in Stratum(segments, j), f \in Stratum(segments, k)
      PROVE  j = k
  <2>1. Strata[j] = Strata[k]
    BY <1>5 DEF Stratum
  <2> QED
    BY <1>2, <2>1, StrataAssumption
<1>6. ASSUME NEW f \in Frames(segments)
      PROVE  \E k \in Groups(segments) : f \in Stratum(segments, k)
  <2>1. f[1] \in DOMAIN segments
    BY FramesAre
  <2>2. PICK k \in DOMAIN Strata : Strata[k] = <<Kind(segments[f[1]]), Outcome(segments[f[1]])>>
    BY <2>1 DEF AllListed, Listed
  <2>3. f \in Stratum(segments, k)
    BY <2>2 DEF Stratum
  <2> QED
    BY <2>3 DEF Groups
<1> QED
  BY <1>1, <1>2, <1>3, <1>4, <1>5, <1>6

\* There are enough deals: to all frames, or to a stratum that alone has enough.
LEMMA EnoughDeals ==
    ASSUME NEW S, NEW segments \in Seq(S), Counted(segments), AllListed(segments), NEW asked \in Nat
    PROVE  LET wanted == Wanted(segments, asked) IN
           /\ wanted \in Nat /\ Cardinality(Groups(segments)) <= wanted
           /\ wanted <= Cardinality(Deals(Sizes(segments), wanted))
<1> DEFINE G == Groups(segments)
           F == Frames(segments)
           sizes == Sizes(segments)
           wanted == Wanted(segments, asked)
           In(k) == Stratum(segments, k)
           deals == Deals(sizes, wanted)
<1>1. /\ IsFiniteSet(G) /\ G \in SUBSET Nat
      /\ \A k \in G : /\ In(k) \in SUBSET F /\ In(k) \in SUBSET Pairs /\ IsFiniteSet(In(k))
                      /\ In(k) # {}
      /\ sizes \in [G -> Nat \ {0}] /\ \A k \in G : sizes[k] = Cardinality(In(k))
      /\ \A j, k \in G : \A f \in In(j) : f \in In(k) => j = k
      /\ \A f \in F : \E k \in G : f \in In(k)
  BY StrataAre
<1>2. IsFiniteSet(F) /\ F \in SUBSET Pairs
  BY FramesAre
<1>3. Cardinality(G) \in Nat /\ Cardinality(F) \in Nat
  BY <1>1, <1>2, FS_CardinalityType
<1> HIDE DEF G, F, In, sizes
<1>4. Cardinality(G) <= Cardinality(F)
  <2> DEFINE g == [k \in G |-> CHOOSE f \in F : f \in In(k)]
  <2>1. \A k \in G : g[k] \in F /\ g[k] \in In(k)
    BY <1>1
  <2>2. g \in [G -> F] /\ \A j, k \in G : g[j] = g[k] => j = k
    BY <1>1, <2>1
  <2> HIDE DEF g
  <2> QED
    BY <1>2, <2>2, Embedded
<1>5. wanted \in Nat /\ Cardinality(G) <= wanted /\ wanted <= Cardinality(F)
  BY <1>3, <1>4 DEF Wanted, G, F
<1> HIDE DEF wanted
<1>6. /\ IsFiniteSet(deals)
      /\ \A r, k : <<r, k>> \in deals <=> r \in 1..wanted /\ k \in G /\ r <= sizes[k]
  BY <1>1, <1>5, DealsAre
<1> HIDE DEF deals
<1>7. Cardinality(deals) \in Nat
  BY <1>6, FS_CardinalityType
<1>8. CASE \E k \in G : wanted <= sizes[k]
  <2> PICK k \in G : wanted <= sizes[k]
    BY <1>8
  <2> DEFINE R == 1..wanted
             g == [r \in R |-> <<r, k>>]
  <2>1. \A r \in R : <<r, k>> \in deals
    <3>1. sizes[k] \in Nat
      BY <1>1
    <3> QED
      BY <1>5, <1>6, <3>1
  <2>2. g \in [R -> deals] /\ \A x, y \in R : g[x] = g[y] => x = y
    BY <2>1
  <2>3. Cardinality(R) = wanted
    BY <1>5, FS_Interval
  <2> HIDE DEF g, R
  <2>4. wanted <= Cardinality(deals)
    BY <1>6, <2>2, <2>3, Embedded
  <2> QED
    BY <1>5, <2>4 DEF wanted, deals, G, sizes
<1>9. CASE \A k \in G : ~(wanted <= sizes[k])
  <2> DEFINE at == [f \in F |-> CHOOSE k \in G : f \in In(k)]
             g == [f \in F |-> <<Rank(In(at[f]), f) + 1, at[f]>>]
  <2>1. \A f \in F : at[f] \in G /\ f \in In(at[f])
    BY <1>1
  <2> HIDE DEF at
  <2>2. \A k \in G : /\ \A f \in In(k) : Rank(In(k), f) \in 0..(sizes[k] - 1)
                     /\ \A e, f \in In(k) : Rank(In(k), e) = Rank(In(k), f) => e = f
    BY <1>1, RankIs
  <2>3. \A f \in F : g[f] \in deals
    <3> SUFFICES ASSUME NEW f \in F PROVE g[f] \in deals
      OBVIOUS
    <3> DEFINE r == Rank(In(at[f]), f) + 1
    <3>1. at[f] \in G /\ Rank(In(at[f]), f) \in 0..(sizes[at[f]] - 1)
      BY <2>1, <2>2
    <3>2. sizes[at[f]] \in Nat /\ sizes[at[f]] < wanted
      <4>1. sizes \in [G -> Nat \ {0}]
        BY <1>1
      <4>2. sizes[at[f]] \in Nat
        BY <3>1, <4>1
      <4> QED
        BY <1>5, <1>9, <3>1, <4>2
    <3>3. r \in 1..wanted /\ r <= sizes[at[f]]
      BY <1>5, <3>1, <3>2
    <3>4. g[f] = <<r, at[f]>>
      OBVIOUS
    <3> HIDE DEF r, g
    <3> QED
      BY <1>6, <3>1, <3>3, <3>4
  <2>4. \A e, f \in F : g[e] = g[f] => e = f
    <3> SUFFICES ASSUME NEW e \in F, NEW f \in F, g[e] = g[f] PROVE e = f
      OBVIOUS
    <3>1. Rank(In(at[e]), e) + 1 = Rank(In(at[f]), f) + 1 /\ at[e] = at[f]
      OBVIOUS
    <3>2. /\ at[e] \in G /\ e \in In(at[e]) /\ f \in In(at[e])
          /\ Rank(In(at[e]), e) \in Int /\ Rank(In(at[e]), f) \in Int
      BY <2>1, <2>2, <3>1
    <3>3. Rank(In(at[e]), e) = Rank(In(at[e]), f)
      BY <3>1, <3>2
    <3> QED
      BY <2>2, <3>2, <3>3
  <2>5. g \in [F -> deals]
    BY <2>3
  <2> HIDE DEF g
  <2>6. Cardinality(F) <= Cardinality(deals)
    BY <1>6, <2>4, <2>5, Embedded
  <2>7. wanted <= Cardinality(deals)
    BY <1>3, <1>5, <1>7, <2>6
  <2> QED
    BY <1>5, <2>7 DEF wanted, deals, G, sizes
<1> QED
  BY <1>8, <1>9

-----------------------------------------------------------------------------
(* The samples.                                                            *)

\* "Include both ends; integer spacing never selects a frame twice", for strata and
\* quotas of any size.
THEOREM OffsetsIncrease ==
    ASSUME NEW size \in Nat, NEW quota \in Nat, quota > 1, quota <= size
    PROVE  /\ Offset(0, size, quota) = 0 /\ Offset(quota - 1, size, quota) = size - 1
           /\ \A i, j \in 0..(quota - 1) : i < j => Offset(i, size, quota) < Offset(j, size, quota)
<1> DEFINE q == quota - 1
           n == size - 1
<1>1. q \in Nat /\ q > 0 /\ n \in Nat /\ q <= n
  OBVIOUS
<1>2. \A i : Offset(i, size, quota) = (i * n) \div q
  BY DEF Offset
<1> HIDE DEF q, n
<1>3. \A a \in Nat : a \div q \in Int /\ q * (a \div q) <= a /\ a < q * (a \div q) + q
  BY <1>1
<1>4. (0 * n) \div q = 0 /\ (q * n) \div q = n
  BY <1>1
<1>5. ASSUME NEW i \in Nat, NEW j \in Nat, i < j PROVE (i * n) \div q < (j * n) \div q
  <2>1. i * n \in Nat /\ j * n \in Nat /\ j * n >= i * n + n
    BY <1>1, <1>5
  <2> DEFINE a == i * n
             b == j * n
             x == a \div q
             y == b \div q
  <2>2. /\ a \in Nat /\ b \in Nat /\ b >= a + q /\ x \in Int /\ y \in Int
        /\ q * x <= a /\ b < q * y + q
    BY <1>1, <1>3, <2>1
  <2> HIDE DEF a, b, x, y
  <2>3. q * x < q * y
    BY <1>1, <2>2
  <2>4. x < y
    BY <1>1, <2>2, <2>3
  <2>5. QED
    BY <2>4 DEF a, b, x, y
<1>6. q = quota - 1 /\ n = size - 1
  BY DEF q, n
<1>7. Offset(0, size, quota) = 0 /\ Offset(q, size, quota) = n
  BY <1>2, <1>4
<1>8. \A i, j \in 0..(quota - 1) : i < j => Offset(i, size, quota) < Offset(j, size, quota)
  <2> SUFFICES ASSUME NEW i \in 0..(quota - 1), NEW j \in 0..(quota - 1), i < j
               PROVE  Offset(i, size, quota) < Offset(j, size, quota)
    OBVIOUS
  <2>1. i \in Nat /\ j \in Nat
    OBVIOUS
  <2>2. (i * n) \div q < (j * n) \div q
    BY <1>5, <2>1
  <2>3. QED
    BY <1>2, <2>2
<1>9. QED
  BY <1>6, <1>7, <1>8

LEMMA OffsetsAre ==
    ASSUME NEW size \in Nat \ {0}, NEW quota \in 1..size
    PROVE  /\ \A i \in 0..(quota - 1) : Offset(i, size, quota) \in 0..(size - 1)
           /\ \A i, j \in 0..(quota - 1) : Offset(i, size, quota) = Offset(j, size, quota) => i = j
           /\ quota > 1 => Offset(0, size, quota) = 0 /\ Offset(quota - 1, size, quota) = size - 1
<1>1. CASE quota = 1
  <2>1. \A i : Offset(i, size, quota) = size \div 2
    BY <1>1 DEF Offset
  <2>2. size \div 2 \in 0..(size - 1)
    OBVIOUS
  <2>3. \A i, j \in 0..(quota - 1) : i = j
    BY <1>1
  <2> QED
    BY <1>1, <2>1, <2>2, <2>3
<1>2. CASE quota > 1
  <2> DEFINE o(i) == Offset(i, size, quota)
             I == 0..(quota - 1)
  <2>1. o(0) = 0 /\ o(quota - 1) = size - 1 /\ \A i, j \in I : i < j => o(i) < o(j)
    BY <1>2, OffsetsIncrease
  <2>2. \A i \in I : o(i) \in Int
    <3> SUFFICES ASSUME NEW i \in I PROVE o(i) \in Int
      OBVIOUS
    <3>1. o(i) = (i * (size - 1)) \div (quota - 1)
      BY <1>2 DEF Offset
    <3>2. i * (size - 1) \in Int /\ quota - 1 \in Nat /\ quota - 1 > 0
      BY <1>2
    <3> DEFINE a == i * (size - 1)
               b == quota - 1
    <3>3. a \div b \in Int
      <4>1. a \in Int /\ b \in Nat /\ b > 0
        BY <3>2
      <4> HIDE DEF a, b
      <4> QED
        BY <4>1
    <3> QED
      BY <3>1, <3>3
  <2>3. 0 \in I /\ quota - 1 \in I
    BY <1>2
  <2>4. \A i \in I : (i = 0 \/ 0 < i) /\ (i = quota - 1 \/ i < quota - 1)
    OBVIOUS
  <2>5. \A i, j \in I : i = j \/ i < j \/ j < i
    OBVIOUS
  <2> HIDE DEF o, I
  <2>6. \A i \in I : 0 <= o(i) /\ o(i) <= size - 1
    BY <2>1, <2>2, <2>3, <2>4
  <2>7. \A i, j \in I : o(i) = o(j) => i = j
    BY <2>1, <2>2, <2>5
  <2> QED
    BY <2>1, <2>2, <2>6, <2>7 DEF o, I
<1> QED
  BY <1>1, <1>2

\* The i-th sample of stratum k, where there is one.
At(segments, k, n) == CHOOSE f \in Stratum(segments, k) : Rank(Stratum(segments, k), f) = n
Pick(segments, asked, k, i) ==
    At(segments, k, Offset(i, Sizes(segments)[k], Quotas(segments, asked)[k]))

LEMMA LocatedIs ==
    ASSUME NEW S, NEW segments \in Seq(S), Counted(segments), AllListed(segments),
           NEW k \in Groups(segments), NEW n \in 0..(Sizes(segments)[k] - 1)
    PROVE  /\ Located(segments, k, n) = {At(segments, k, n)}
           /\ At(segments, k, n) \in Stratum(segments, k)
           /\ Rank(Stratum(segments, k), At(segments, k, n)) = n
<1> DEFINE F == Stratum(segments, k)
<1>1. F \in SUBSET Pairs /\ IsFiniteSet(F) /\ Sizes(segments)[k] = Cardinality(F)
  BY StrataAre
<1>2. Located(segments, k, n) = {f \in F : Rank(F, f) = n}
  BY DEF Located, Rank
<1>3. At(segments, k, n) = CHOOSE f \in F : Rank(F, f) = n
  BY DEF At
<1> HIDE DEF F
<1>4. /\ \E f \in F : Rank(F, f) = n
      /\ \A e, f \in F : Rank(F, e) = Rank(F, f) => e = f
  BY <1>1, RankIs
<1>5. At(segments, k, n) \in F /\ Rank(F, At(segments, k, n)) = n
  BY <1>3, <1>4
<1> QED
  BY <1>2, <1>4, <1>5 DEF F

LEMMA QuotasAre ==
    ASSUME NEW S, NEW segments \in Seq(S), Counted(segments), AllListed(segments), NEW asked \in Nat
    PROVE  LET wanted == Wanted(segments, asked)
               sizes  == Sizes(segments)
               dealt  == Dealt(Deals(sizes, wanted), wanted)
               q      == Quotas(segments, asked)
           IN
           /\ IsFiniteSet(dealt) /\ Cardinality(dealt) = wanted
           /\ \A d \in dealt : d = <<d[1], d[2]>> /\ d[1] \in Nat /\ d[2] \in Groups(segments)
           /\ DOMAIN q = Groups(segments)
           /\ \A k \in Groups(segments) :
                 q[k] \in 1..sizes[k] /\ \A r : <<r, k>> \in dealt <=> r \in 1..q[k]
           /\ \A j, k \in Groups(segments) : q[k] < sizes[k] => q[j] <= q[k] + 1
<1> DEFINE G == Groups(segments)
           wanted == Wanted(segments, asked)
           sizes == Sizes(segments)
           dealt == Dealt(Deals(sizes, wanted), wanted)
           quota(k) == Cardinality(InStratum(dealt, k))
<1>1. IsFiniteSet(G) /\ G \in SUBSET Nat /\ sizes \in [G -> Nat \ {0}]
  BY StrataAre
<1>2. wanted \in Nat /\ Cardinality(G) <= wanted /\ wanted <= Cardinality(Deals(sizes, wanted))
  BY EnoughDeals
<1>3. Quotas(segments, asked) = [k \in G |-> quota(k)]
  BY DEF Quotas, InStratum, Dealt, Rank
<1> HIDE DEF G, wanted, sizes
<1>4. /\ IsFiniteSet(dealt) /\ Cardinality(dealt) = wanted
      /\ \A d \in dealt : d = <<d[1], d[2]>> /\ d[1] \in Nat /\ d[2] \in G
      /\ \A k \in G : quota(k) \in 1..sizes[k] /\ \A r : <<r, k>> \in dealt <=> r \in 1..quota(k)
      /\ \A j, k \in G : quota(k) < sizes[k] => quota(j) <= quota(k) + 1
  BY <1>1, <1>2, RoundsAre
<1> HIDE DEF dealt, quota
<1> QED
  BY <1>3, <1>4 DEF G, wanted, sizes, dealt

LEMMA PicksAre ==
    ASSUME NEW S, NEW segments \in Seq(S), Counted(segments), AllListed(segments), NEW asked \in Nat,
           NEW k \in Groups(segments)
    PROVE  LET size  == Sizes(segments)[k]
               quota == Quotas(segments, asked)[k]
               F     == Stratum(segments, k)
               p(i)  == Pick(segments, asked, k, i)
           IN
           /\ \A i \in 0..(quota - 1) : /\ p(i) \in F /\ Rank(F, p(i)) = Offset(i, size, quota)
                                        /\ Located(segments, k, Offset(i, size, quota)) = {p(i)}
           /\ \A i, j \in 0..(quota - 1) : p(i) = p(j) => i = j
<1> DEFINE size == Sizes(segments)[k]
           quota == Quotas(segments, asked)[k]
           F == Stratum(segments, k)
           p(i) == Pick(segments, asked, k, i)
<1>1. size \in Nat \ {0}
  BY StrataAre
<1>2. quota \in 1..size
  BY QuotasAre
<1>3. /\ \A i \in 0..(quota - 1) : Offset(i, size, quota) \in 0..(size - 1)
      /\ \A i, j \in 0..(quota - 1) : Offset(i, size, quota) = Offset(j, size, quota) => i = j
  <2> HIDE DEF size, quota
  <2> QED
    BY <1>1, <1>2, OffsetsAre
<1>4. \A i : p(i) = At(segments, k, Offset(i, size, quota))
  BY DEF Pick
<1>5. \A n \in 0..(size - 1) : /\ Located(segments, k, n) = {At(segments, k, n)}
                               /\ At(segments, k, n) \in F /\ Rank(F, At(segments, k, n)) = n
  BY LocatedIs
<1> HIDE DEF size, quota, F, p
<1>6. \A i \in 0..(quota - 1) : /\ p(i) \in F /\ Rank(F, p(i)) = Offset(i, size, quota)
                                /\ Located(segments, k, Offset(i, size, quota)) = {p(i)}
  BY <1>3, <1>4, <1>5
<1>7. \A i, j \in 0..(quota - 1) : p(i) = p(j) => i = j
  BY <1>3, <1>6
<1> QED
  BY <1>6, <1>7 DEF size, quota, F, p

LEMMA SelectedAre ==
    ASSUME NEW S, NEW segments \in Seq(S), Counted(segments), AllListed(segments), NEW asked \in Nat
    PROVE  \A s : s \in Selected(segments, asked) <=>
               \E k \in Groups(segments) : \E i \in 0..(Quotas(segments, asked)[k] - 1) :
                   s = <<k, i, Pick(segments, asked, k, i)>>
<1> DEFINE quotas == Quotas(segments, asked)
           sizes == Sizes(segments)
           Of(k, i) == {k} \X {i} \X Located(segments, k, Offset(i, sizes[k], quotas[k]))
<1>1. Selected(segments, asked) = UNION {UNION {Of(k, i) : i \in 0..(quotas[k] - 1)} : k \in DOMAIN quotas}
  BY DEF Selected
<1>2. DOMAIN quotas = Groups(segments)
  BY DEF Quotas
<1>3. ASSUME NEW k \in Groups(segments), NEW i \in 0..(quotas[k] - 1)
      PROVE  Of(k, i) = {<<k, i, Pick(segments, asked, k, i)>>}
  <2>1. Located(segments, k, Offset(i, sizes[k], quotas[k])) = {Pick(segments, asked, k, i)}
    BY PicksAre
  <2> QED
    BY <2>1
<1> HIDE DEF quotas, Of
<1> QED
  BY <1>1, <1>2, <1>3 DEF quotas

\* select_samples, for segments and sample counts of any size: as many frames as are
\* wanted, none of them twice, each stratum from its first frame to its last, and no
\* stratum more than one sample behind another unless it is exhausted.
THEOREM SelectionCovers ==
    ASSUME NEW S, NEW segments \in Seq(S), Counted(segments), AllListed(segments), NEW asked \in Nat
    PROVE  CoversDataset(segments, asked)
<1> DEFINE G == Groups(segments)
           wanted == Wanted(segments, asked)
           sizes == Sizes(segments)
           dealt == Dealt(Deals(sizes, wanted), wanted)
           q == Quotas(segments, asked)
           p(k, i) == Pick(segments, asked, k, i)
           In(k) == Stratum(segments, k)
           samples == Selected(segments, asked)
           Of(k) == {s[3] : s \in {t \in samples : t[1] = k}}
           Taken == {s[3] : s \in samples}
<1>1. /\ \A k \in G : In(k) \in SUBSET Pairs /\ IsFiniteSet(In(k))
      /\ \A k \in G : sizes[k] = Cardinality(In(k)) /\ sizes[k] \in Nat \ {0}
      /\ \A j, k \in G : \A f \in In(j) : f \in In(k) => j = k
  BY StrataAre
<1>2. /\ IsFiniteSet(dealt) /\ Cardinality(dealt) = wanted
      /\ \A d \in dealt : d = <<d[1], d[2]>> /\ d[1] \in Nat /\ d[2] \in G
      /\ \A k \in G : q[k] \in 1..sizes[k] /\ \A r : <<r, k>> \in dealt <=> r \in 1..q[k]
      /\ \A j, k \in G : q[k] < sizes[k] => q[j] <= q[k] + 1
  BY QuotasAre
<1>3. ASSUME NEW k \in G
      PROVE  /\ \A i \in 0..(q[k] - 1) : /\ p(k, i) \in In(k)
                                         /\ Rank(In(k), p(k, i)) = Offset(i, sizes[k], q[k])
             /\ \A i, j \in 0..(q[k] - 1) : p(k, i) = p(k, j) => i = j
  BY PicksAre
<1>4. \A s : s \in samples <=> \E k \in G : \E i \in 0..(q[k] - 1) : s = <<k, i, p(k, i)>>
  BY SelectedAre
<1>5. \A k \in G : q[k] \in Nat /\ 1 <= q[k] /\ q[k] <= sizes[k] /\ sizes[k] \in Nat
  BY <1>1, <1>2
<1> HIDE DEF G, wanted, sizes, dealt, q, p, In, samples
<1>6. IsFiniteSet(samples) /\ Cardinality(samples) = wanted
  <2> DEFINE g == [d \in dealt |-> <<d[2], d[1] - 1, p(d[2], d[1] - 1)>>]
  <2>1. ASSUME NEW d \in dealt PROVE g[d] \in samples
    <3>1. d = <<d[1], d[2]>> /\ d[2] \in G
      BY <1>2
    <3>2. d[1] \in 1..q[d[2]]
      BY <1>2, <3>1
    <3>3. d[1] - 1 \in 0..(q[d[2]] - 1)
      BY <1>5, <3>1, <3>2
    <3> QED
      BY <1>4, <3>1, <3>3
  <2>2. \A d, e \in dealt : g[d] = g[e] => d = e
    <3> SUFFICES ASSUME NEW d \in dealt, NEW e \in dealt, g[d] = g[e] PROVE d = e
      OBVIOUS
    <3>1. d[2] = e[2] /\ d[1] - 1 = e[1] - 1
      OBVIOUS
    <3>2. d[1] \in Nat /\ e[1] \in Nat
      BY <1>2
    <3>3. d[1] = e[1]
      BY <3>1, <3>2
    <3> QED
      BY <1>2, <3>1, <3>3
  <2>3. ASSUME NEW s \in samples PROVE \E d \in dealt : g[d] = s
    <3> PICK k \in G : \E x \in 0..(q[k] - 1) : s = <<k, x, p(k, x)>>
      BY <1>4
    <3> PICK i \in 0..(q[k] - 1) : s = <<k, i, p(k, i)>>
      OBVIOUS
    <3>1. i + 1 \in 1..q[k] /\ (i + 1) - 1 = i
      BY <1>5
    <3>2. <<i + 1, k>> \in dealt
      BY <1>2, <3>1
    <3>3. g[<<i + 1, k>>] = s
      BY <3>1, <3>2
    <3> QED
      BY <3>2, <3>3
  <2>4. g \in [dealt -> samples]
    BY <2>1
  <2> HIDE DEF g
  <2> QED
    BY <1>2, <2>2, <2>3, <2>4, Renamed
<1>7. Cardinality(Taken) = Cardinality(samples)
  <2> DEFINE h == [s \in samples |-> s[3]]
  <2>1. h \in [samples -> Taken] /\ \A f \in Taken : \E s \in samples : h[s] = f
    OBVIOUS
  <2>2. \A s, t \in samples : h[s] = h[t] => s = t
    <3> SUFFICES ASSUME NEW s \in samples, NEW t \in samples, h[s] = h[t] PROVE s = t
      OBVIOUS
    <3> PICK k \in G : \E x \in 0..(q[k] - 1) : s = <<k, x, p(k, x)>>
      BY <1>4
    <3> PICK i \in 0..(q[k] - 1) : s = <<k, i, p(k, i)>>
      OBVIOUS
    <3> PICK j \in G : \E x \in 0..(q[j] - 1) : t = <<j, x, p(j, x)>>
      BY <1>4
    <3> PICK n \in 0..(q[j] - 1) : t = <<j, n, p(j, n)>>
      OBVIOUS
    <3>1. p(k, i) = p(j, n)
      OBVIOUS
    <3>2. p(k, i) \in In(k) /\ p(j, n) \in In(j)
      BY <1>3
    <3>3. k = j
      BY <1>1, <3>1, <3>2
    <3>4. i = n
      BY <1>3, <3>1, <3>3
    <3> QED
      BY <3>3, <3>4
  <2> HIDE DEF h, Taken
  <2> QED
    BY <1>6, <2>1, <2>2, Renamed
<1>8. ASSUME NEW k \in G
      PROVE  /\ \A f : f \in Of(k) <=> \E i \in 0..(q[k] - 1) : f = p(k, i)
             /\ IsFiniteSet(Of(k)) /\ Cardinality(Of(k)) = q[k] /\ Of(k) \in SUBSET In(k)
  <2> DEFINE I == 0..(q[k] - 1)
             h == [i \in I |-> p(k, i)]
  <2>1. \A f : f \in Of(k) <=> \E i \in I : f = p(k, i)
    <3>1. ASSUME NEW i \in I PROVE p(k, i) \in Of(k)
      <4> DEFINE s == <<k, i, p(k, i)>>
      <4>1. s \in samples /\ s[1] = k /\ s[3] = p(k, i)
        BY <1>4
      <4> QED
        BY <4>1
    <3>2. ASSUME NEW f \in Of(k) PROVE \E i \in I : f = p(k, i)
      <4>1. PICK s \in samples : s[1] = k /\ s[3] = f
        OBVIOUS
      <4> QED
        BY <1>4, <4>1
    <3> QED
      BY <3>1, <3>2
  <2>2. IsFiniteSet(I) /\ Cardinality(I) = q[k]
    <3> DEFINE n == q[k]
    <3>1. n \in Nat
      BY <1>5
    <3> HIDE DEF n
    <3>2. 0 \in Int /\ n - 1 \in Int
      BY <3>1
    <3>3. IsFiniteSet(0..(n - 1)) /\ Cardinality(0..(n - 1)) = IF 0 > n - 1 THEN 0 ELSE (n - 1) - 0 + 1
      BY <3>2, FS_Interval
    <3>4. Cardinality(0..(n - 1)) = n
      BY <3>1, <3>3
    <3> QED
      BY <3>3, <3>4 DEF n
  <2> HIDE DEF Of
  <2>3. h \in [I -> Of(k)] /\ \A f \in Of(k) : \E i \in I : h[i] = f
    BY <2>1
  <2>4. \A i, j \in I : h[i] = h[j] => i = j
    BY <1>3
  <2>5. Of(k) \in SUBSET In(k)
    BY <1>3, <2>1
  <2> HIDE DEF h, I
  <2>6. IsFiniteSet(Of(k)) /\ Cardinality(Of(k)) = q[k]
    BY <2>2, <2>3, <2>4, Renamed
  <2> QED
    BY <2>1, <2>5, <2>6 DEF I
<1> HIDE DEF Of, Taken
<1>9. ASSUME NEW k \in G, Cardinality(Of(k)) > 1, NEW f \in In(k),
             (\A e \in In(k) : ~Earlier(e, f)) \/ (\A e \in In(k) : ~Earlier(f, e))
      PROVE  f \in Of(k)
  <2> DEFINE F == In(k)
             size == sizes[k]
             quota == q[k]
  <2>1. /\ F \in SUBSET Pairs /\ IsFiniteSet(F) /\ size = Cardinality(F)
        /\ size \in Nat \ {0} /\ quota \in 1..size /\ quota > 1
    BY <1>1, <1>5, <1>8, <1>9
  <2>2. 0 \in 0..(quota - 1) /\ quota - 1 \in 0..(quota - 1)
    BY <2>1
  <2>3. /\ p(k, 0) \in F /\ Rank(F, p(k, 0)) = Offset(0, size, quota) /\ p(k, 0) \in Of(k)
        /\ p(k, quota - 1) \in F /\ Rank(F, p(k, quota - 1)) = Offset(quota - 1, size, quota)
        /\ p(k, quota - 1) \in Of(k)
    BY <1>3, <1>8, <2>2
  <2>4. f \in F /\ ((\A e \in F : ~Earlier(e, f)) \/ (\A e \in F : ~Earlier(f, e)))
    BY <1>9
  <2> HIDE DEF F, size, quota
  <2>5. Offset(0, size, quota) = 0 /\ Offset(quota - 1, size, quota) = size - 1
    BY <2>1, OffsetsAre
  <2>6. /\ \A d \in F : Rank(F, d) \in 0..(size - 1)
        /\ \A d, e \in F : Earlier(d, e) <=> Rank(F, d) < Rank(F, e)
        /\ \A d, e \in F : Rank(F, d) = Rank(F, e) => d = e
    BY <2>1, RankIs
  <2>7. Rank(F, f) \in 0..(size - 1)
    BY <2>4, <2>6
  <2>8. CASE \A e \in F : ~Earlier(e, f)
    <3>1. ~(Rank(F, p(k, 0)) < Rank(F, f))
      BY <2>3, <2>4, <2>6, <2>8
    <3>2. Rank(F, f) = Rank(F, p(k, 0))
      BY <2>3, <2>5, <2>7, <3>1
    <3> QED
      BY <2>3, <2>4, <2>6, <3>2
  <2>9. CASE \A e \in F : ~Earlier(f, e)
    <3>1. ~(Rank(F, f) < Rank(F, p(k, quota - 1)))
      BY <2>3, <2>4, <2>6, <2>9
    <3>2. Rank(F, f) = Rank(F, p(k, quota - 1))
      BY <2>1, <2>3, <2>5, <2>7, <3>1
    <3> QED
      BY <2>3, <2>4, <2>6, <3>2
  <2> QED
    BY <2>4, <2>8, <2>9
<1>10. ASSUME NEW k \in G, Of(k) # In(k), NEW j \in G
       PROVE  Cardinality(Of(j)) <= Cardinality(Of(k)) + 1
  <2>1. q[k] # sizes[k]
    <3>1. Cardinality(In(k)) = Cardinality(Of(k)) => In(k) = Of(k)
      BY <1>1, <1>8, FS_Subset
    <3> QED
      BY <1>1, <1>8, <1>10, <3>1
  <2>2. q[k] < sizes[k]
    BY <1>5, <2>1
  <2> QED
    BY <1>2, <1>8, <2>2
<1>11. ASSUME NEW k \in G PROVE Of(k) # {}
  <2>1. 0 \in 0..(q[k] - 1)
    BY <1>5
  <2> QED
    BY <1>8, <2>1
<1>12. \A k \in G :
         /\ Of(k) # {}
         /\ Cardinality(Of(k)) > 1 =>
               {f \in In(k) : (\A e \in In(k) : ~Earlier(e, f)) \/ (\A e \in In(k) : ~Earlier(f, e))}
                   \subseteq Of(k)
         /\ Of(k) # In(k) => \A j \in G : Cardinality(Of(j)) <= Cardinality(Of(k)) + 1
  BY <1>9, <1>10, <1>11
<1> QED
  BY <1>6, <1>7, <1>12 DEF CoversDataset, G, wanted, In, samples, Of, Taken

-----------------------------------------------------------------------------
(* The samples of an audit: what it has found are segments to select from. *)

Segments == (DOMAIN Outcomes) \X (STRING \cup UNION {Outcomes[k] : k \in Kinds})
                \X (Nat \ {0}) \X BOOLEAN

FoundInv == found \in Seq(Segments) /\ AllListed(found)

LEMMA LibraryIs ==
    ASSUME NEW library \in Libraries
    PROVE  library \in Seq(Segments) /\ AllListed(library)
<1> DEFINE T == (DOMAIN Outcomes) \X STRING \X (Nat \ {0}) \X BOOLEAN
<1>1. library \in Seq(T) /\ AllListed(library)
  BY GateAssumption
<1>2. T \subseteq Segments
  BY DEF Segments
<1> HIDE DEF T
<1>3. \A i \in 1..Len(library) : library[i] \in Segments
  BY <1>1, <1>2
<1>4. library \in Seq(Segments)
  BY <1>1, <1>3
<1> QED
  BY <1>1, <1>4

LEMMA OneMore ==
    ASSUME NEW e \in Segments, NEW s \in Seq(Segments)
    PROVE  /\ <<e>> \o s \in Seq(Segments)
           /\ \A i \in DOMAIN (<<e>> \o s) :
                 (<<e>> \o s)[i] = e \/ \E j \in DOMAIN s : (<<e>> \o s)[i] = s[j]
<1> DEFINE t == <<e>> \o s
<1>1. t \in Seq(Segments) /\ Len(t) = Len(s) + 1 /\ Len(s) \in Nat
  OBVIOUS
<1>2. t[1] = e /\ \A j \in 1..Len(s) : t[j + 1] = s[j]
  OBVIOUS
<1> HIDE DEF t
<1>3. ASSUME NEW i \in DOMAIN t PROVE t[i] = e \/ \E j \in DOMAIN s : t[i] = s[j]
  <2>1. i \in 1..(Len(s) + 1)
    BY <1>1
  <2>2. CASE i = 1
    BY <1>2, <2>2
  <2>3. CASE i # 1
    <3>1. i - 1 \in 1..Len(s) /\ (i - 1) + 1 = i
      BY <1>1, <2>1, <2>3
    <3>2. t[i] = s[i - 1] /\ i - 1 \in DOMAIN s
      BY <1>2, <3>1
    <3> QED
      BY <3>2
  <2> QED
    BY <2>2, <2>3
<1> QED
  BY <1>1, <1>3 DEF t

LEMMA OwnIs ==
    ASSUME IInv, DocInv, Inspected, Eligible
    PROVE  Own \in Segments /\ Listed(Kind(Own), Outcome(Own))
<1>1. /\ doc \in Docs /\ doc.outcome \in Outcomes[doc.kind] /\ meta # None /\ meta.frames > 0
  BY DEF DocInv, Inspected, Eligible
<1>2. doc.kind \in Kinds /\ doc.full \in BOOLEAN
  BY <1>1 DEF Docs
<1>3. meta.frames \in Nat
  BY <1>1, Bounds DEF IInv, TypeInv, ReplayTypeOK
<1>4. doc.kind \in DOMAIN Outcomes /\ Listed(doc.kind, doc.outcome)
  BY <1>1, <1>2, GateAssumption
<1>5. doc.outcome \in UNION {Outcomes[k] : k \in Kinds}
  BY <1>1, <1>2
<1>6. Own \in Segments
  BY <1>1, <1>2, <1>3, <1>4, <1>5 DEF Own, Segment, Segments
<1> QED
  BY <1>4, <1>6 DEF Own, Segment, Kind, Outcome

LEMMA FoundStep == IInv /\ DocInv /\ FoundInv /\ [DatasetNext]_datasetVars => FoundInv'
<1> SUFFICES ASSUME IInv, DocInv, FoundInv, [DatasetNext]_datasetVars PROVE FoundInv'
  OBVIOUS
<1>1. ASSUME NEW library \in Libraries, NEW counts \in BOOLEAN, Inspect(library, counts)
      PROVE  FoundInv'
  <2>1. library \in Seq(Segments) /\ AllListed(library)
    BY LibraryIs
  <2>2. CASE counts
    <3>1. found' = <<Own>> \o library /\ Inspected /\ Eligible
      BY <1>1, <2>2 DEF Inspect
    <3>2. Own \in Segments /\ Listed(Kind(Own), Outcome(Own))
      BY <3>1, OwnIs
    <3> DEFINE own == Own
    <3> HIDE DEF own
    <3>3. own \in Segments /\ Listed(Kind(own), Outcome(own)) /\ found' = <<own>> \o library
      BY <3>1, <3>2 DEF own
    <3>4. /\ found' \in Seq(Segments)
          /\ \A i \in DOMAIN found' : found'[i] = own \/ \E j \in DOMAIN library : found'[i] = library[j]
      BY <2>1, <3>3, OneMore
    <3>5. AllListed(found')
      BY <2>1, <3>3, <3>4 DEF AllListed
    <3> QED
      BY <3>4, <3>5 DEF FoundInv, AllListed
  <2>3. CASE ~counts
    <3>1. found' = library
      BY <1>1, <2>3 DEF Inspect
    <3> QED
      BY <2>1, <3>1 DEF FoundInv, AllListed
  <2> QED
    BY <2>2, <2>3
<1>2. CASE FinishReport \/ AuditDies
  <2>1. found' = <<>>
    BY <1>2 DEF FinishReport, AuditDies
  <2>2. <<>> \in Seq(Segments) /\ DOMAIN <<>> = {}
    OBVIOUS
  <2> QED
    BY <2>1, <2>2 DEF FoundInv, AllListed
<1>3. CASE Recorder \/ Reviewing \/ StartAudit \/ Probe \/ UNCHANGED datasetVars
  <2>1. found' = found
    BY <1>3 DEF Recorder, Reviewing, Label, StartAudit, Probe, datasetVars, gateVars, auditVars
  <2> QED
    BY <2>1 DEF FoundInv, AllListed
<1> QED
  BY <1>1, <1>2, <1>3 DEF DatasetNext, Audit

\* "Evenly cover type/boss/phase/outcome strata and time within each stratum": the
\* encoder is probed with such samples whatever segments an audit has found.
THEOREM ProbesCoverTheDataset == DatasetSpec => []SamplesCoverDataset
<1>1. DatasetInit => FoundInv
  <2>1. <<>> \in Seq(Segments) /\ DOMAIN <<>> = {}
    OBVIOUS
  <2> QED
    BY <2>1 DEF DatasetInit, FoundInv, AllListed
<1>2. FoundInv => SamplesCoverDataset
  <2> SUFFICES ASSUME FoundInv PROVE CoversDataset(found, Samples)
    BY DEF SamplesCoverDataset
  <2>1. Counted(found)
    BY DEF Counted, FoundInv, Segments, FrameCount
  <2>2. found \in Seq(Segments) /\ AllListed(found) /\ Samples \in Nat
    BY GateAssumption DEF FoundInv
  <2> QED
    BY <2>1, <2>2, SelectionCovers
<1> QED
  BY <1>1, <1>2, DocAlways, FoundStep, PTL DEF DatasetSpec
=============================================================================
