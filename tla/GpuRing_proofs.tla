---------------------------- MODULE GpuRing_proofs ----------------------------
(***************************************************************************)
(* Theorems about the GPU ring, for every number of slots, every deadline  *)
(* and every interleaving of the CPU thread with the three streams; and    *)
(* about the loop over it, however it is left.                             *)
(***************************************************************************)
EXTENDS ActiveLoop, SequenceTheorems, TLAPS

\* The one fact about % the ring rests on.
LEMMA SlotAfterIs ==
    ASSUME NEW s \in Slots
    PROVE  /\ SlotAfter(s) = IF s = Capacity - 1 THEN 0 ELSE s + 1
           /\ SlotAfter(s) \in Slots
<1>1. Capacity \in Nat /\ Capacity > 1 /\ s \in 0..(Capacity - 1)
  BY RingAssumption DEF Slots
<1>2. CASE s = Capacity - 1
  <2>1. (s + 1) % Capacity = 0
    BY <1>1, <1>2, SMT
  <2>2. QED
    BY <1>1, <1>2, <2>1 DEF SlotAfter, Slots
<1>3. CASE s # Capacity - 1
  <2>1. (s + 1) % Capacity = s + 1
    BY <1>1, <1>3, SMT
  <2>2. QED
    BY <1>1, <1>3, <2>1 DEF SlotAfter, Slots
<1>4. QED
  BY <1>2, <1>3

-----------------------------------------------------------------------------
(* The inductive invariant.                                                *)

\* How many submissions until slot s is taken, if slot next is the next one.
Distance(next, s) == IF s >= next THEN s - next ELSE s - next + Capacity

\* The pending slots are the last ones taken, in order, and so are the numbers
\* on their labels.
RingInv ==
    /\ Len(pending) <= Capacity
    /\ \A i \in 1..Len(pending) :
          /\ Distance(nextSlot, pending[i]) = Capacity - Len(pending) + i - 1
          /\ slot[pending[i]].sequence = sequence - Len(pending) + i - 1

LabelInv ==
    \A s \in Slots :
        /\ host_input[s] = slot[s].frame
        /\ slot[s].sequence <= sequence
        /\ ~faulted => slot[s].sequence < sequence

\* A launch that is not executed belongs to the submission its slot is labelled
\* with, which is pending unless it failed; its event is still to come.
Awaited(q, event, label, ring, failed) ==
    /\ \A i \in 1..Len(q) :
          /\ q[i].sequence = label[q[i].slot].sequence
          /\ event[q[i].slot] < q[i].sequence
          /\ (\E j \in 1..Len(ring) : ring[j] = q[i].slot) \/ failed
    /\ \A i, j \in 1..Len(q) : i < j => q[i].sequence < q[j].sequence

StreamInv ==
    /\ Awaited(copying, copy_done, slot, pending, faulted)
    /\ Awaited(computing, graph_done, slot, pending, faulted)
    /\ Awaited(reading, done, slot, pending, faulted)
    /\ closed => Drained

\* The three events of a slot come in order, and each vouches for a buffer.
EventInv ==
    \A s \in Slots :
        /\ done[s] <= graph_done[s]
        /\ graph_done[s] <= copy_done[s]
        /\ copy_done[s] <= slot[s].sequence
        /\ copy_done[s] = slot[s].sequence => device_input[s] = slot[s].frame
        /\ graph_done[s] = slot[s].sequence => outputs[s] = slot[s].frame
        /\ done[s] = slot[s].sequence => host_outputs[s] = slot[s].frame

IInv == TypeOK /\ RingInv /\ LabelInv /\ StreamInv /\ EventInv /\ ActionIsOfItsFrame

LEMMA Sizes ==
    /\ Capacity \in Nat /\ Capacity > 1
    /\ Budget \in Nat /\ Budget > 0
    /\ MaxSequence \in Nat
    /\ 0 \in Slots
    /\ 0 \in Ages /\ Budget \in Ages
    /\ None \notin Frames
BY RingAssumption DEF Slots, Ages

-----------------------------------------------------------------------------
(* Types.                                                                  *)

LEMMA InitType == Init => TypeOK
BY Sizes DEF Init, TypeOK, NoResult, Contents, Numbers

LEMMA LaunchType ==
    ASSUME TypeOK, NEW k \in 0..3, LaunchFirst(k)
    PROVE  copying' \in Seq(Launches) /\ computing' \in Seq(Launches) /\ reading' \in Seq(Launches)
<1>1. Launch(nextSlot, sequence) \in Launches
  BY DEF TypeOK, Launch, Launches
<1>2. QED
  BY <1>1 DEF LaunchFirst, TypeOK

LEMMA StageType ==
    ASSUME TypeOK, NEW s \in Slots, NEW f \in Frames, NEW age \in Ages, Stage(s, f, age)
    PROVE  /\ slot' \in [Slots -> [sequence : -1..MaxSequence, frame : Frames \cup {None}, age : Ages]]
           /\ host_input' \in Contents
BY Sizes DEF TypeOK, Stage, Contents

\* The launch at the head of a stream.
LEMMA HeadType ==
    ASSUME NEW q \in Seq(Launches), q # <<>>
    PROVE  /\ Head(q).slot \in Slots
           /\ Head(q).sequence \in 0..MaxSequence /\ Head(q).sequence \in -1..MaxSequence
           /\ Tail(q) \in Seq(Launches)
<1>1. Head(q) \in Launches /\ Tail(q) \in Seq(Launches)
  OBVIOUS
<1>2. Head(q).slot \in Slots /\ Head(q).sequence \in 0..MaxSequence
  BY <1>1 DEF Launches
<1>3. QED
  BY <1>1, <1>2, Sizes

LEMMA TypeStep == TypeOK /\ [Next]_vars => TypeOK'
<1> SUFFICES ASSUME TypeOK, [Next]_vars PROVE TypeOK'
  OBVIOUS
<1> USE Sizes DEF engine, buffers, streams, events
<1>1. ASSUME NEW f \in Frames, NEW age \in Ages, Submit(f, age) PROVE TypeOK'
  <2>1. copying' \in Seq(Launches) /\ computing' \in Seq(Launches) /\ reading' \in Seq(Launches)
    BY <1>1, LaunchType DEF Submit, Take
  <2>2. /\ slot' \in [Slots -> [sequence : -1..MaxSequence, frame : Frames \cup {None}, age : Ages]]
        /\ host_input' \in Contents
    BY <1>1, StageType DEF Submit, Take, TypeOK
  <2>3. nextSlot' \in Slots /\ sequence' \in 0..MaxSequence /\ pending' \in Seq(Slots)
    BY <1>1, SlotAfterIs DEF Submit, Take, TypeOK
  <2>4. QED
    BY <1>1, <2>1, <2>2, <2>3 DEF Submit, TypeOK
<1>2. ASSUME NEW f \in Frames, NEW age \in Ages, SubmitFails(f, age) PROVE TypeOK'
  <2>1. copying' \in Seq(Launches) /\ computing' \in Seq(Launches) /\ reading' \in Seq(Launches)
    BY <1>2, LaunchType DEF SubmitFails
  <2>2. /\ slot' \in [Slots -> [sequence : -1..MaxSequence, frame : Frames \cup {None}, age : Ages]]
        /\ host_input' \in Contents
    BY <1>2, StageType DEF SubmitFails, TypeOK
  <2>3. QED
    BY <1>2, <2>1, <2>2 DEF SubmitFails, TypeOK
<1>3. CASE Poll
  <2>1. Head(pending) \in Slots /\ pending' \in Seq(Slots)
    BY <1>3 DEF Poll, Ready, TypeOK
  <2>2. Vote(Head(pending)) \in Frames \cup {None}
    BY <2>1 DEF Vote, TypeOK, Contents
  <2>3. last' \in [sequence : -1..MaxSequence, frame : Frames \cup {None}, action : Frames \cup {None}]
    BY <1>3, <2>1, <2>2 DEF Poll, TypeOK
  <2>4. QED
    BY <1>3, <2>1, <2>3 DEF Poll, TypeOK
<1>4. CASE Close
  BY <1>4 DEF Close, TypeOK
<1>5. CASE Copy
  <2>1. copying # <<>> /\ copying \in Seq(Launches)
    BY <1>5 DEF Copy, TypeOK
  <2>2. copying' \in Seq(Launches)
    BY <1>5, <2>1, HeadType DEF Copy
  <2>3. device_input' \in Contents
    BY <1>5, <2>1, HeadType DEF Copy, TypeOK, Contents
  <2>4. copy_done' \in Numbers
    BY <1>5, <2>1, HeadType DEF Copy, TypeOK, Numbers
  <2>5. QED
    BY <1>5, <2>2, <2>3, <2>4 DEF Copy, TypeOK
<1>6. CASE Compute
  <2>1. computing # <<>> /\ computing \in Seq(Launches)
    BY <1>6 DEF Compute, TypeOK
  <2>2. computing' \in Seq(Launches)
    BY <1>6, <2>1, HeadType DEF Compute
  <2>3. outputs' \in Contents
    BY <1>6, <2>1, HeadType DEF Compute, TypeOK, Contents
  <2>4. graph_done' \in Numbers
    BY <1>6, <2>1, HeadType DEF Compute, TypeOK, Numbers
  <2>5. QED
    BY <1>6, <2>2, <2>3, <2>4 DEF Compute, TypeOK
<1>7. CASE Read
  <2>1. reading # <<>> /\ reading \in Seq(Launches)
    BY <1>7 DEF Read, TypeOK
  <2>2. reading' \in Seq(Launches)
    BY <1>7, <2>1, HeadType DEF Read
  <2>3. host_outputs' \in Contents
    BY <1>7, <2>1, HeadType DEF Read, TypeOK, Contents
  <2>4. done' \in Numbers
    BY <1>7, <2>1, HeadType DEF Read, TypeOK, Numbers
  <2>5. QED
    BY <1>7, <2>2, <2>3, <2>4 DEF Read, TypeOK
<1>8. CASE Tick
  <2>1. \A age \in Ages : Older(age) \in Ages
    BY DEF Older, Ages
  <2>2. slot' \in [Slots -> [sequence : -1..MaxSequence, frame : Frames \cup {None}, age : Ages]]
    BY <1>8, <2>1 DEF Tick, TypeOK
  <2>3. QED
    BY <1>8, <2>2 DEF Tick, TypeOK
<1>9. CASE UNCHANGED vars
  BY <1>9 DEF vars, TypeOK
<1>10. QED
  BY <1>1, <1>2, <1>3, <1>4, <1>5, <1>6, <1>7, <1>8, <1>9 DEF Next, Gpu

-----------------------------------------------------------------------------
(* The slots of the ring.                                                  *)

\* While there is room, the next slot is not among the pending ones.
LEMMA NextSlotIsFree ==
    ASSUME TypeOK, RingInv, Len(pending) < Capacity
    PROVE  \A i \in 1..Len(pending) : pending[i] \in Slots /\ pending[i] # nextSlot
<1> SUFFICES ASSUME NEW i \in 1..Len(pending) PROVE pending[i] \in Slots /\ pending[i] # nextSlot
  OBVIOUS
<1>1. pending[i] \in Slots /\ nextSlot \in Slots /\ Len(pending) \in Nat
  BY DEF TypeOK
<1>2. Distance(nextSlot, pending[i]) = Capacity - Len(pending) + i - 1
  BY DEF RingInv
<1>3. Distance(nextSlot, pending[i]) > 0
  BY <1>1, <1>2, Sizes
<1>4. QED
  BY <1>1, <1>3, Sizes DEF Distance, Slots

\* While there is room and no failure, no stream has work for the next slot.
LEMMA NextSlotIsIdle ==
    ASSUME TypeOK, RingInv, Len(pending) < Capacity, ~faulted,
           NEW q, NEW e, Awaited(q, e, slot, pending, faulted)
    PROVE  \A i \in 1..Len(q) : q[i].slot # nextSlot
BY NextSlotIsFree DEF Awaited

\* Taking the next slot brings every other one nearer, and itself last.
LEMMA DistanceShrinks ==
    ASSUME NEW next \in Slots, NEW s \in Slots
    PROVE  Distance(SlotAfter(next), s) = IF s = next THEN Capacity - 1 ELSE Distance(next, s) - 1
<1>1. SlotAfter(next) = IF next = Capacity - 1 THEN 0 ELSE next + 1
  BY SlotAfterIs
<1>2. CASE next = Capacity - 1
  BY <1>1, <1>2, Sizes DEF Distance, Slots
<1>3. CASE next # Capacity - 1
  BY <1>1, <1>3, Sizes DEF Distance, Slots
<1>4. QED
  BY <1>2, <1>3

LEMMA RingTaken ==
    ASSUME TypeOK, RingInv, Len(pending) < Capacity, NEW f, NEW age, Take(f, age)
    PROVE  RingInv'
<1> DEFINE n == Len(pending)
<1>1. n \in Nat /\ pending \in Seq(Slots) /\ nextSlot \in Slots /\ sequence \in Nat
  BY Sizes DEF TypeOK
<1>2. pending' = Append(pending, nextSlot) /\ sequence' = sequence + 1
  BY DEF Take
<1>3. Len(pending') = n + 1 /\ \A i \in 1..(n + 1) :
         pending'[i] = IF i = n + 1 THEN nextSlot ELSE pending[i]
  BY <1>1, <1>2
<1>4. slot'[nextSlot].sequence = sequence
      /\ \A s \in Slots \ {nextSlot} : slot'[s] = slot[s]
  BY <1>1 DEF Take, Stage, TypeOK
<1>5. ASSUME NEW i \in 1..(n + 1)
      PROVE  /\ Distance(nextSlot', pending'[i]) = Capacity - (n + 1) + i - 1
             /\ slot'[pending'[i]].sequence = sequence + 1 - (n + 1) + i - 1
  <2>1. CASE i = n + 1
    <3>1. pending'[i] = nextSlot
      BY <1>3, <2>1
    <3>2. Distance(nextSlot', pending'[i]) = Capacity - 1
      BY <1>1, <3>1, DistanceShrinks DEF Take
    <3>3. slot'[pending'[i]].sequence = sequence
      BY <1>4, <3>1
    <3>4. Capacity - 1 = Capacity - (n + 1) + i - 1 /\ sequence = sequence + 1 - (n + 1) + i - 1
      BY <1>1, <2>1, Sizes
    <3>5. QED
      BY <3>2, <3>3, <3>4
  <2>2. CASE i # n + 1
    <3>1. i \in 1..n /\ pending'[i] = pending[i]
      BY <1>1, <1>3, <2>2
    <3>2. pending[i] \in Slots /\ pending[i] # nextSlot
      BY <3>1, NextSlotIsFree
    <3>3. /\ Distance(nextSlot, pending[i]) = Capacity - n + i - 1
          /\ slot[pending[i]].sequence = sequence - n + i - 1
      BY <3>1 DEF RingInv
    <3>4. Distance(nextSlot', pending'[i]) = Distance(nextSlot, pending[i]) - 1
      BY <1>1, <3>1, <3>2, DistanceShrinks DEF Take
    <3>5. slot'[pending'[i]].sequence = slot[pending[i]].sequence
      BY <1>4, <3>1, <3>2
    <3>6. /\ Capacity - n + i - 1 - 1 = Capacity - (n + 1) + i - 1
          /\ sequence - n + i - 1 = sequence + 1 - (n + 1) + i - 1
      BY <1>1, Sizes
    <3>7. Distance(nextSlot', pending'[i]) = Capacity - n + i - 1 - 1
      BY <1>1, <3>3, <3>4, Sizes
    <3>8. slot'[pending'[i]].sequence = sequence - n + i - 1
      BY <3>3, <3>5
    <3>9. QED
      BY <3>6, <3>7, <3>8
  <2>3. QED
    BY <2>1, <2>2
<1>6. QED
  BY <1>1, <1>2, <1>3, <1>5, Sizes DEF RingInv

\* Polling removes the first of the pending slots.
LEMMA RingPolled ==
    ASSUME TypeOK, RingInv, pending # <<>>, pending' = Tail(pending),
           UNCHANGED <<nextSlot, sequence, slot>>
    PROVE  RingInv'
<1> DEFINE n == Len(pending)
<1>1. n \in Nat \ {0} /\ pending \in Seq(Slots) /\ sequence \in Nat
  BY Sizes DEF TypeOK
<1>2. Len(pending') = n - 1 /\ \A i \in 1..(n - 1) : pending'[i] = pending[i + 1]
  BY <1>1
<1>3. ASSUME NEW i \in 1..(n - 1)
      PROVE  /\ Distance(nextSlot, pending'[i]) = Capacity - (n - 1) + i - 1
             /\ slot[pending'[i]].sequence = sequence - (n - 1) + i - 1
  <2>1. i + 1 \in 1..n
    BY <1>1
  <2>2. /\ Distance(nextSlot, pending[i + 1]) = Capacity - n + (i + 1) - 1
        /\ slot[pending[i + 1]].sequence = sequence - n + (i + 1) - 1
    BY <2>1 DEF RingInv
  <2>3. /\ Capacity - n + (i + 1) - 1 = Capacity - (n - 1) + i - 1
        /\ sequence - n + (i + 1) - 1 = sequence - (n - 1) + i - 1
    BY <1>1, Sizes
  <2>4. QED
    BY <1>2, <2>2, <2>3
<1>4. n - 1 <= Capacity
  BY <1>1, Sizes DEF RingInv
<1>5. QED
  BY <1>2, <1>3, <1>4 DEF RingInv

-----------------------------------------------------------------------------
(* The streams.                                                            *)

\* A stream takes the launch of a submission, or fails to get it.
LEMMA Launched ==
    ASSUME TypeOK, RingInv, LabelInv, ~faulted, Len(pending) < Capacity,
           NEW f, NEW age, Stage(nextSlot, f, age),
           NEW q \in Seq(Launches), NEW e, Awaited(q, e, slot, pending, faulted),
           e[nextSlot] < sequence,
           NEW r, r \in {q, Append(q, Launch(nextSlot, sequence))},
           \/ pending' = Append(pending, nextSlot)
           \/ faulted'
    PROVE  Awaited(r, e, slot', pending', faulted')
<1>1. /\ nextSlot \in Slots /\ sequence \in Nat /\ pending \in Seq(Slots)
      /\ slot'[nextSlot].sequence = sequence
      /\ \A s \in Slots \ {nextSlot} : slot'[s] = slot[s]
  BY Sizes DEF TypeOK, Stage
<1>2. ASSUME NEW i \in 1..Len(q)
      PROVE  /\ q[i].slot \in Slots /\ q[i].slot # nextSlot
             /\ q[i].sequence = slot'[q[i].slot].sequence
             /\ e[q[i].slot] < q[i].sequence
             /\ q[i].sequence < sequence
             /\ (\E j \in 1..Len(pending') : pending'[j] = q[i].slot) \/ faulted'
  <2>1. q[i].slot \in Slots /\ q[i].slot # nextSlot
    <3>1. q[i] \in Launches
      OBVIOUS
    <3>2. q[i].slot # nextSlot
      BY NextSlotIsIdle
    <3>3. QED
      BY <3>1, <3>2 DEF Launches
  <2>2. q[i].sequence = slot[q[i].slot].sequence /\ e[q[i].slot] < q[i].sequence
    BY DEF Awaited
  <2>3. q[i].sequence < sequence
    BY <2>1, <2>2 DEF LabelInv
  <2>4. PICK j \in 1..Len(pending) : pending[j] = q[i].slot
    BY DEF Awaited
  <2>5. pending' = Append(pending, nextSlot) => j \in 1..Len(pending') /\ pending'[j] = q[i].slot
    BY <1>1, <2>4
  <2>6. QED
    BY <1>1, <2>1, <2>2, <2>3, <2>5
<1>3. CASE r = q
  <2>1. \A i, j \in 1..Len(q) : i < j => q[i].sequence < q[j].sequence
    BY DEF Awaited
  <2>2. QED
    BY <1>2, <1>3, <2>1 DEF Awaited
<1>4. CASE r = Append(q, Launch(nextSlot, sequence))
  <2>1. /\ Len(r) = Len(q) + 1 /\ Len(q) \in Nat
        /\ \A i \in 1..Len(q) : r[i] = q[i]
        /\ r[Len(q) + 1].slot = nextSlot /\ r[Len(q) + 1].sequence = sequence
    BY <1>4 DEF Launch
  <2>2. pending' = Append(pending, nextSlot) =>
            Len(pending) + 1 \in 1..Len(pending') /\ pending'[Len(pending) + 1] = nextSlot
    BY <1>1
  <2>3. \A i \in 1..Len(r) : i \in 1..Len(q) \/ i = Len(q) + 1
    BY <2>1
  <2>4. \A i \in 1..Len(r) :
            /\ r[i].sequence = slot'[r[i].slot].sequence
            /\ e[r[i].slot] < r[i].sequence
            /\ (\E j \in 1..Len(pending') : pending'[j] = r[i].slot) \/ faulted'
    BY <1>1, <1>2, <2>1, <2>2, <2>3
  <2>5. \A i, j \in 1..Len(q) : i < j => q[i].sequence < q[j].sequence
    BY DEF Awaited
  <2>6. \A i, j \in 1..Len(r) : i < j => i \in 1..Len(q)
    BY <2>1
  <2>7. \A i, j \in 1..Len(r) : i < j => r[i].sequence < r[j].sequence
    BY <1>2, <2>1, <2>3, <2>5, <2>6
  <2>8. QED
    BY <2>4, <2>7 DEF Awaited
<1>5. QED
  BY <1>3, <1>4

\* A stream executes its first launch and signals its event.
LEMMA Executed ==
    ASSUME NEW q \in Seq(Launches), q # <<>>, NEW e \in Numbers, NEW label, NEW ring, NEW failed,
           Awaited(q, e, label, ring, failed)
    PROVE  Awaited(Tail(q), [e EXCEPT ![Head(q).slot] = Head(q).sequence], label, ring, failed)
<1> DEFINE t == Tail(q)
           d == [e EXCEPT ![Head(q).slot] = Head(q).sequence]
<1>1. /\ Len(t) = Len(q) - 1 /\ Len(q) \in Nat \ {0} /\ Head(q) = q[1]
      /\ \A i \in 1..Len(t) : t[i] = q[i + 1] /\ i + 1 \in 1..Len(q)
  OBVIOUS
<1>2. \A i \in 1..Len(q) : q[i].slot \in Slots /\ q[i].sequence \in 0..MaxSequence
  <2>1. \A i \in 1..Len(q) : q[i] \in Launches
    OBVIOUS
  <2>2. QED
    BY <2>1 DEF Launches
<1>3. \A s \in Slots : d[s] = IF s = q[1].slot THEN q[1].sequence ELSE e[s]
  BY <1>1 DEF Numbers
<1>4. ASSUME NEW i \in 1..Len(t)
      PROVE  /\ t[i].sequence = label[t[i].slot].sequence
             /\ d[t[i].slot] < t[i].sequence
             /\ (\E j \in 1..Len(ring) : ring[j] = t[i].slot) \/ failed
  <2>1. t[i] = q[i + 1] /\ i + 1 \in 1..Len(q) /\ 1 \in 1..Len(q) /\ 1 < i + 1
    BY <1>1
  <2>2. /\ t[i].sequence = label[t[i].slot].sequence
        /\ e[t[i].slot] < t[i].sequence
        /\ (\E j \in 1..Len(ring) : ring[j] = t[i].slot) \/ failed
        /\ q[1].sequence < t[i].sequence
    BY <2>1 DEF Awaited
  <2>3. t[i].slot \in Slots
    BY <1>2, <2>1
  <2>4. QED
    BY <1>3, <2>2, <2>3
<1>5. \A i, j \in 1..Len(t) : i < j => t[i].sequence < t[j].sequence
  <2> SUFFICES ASSUME NEW i \in 1..Len(t), NEW j \in 1..Len(t), i < j
               PROVE  t[i].sequence < t[j].sequence
    OBVIOUS
  <2>1. t[i] = q[i + 1] /\ t[j] = q[j + 1] /\ i + 1 \in 1..Len(q) /\ j + 1 \in 1..Len(q)
        /\ i + 1 < j + 1
    BY <1>1
  <2>2. QED
    BY <2>1 DEF Awaited
<1>6. QED
  BY <1>4, <1>5 DEF Awaited


-----------------------------------------------------------------------------
(* Every step keeps the invariant.                                         *)

\* Writing the labels and the staging buffer of the next slot.
LEMMA Staged ==
    ASSUME TypeOK, LabelInv, EventInv, ~faulted, NEW f \in Frames, NEW age \in Ages,
           Stage(nextSlot, f, age),
           UNCHANGED <<device_input, outputs, host_outputs, events>>
    PROVE  /\ EventInv'
           /\ copy_done[nextSlot] < sequence /\ graph_done[nextSlot] < sequence
           /\ done[nextSlot] < sequence
           /\ slot'[nextSlot] = [sequence |-> sequence, frame |-> f, age |-> age]
           /\ host_input'[nextSlot] = f
           /\ \A s \in Slots \ {nextSlot} : slot'[s] = slot[s] /\ host_input'[s] = host_input[s]
<1>1. /\ slot'[nextSlot] = [sequence |-> sequence, frame |-> f, age |-> age]
      /\ host_input'[nextSlot] = f
      /\ \A s \in Slots \ {nextSlot} : slot'[s] = slot[s] /\ host_input'[s] = host_input[s]
  BY DEF Stage, TypeOK, Contents
<1>2. /\ sequence \in Int /\ nextSlot \in Slots /\ slot[nextSlot].sequence \in Int
      /\ copy_done[nextSlot] \in Int /\ graph_done[nextSlot] \in Int /\ done[nextSlot] \in Int
  BY Sizes DEF TypeOK, Numbers
<1>3. /\ copy_done[nextSlot] < sequence /\ graph_done[nextSlot] < sequence
      /\ done[nextSlot] < sequence
  BY <1>2 DEF EventInv, LabelInv
<1>4. EventInv'
  <2> SUFFICES ASSUME NEW s \in Slots
               PROVE  ( /\ done[s] <= graph_done[s]
                        /\ graph_done[s] <= copy_done[s]
                        /\ copy_done[s] <= slot[s].sequence
                        /\ copy_done[s] = slot[s].sequence => device_input[s] = slot[s].frame
                        /\ graph_done[s] = slot[s].sequence => outputs[s] = slot[s].frame
                        /\ done[s] = slot[s].sequence => host_outputs[s] = slot[s].frame )'
    BY DEF EventInv
  <2>1. CASE s = nextSlot
    BY <1>1, <1>2, <1>3, <2>1 DEF EventInv, events
  <2>2. CASE s # nextSlot
    BY <1>1, <2>2 DEF EventInv, events
  <2>3. QED
    BY <2>1, <2>2
<1>5. QED
  BY <1>1, <1>3, <1>4

LEMMA SubmitKeeps ==
    ASSUME IInv, NEW f \in Frames, NEW age \in Ages, Submit(f, age)
    PROVE  RingInv' /\ LabelInv' /\ StreamInv' /\ EventInv' /\ ActionIsOfItsFrame'
<1>1. /\ TypeOK /\ RingInv /\ LabelInv /\ EventInv /\ ~faulted /\ ~closed
      /\ Take(f, age) /\ Stage(nextSlot, f, age)
      /\ UNCHANGED <<faulted, closed, last, device_input, outputs, host_outputs, events>>
  BY DEF Submit, Usable, IInv, Take
<1>2. Len(pending) < Capacity
  BY Sizes DEF Submit, Full, IInv, RingInv, TypeOK
<1>3. RingInv'
  BY <1>1, <1>2, RingTaken
<1>4. /\ EventInv'
      /\ copy_done[nextSlot] < sequence /\ graph_done[nextSlot] < sequence
      /\ done[nextSlot] < sequence
      /\ slot'[nextSlot] = [sequence |-> sequence, frame |-> f, age |-> age]
      /\ host_input'[nextSlot] = f
      /\ \A s \in Slots \ {nextSlot} : slot'[s] = slot[s] /\ host_input'[s] = host_input[s]
  BY <1>1, Staged
<1>5. LabelInv'
  <2>1. sequence \in Nat /\ sequence' = sequence + 1 /\ \A s \in Slots : slot[s].sequence \in Int
    BY <1>1, Sizes DEF TypeOK, Take
  <2>2. \A s \in Slots : slot[s].sequence < sequence /\ host_input[s] = slot[s].frame
    BY <1>1 DEF LabelInv
  <2>3. QED
    BY <1>4, <2>1, <2>2 DEF LabelInv
<1>6. /\ copying' = Append(copying, Launch(nextSlot, sequence))
      /\ computing' = Append(computing, Launch(nextSlot, sequence))
      /\ reading' = Append(reading, Launch(nextSlot, sequence))
      /\ pending' = Append(pending, nextSlot)
  BY <1>1 DEF Take, LaunchFirst
<1>7. /\ copying \in Seq(Launches) /\ computing \in Seq(Launches) /\ reading \in Seq(Launches)
      /\ Awaited(copying, copy_done, slot, pending, faulted)
      /\ Awaited(computing, graph_done, slot, pending, faulted)
      /\ Awaited(reading, done, slot, pending, faulted)
  BY DEF IInv, StreamInv, TypeOK
<1>8. /\ Awaited(copying', copy_done, slot', pending', faulted')
      /\ Awaited(computing', graph_done, slot', pending', faulted')
      /\ Awaited(reading', done, slot', pending', faulted')
  BY <1>1, <1>2, <1>4, <1>6, <1>7, Launched
<1>9. StreamInv'
  BY <1>1, <1>8 DEF StreamInv, events
<1>10. ActionIsOfItsFrame'
  BY <1>1 DEF IInv, ActionIsOfItsFrame
<1>11. QED
  BY <1>3, <1>4, <1>5, <1>9, <1>10

LEMMA SubmitFailsKeeps ==
    ASSUME IInv, NEW f \in Frames, NEW age \in Ages, SubmitFails(f, age)
    PROVE  RingInv' /\ LabelInv' /\ StreamInv' /\ EventInv' /\ ActionIsOfItsFrame'
<1>1. /\ TypeOK /\ RingInv /\ LabelInv /\ EventInv /\ ~faulted /\ ~closed
      /\ Stage(nextSlot, f, age) /\ faulted'
      /\ UNCHANGED <<pending, nextSlot, sequence, closed, last,
                     device_input, outputs, host_outputs, events>>
  BY DEF SubmitFails, Usable, IInv
<1>2. Len(pending) < Capacity
  BY Sizes DEF SubmitFails, Full, IInv, RingInv, TypeOK
<1>3. /\ EventInv'
      /\ copy_done[nextSlot] < sequence /\ graph_done[nextSlot] < sequence
      /\ done[nextSlot] < sequence
      /\ slot'[nextSlot] = [sequence |-> sequence, frame |-> f, age |-> age]
      /\ host_input'[nextSlot] = f
      /\ \A s \in Slots \ {nextSlot} : slot'[s] = slot[s] /\ host_input'[s] = host_input[s]
  BY <1>1, Staged
<1>4. RingInv'
  <2>1. \A i \in 1..Len(pending) : slot'[pending[i]] = slot[pending[i]]
    BY <1>1, <1>2, <1>3, NextSlotIsFree
  <2>2. QED
    BY <1>1, <2>1 DEF RingInv
<1>5. LabelInv'
  <2>1. sequence \in Nat
    BY <1>1, Sizes DEF TypeOK
  <2>2. QED
    BY <1>1, <1>3, <2>1 DEF LabelInv
<1>6. /\ copying' \in {copying, Append(copying, Launch(nextSlot, sequence))}
      /\ computing' \in {computing, Append(computing, Launch(nextSlot, sequence))}
      /\ reading' \in {reading, Append(reading, Launch(nextSlot, sequence))}
  BY DEF SubmitFails, LaunchFirst
<1>7. /\ copying \in Seq(Launches) /\ computing \in Seq(Launches) /\ reading \in Seq(Launches)
      /\ Awaited(copying, copy_done, slot, pending, faulted)
      /\ Awaited(computing, graph_done, slot, pending, faulted)
      /\ Awaited(reading, done, slot, pending, faulted)
  BY DEF IInv, StreamInv, TypeOK
<1>8. /\ Awaited(copying', copy_done, slot', pending', faulted')
      /\ Awaited(computing', graph_done, slot', pending', faulted')
      /\ Awaited(reading', done, slot', pending', faulted')
  BY <1>1, <1>2, <1>3, <1>6, <1>7, Launched
<1>9. StreamInv'
  BY <1>1, <1>8 DEF StreamInv, events
<1>10. ActionIsOfItsFrame'
  BY <1>1 DEF IInv, ActionIsOfItsFrame
<1>11. QED
  BY <1>3, <1>4, <1>5, <1>9, <1>10

\* A slot whose result is there has no launches left on any stream.
LEMMA DoneIsQuiet ==
    ASSUME TypeOK, EventInv, StreamInv, NEW s \in Slots, done[s] = slot[s].sequence
    PROVE  /\ \A i \in 1..Len(copying) : copying[i].slot # s
           /\ \A i \in 1..Len(computing) : computing[i].slot # s
           /\ \A i \in 1..Len(reading) : reading[i].slot # s
<1>1. /\ slot[s].sequence \in Int /\ copy_done[s] \in Int /\ graph_done[s] \in Int
      /\ done[s] \in Int
  BY DEF TypeOK, Numbers
<1>2. copy_done[s] = slot[s].sequence /\ graph_done[s] = slot[s].sequence
  BY <1>1 DEF EventInv
<1>3. QED
  BY <1>1, <1>2 DEF StreamInv, Awaited

\* Giving back the oldest slot leaves no stream without a pending slot.
LEMMA AwaitedWithoutFirst ==
    ASSUME NEW q, NEW e, NEW label, NEW ring \in Seq(Slots), NEW failed,
           ring # <<>>, Awaited(q, e, label, ring, failed),
           \A i \in 1..Len(q) : q[i].slot # Head(ring)
    PROVE  Awaited(q, e, label, Tail(ring), failed)
<1>1. ASSUME NEW i \in 1..Len(q), NEW j \in 1..Len(ring), ring[j] = q[i].slot
      PROVE  j - 1 \in 1..Len(Tail(ring)) /\ Tail(ring)[j - 1] = q[i].slot
  <2>1. Head(ring) = ring[1]
    OBVIOUS
  <2>2. j # 1
    BY <1>1, <2>1
  <2>3. QED
    BY <1>1, <2>2
<1>2. \A i \in 1..Len(q) :
         (\E j \in 1..Len(ring) : ring[j] = q[i].slot) =>
         (\E j \in 1..Len(Tail(ring)) : Tail(ring)[j] = q[i].slot)
  BY <1>1
<1>3. QED
  BY <1>2 DEF Awaited

LEMMA PollKeeps ==
    ASSUME IInv, Poll
    PROVE  RingInv' /\ LabelInv' /\ StreamInv' /\ EventInv' /\ ActionIsOfItsFrame'
<1> DEFINE s == Head(pending)
<1>1. /\ TypeOK /\ RingInv /\ LabelInv /\ EventInv /\ StreamInv
      /\ pending # <<>> /\ pending \in Seq(Slots) /\ pending' = Tail(pending)
      /\ UNCHANGED <<nextSlot, sequence, faulted, closed, slot, buffers, streams, events>>
  BY DEF Poll, Ready, IInv, TypeOK
<1>2. s \in Slots /\ done[s] = slot[s].sequence
  BY <1>1 DEF Poll, Ready
<1>3. RingInv'
  BY <1>1, RingPolled
<1>4. LabelInv' /\ EventInv'
  BY <1>1 DEF LabelInv, EventInv, buffers, events
<1>5. StreamInv'
  <2>1. /\ Awaited(copying, copy_done, slot, Tail(pending), faulted)
        /\ Awaited(computing, graph_done, slot, Tail(pending), faulted)
        /\ Awaited(reading, done, slot, Tail(pending), faulted)
    BY <1>1, <1>2, DoneIsQuiet, AwaitedWithoutFirst DEF StreamInv
  <2>2. QED
    BY <1>1, <2>1 DEF StreamInv, streams, events, Drained
<1>6. ActionIsOfItsFrame'
  <2>1. host_outputs[s] = slot[s].frame
    BY <1>1, <1>2 DEF EventInv
  <2>2. last'.action = Vote(s) /\ last'.frame = slot[s].frame
    BY DEF Poll
  <2>3. QED
    BY <2>1, <2>2 DEF Vote, ActionIsOfItsFrame
<1>7. QED
  BY <1>3, <1>4, <1>5, <1>6

LEMMA CloseKeeps ==
    ASSUME IInv, Close
    PROVE  RingInv' /\ LabelInv' /\ StreamInv' /\ EventInv' /\ ActionIsOfItsFrame'
<1>1. /\ copying' = <<>> /\ computing' = <<>> /\ reading' = <<>> /\ pending' = <<>>
      /\ UNCHANGED <<nextSlot, sequence, faulted, slot, last, buffers, events>>
  BY DEF Close, Drained, streams
<1>2. RingInv' /\ StreamInv'
  BY <1>1, Sizes DEF RingInv, StreamInv, Awaited, Drained
<1>3. LabelInv' /\ EventInv' /\ ActionIsOfItsFrame'
  BY <1>1 DEF IInv, LabelInv, EventInv, ActionIsOfItsFrame, buffers, events
<1>4. QED
  BY <1>2, <1>3

\* The launch at the head of a stream carries the label of its slot.
LEMMA HeadIsLabelled ==
    ASSUME TypeOK, NEW q \in Seq(Launches), q # <<>>, NEW e,
           Awaited(q, e, slot, pending, faulted)
    PROVE  /\ Head(q).slot \in Slots
           /\ Head(q).sequence = slot[Head(q).slot].sequence
           /\ e[Head(q).slot] < Head(q).sequence
           /\ Head(q).sequence \in 0..MaxSequence
<1>1. Head(q) = q[1] /\ 1 \in 1..Len(q)
  OBVIOUS
<1>2. QED
  BY <1>1, HeadType DEF Awaited

LEMMA CopyKeeps ==
    ASSUME IInv, Copy
    PROVE  RingInv' /\ LabelInv' /\ StreamInv' /\ EventInv' /\ ActionIsOfItsFrame'
<1> DEFINE l == Head(copying)
<1>1. /\ TypeOK /\ RingInv /\ LabelInv /\ EventInv /\ StreamInv /\ copying # <<>>
      /\ copying \in Seq(Launches) /\ copy_done \in Numbers /\ copying' = Tail(copying)
      /\ device_input' = [device_input EXCEPT ![l.slot] = host_input[l.slot]]
      /\ copy_done' = [copy_done EXCEPT ![l.slot] = l.sequence]
      /\ UNCHANGED <<engine, host_input, outputs, host_outputs, computing, reading,
                     graph_done, done>>
  BY DEF Copy, IInv, TypeOK
<1>2. l.slot \in Slots /\ l.sequence = slot[l.slot].sequence /\ copy_done[l.slot] < l.sequence
  BY <1>1, HeadIsLabelled DEF StreamInv
<1>3. StreamInv'
  <2>1. Awaited(copying', copy_done', slot, pending, faulted)
    BY <1>1, Executed DEF StreamInv
  <2>2. ~closed
    BY <1>1 DEF StreamInv, Drained
  <2>3. QED
    BY <1>1, <2>1, <2>2 DEF StreamInv, engine
<1>4. EventInv'
  <2>1. /\ device_input'[l.slot] = slot[l.slot].frame /\ copy_done'[l.slot] = slot[l.slot].sequence
        /\ \A s \in Slots \ {l.slot} : device_input'[s] = device_input[s] /\ copy_done'[s] = copy_done[s]
    BY <1>1, <1>2 DEF LabelInv, TypeOK, Contents, Numbers
  <2>2. \A s \in Slots : /\ copy_done[s] \in Int /\ graph_done[s] \in Int
                         /\ slot[s].sequence \in Int
    BY <1>1 DEF TypeOK, Numbers
  <2>3. graph_done[l.slot] <= copy_done'[l.slot]
    BY <1>1, <1>2, <2>1, <2>2 DEF EventInv
  <2>4. QED
    BY <1>1, <2>1, <2>2, <2>3 DEF EventInv, engine
<1>5. RingInv' /\ LabelInv' /\ ActionIsOfItsFrame'
  BY <1>1 DEF IInv, RingInv, LabelInv, ActionIsOfItsFrame, engine
<1>6. QED
  BY <1>3, <1>4, <1>5

LEMMA ComputeKeeps ==
    ASSUME IInv, Compute
    PROVE  RingInv' /\ LabelInv' /\ StreamInv' /\ EventInv' /\ ActionIsOfItsFrame'
<1> DEFINE l == Head(computing)
<1>1. /\ TypeOK /\ RingInv /\ LabelInv /\ EventInv /\ StreamInv /\ computing # <<>>
      /\ computing \in Seq(Launches) /\ graph_done \in Numbers /\ computing' = Tail(computing)
      /\ copy_done[l.slot] >= l.sequence
      /\ outputs' = [outputs EXCEPT ![l.slot] = device_input[l.slot]]
      /\ graph_done' = [graph_done EXCEPT ![l.slot] = l.sequence]
      /\ UNCHANGED <<engine, host_input, device_input, host_outputs, copying, reading,
                     copy_done, done>>
  BY DEF Compute, CopyAwaited, IInv, TypeOK
<1>2. l.slot \in Slots /\ l.sequence = slot[l.slot].sequence /\ graph_done[l.slot] < l.sequence
  BY <1>1, HeadIsLabelled DEF StreamInv
<1>3. StreamInv'
  <2>1. Awaited(computing', graph_done', slot, pending, faulted)
    BY <1>1, Executed DEF StreamInv
  <2>2. ~closed
    BY <1>1 DEF StreamInv, Drained
  <2>3. QED
    BY <1>1, <2>1, <2>2 DEF StreamInv, engine
<1>4. EventInv'
  <2>1. \A s \in Slots : /\ copy_done[s] \in Int /\ graph_done[s] \in Int
                         /\ done[s] \in Int /\ slot[s].sequence \in Int
    BY <1>1 DEF TypeOK, Numbers
  <2>2. copy_done[l.slot] = slot[l.slot].sequence
    BY <1>1, <1>2, <2>1 DEF EventInv
  <2>3. /\ outputs'[l.slot] = slot[l.slot].frame /\ graph_done'[l.slot] = slot[l.slot].sequence
        /\ \A s \in Slots \ {l.slot} : outputs'[s] = outputs[s] /\ graph_done'[s] = graph_done[s]
    BY <1>1, <1>2, <2>2 DEF EventInv, TypeOK, Contents, Numbers
  <2>4. done[l.slot] <= graph_done'[l.slot]
    BY <1>1, <1>2, <2>1, <2>3 DEF EventInv
  <2>5. QED
    BY <1>1, <2>1, <2>2, <2>3, <2>4 DEF EventInv, engine
<1>5. RingInv' /\ LabelInv' /\ ActionIsOfItsFrame'
  BY <1>1 DEF IInv, RingInv, LabelInv, ActionIsOfItsFrame, engine
<1>6. QED
  BY <1>3, <1>4, <1>5

LEMMA ReadKeeps ==
    ASSUME IInv, Read
    PROVE  RingInv' /\ LabelInv' /\ StreamInv' /\ EventInv' /\ ActionIsOfItsFrame'
<1> DEFINE l == Head(reading)
<1>1. /\ TypeOK /\ RingInv /\ LabelInv /\ EventInv /\ StreamInv /\ reading # <<>>
      /\ reading \in Seq(Launches) /\ done \in Numbers /\ reading' = Tail(reading)
      /\ graph_done[l.slot] >= l.sequence
      /\ host_outputs' = [host_outputs EXCEPT ![l.slot] = outputs[l.slot]]
      /\ done' = [done EXCEPT ![l.slot] = l.sequence]
      /\ UNCHANGED <<engine, host_input, device_input, outputs, copying, computing,
                     copy_done, graph_done>>
  BY DEF Read, IInv, TypeOK
<1>2. l.slot \in Slots /\ l.sequence = slot[l.slot].sequence /\ done[l.slot] < l.sequence
  BY <1>1, HeadIsLabelled DEF StreamInv
<1>3. StreamInv'
  <2>1. Awaited(reading', done', slot, pending, faulted)
    BY <1>1, Executed DEF StreamInv
  <2>2. ~closed
    BY <1>1 DEF StreamInv, Drained
  <2>3. QED
    BY <1>1, <2>1, <2>2 DEF StreamInv, engine
<1>4. EventInv'
  <2>1. \A s \in Slots : /\ copy_done[s] \in Int /\ graph_done[s] \in Int
                         /\ done[s] \in Int /\ slot[s].sequence \in Int
    BY <1>1 DEF TypeOK, Numbers
  <2>2. graph_done[l.slot] = slot[l.slot].sequence
    BY <1>1, <1>2, <2>1 DEF EventInv
  <2>3. /\ host_outputs'[l.slot] = slot[l.slot].frame /\ done'[l.slot] = slot[l.slot].sequence
        /\ \A s \in Slots \ {l.slot} : host_outputs'[s] = host_outputs[s] /\ done'[s] = done[s]
    BY <1>1, <1>2, <2>2 DEF EventInv, TypeOK, Contents, Numbers
  <2>4. done'[l.slot] <= graph_done[l.slot]
    BY <2>1, <2>2, <2>3, <1>2
  <2>5. QED
    BY <1>1, <2>1, <2>3, <2>4 DEF EventInv, engine
<1>5. RingInv' /\ LabelInv' /\ ActionIsOfItsFrame'
  BY <1>1 DEF IInv, RingInv, LabelInv, ActionIsOfItsFrame, engine
<1>6. QED
  BY <1>3, <1>4, <1>5

LEMMA InitIInv == Init => IInv
<1> SUFFICES ASSUME Init PROVE IInv
  OBVIOUS
<1>1. TypeOK
  BY InitType
<1>2. RingInv /\ StreamInv
  BY Sizes DEF Init, RingInv, StreamInv, Awaited, Drained
<1>3. LabelInv /\ EventInv /\ ActionIsOfItsFrame
  BY DEF Init, LabelInv, EventInv, ActionIsOfItsFrame, NoResult
<1>4. QED
  BY <1>1, <1>2, <1>3 DEF IInv

\* What a stream waits for depends on the numbers on the labels only.
LEMMA RelabelledAlike ==
    ASSUME NEW q, NEW event, NEW label, NEW relabel, NEW ring, NEW failed,
           Awaited(q, event, label, ring, failed),
           \A i \in 1..Len(q) : q[i].slot \in Slots,
           \A s \in Slots : relabel[s].sequence = label[s].sequence
    PROVE  Awaited(q, event, relabel, ring, failed)
BY DEF Awaited

LEMMA NextIInv == IInv /\ [Next]_vars => IInv'
<1> SUFFICES ASSUME IInv, [Next]_vars PROVE IInv'
  OBVIOUS
<1>1. TypeOK'
  BY TypeStep DEF IInv
<1> DEFINE Rest == RingInv /\ LabelInv /\ StreamInv /\ EventInv /\ ActionIsOfItsFrame
<1>2. ASSUME NEW f \in Frames, NEW age \in Ages, Submit(f, age) PROVE Rest'
  BY <1>2, SubmitKeeps
<1>3. ASSUME NEW f \in Frames, NEW age \in Ages, SubmitFails(f, age) PROVE Rest'
  BY <1>3, SubmitFailsKeeps
<1>4. ASSUME Poll PROVE Rest'
  BY <1>4, PollKeeps
<1>5. ASSUME Close PROVE Rest'
  BY <1>5, CloseKeeps
<1>6. ASSUME Copy PROVE Rest'
  BY <1>6, CopyKeeps
<1>7. ASSUME Compute PROVE Rest'
  BY <1>7, ComputeKeeps
<1>8. ASSUME Read PROVE Rest'
  BY <1>8, ReadKeeps
<1>9. ASSUME Tick PROVE Rest'
  <2>1. /\ \A s \in Slots : /\ slot'[s].sequence = slot[s].sequence
                            /\ slot'[s].frame = slot[s].frame
        /\ UNCHANGED <<pending, nextSlot, sequence, faulted, closed, last,
                       host_input, device_input, outputs, host_outputs,
                       copying, computing, reading, copy_done, graph_done, done>>
    BY <1>9 DEF Tick, IInv, TypeOK, buffers, streams, events
  <2>2. \A i \in 1..Len(pending) : pending[i] \in Slots
    BY DEF IInv, TypeOK
  <2>3. RingInv' /\ LabelInv' /\ EventInv' /\ ActionIsOfItsFrame'
    BY <2>1, <2>2 DEF IInv, RingInv, LabelInv, EventInv, ActionIsOfItsFrame
  <2>4. \A q \in {copying, computing, reading} : \A i \in 1..Len(q) : q[i].slot \in Slots
    <3>1. \A q \in {copying, computing, reading} : \A i \in 1..Len(q) : q[i] \in Launches
      BY DEF IInv, TypeOK
    <3>2. QED
      BY <3>1 DEF Launches
  <2>5. /\ Awaited(copying, copy_done, slot', pending, faulted)
        /\ Awaited(computing, graph_done, slot', pending, faulted)
        /\ Awaited(reading, done, slot', pending, faulted)
    BY <2>1, <2>4, RelabelledAlike DEF IInv, StreamInv
  <2>6. closed' => Drained'
    BY <2>1 DEF IInv, StreamInv, Drained
  <2>7. StreamInv'
    BY <2>1, <2>5, <2>6 DEF StreamInv
  <2>8. QED
    BY <2>3, <2>7
<1>10. ASSUME UNCHANGED vars PROVE Rest'
  <2>1. UNCHANGED <<pending, nextSlot, sequence, faulted, closed, slot, last,
                    host_input, device_input, outputs, host_outputs,
                    copying, computing, reading, copy_done, graph_done, done>>
    BY <1>10 DEF vars, engine, buffers, streams, events
  <2>2. RingInv' /\ LabelInv'
    BY <2>1 DEF IInv, RingInv, LabelInv
  <2>3. StreamInv'
    BY <2>1 DEF IInv, StreamInv, Drained
  <2>4. EventInv' /\ ActionIsOfItsFrame'
    BY <2>1 DEF IInv, EventInv, ActionIsOfItsFrame
  <2>5. QED
    BY <2>2, <2>3, <2>4
<1>11. Rest'
  BY <1>2, <1>3, <1>4, <1>5, <1>6, <1>7, <1>8, <1>9, <1>10 DEF Next, Gpu
<1>12. QED
  BY <1>1, <1>11 DEF IInv

\* The conjunction that is inductive: where each slot is in its round, and what
\* the streams still have to execute for it.
THEOREM InductiveInvariant == Spec => []IInv
<1>1. QED
  BY InitIInv, NextIInv, PTL DEF Spec

\* Every variable of the engine and of the streams keeps its type.
THEOREM TypesHold == Spec => []TypeOK
<1>1. IInv => TypeOK
  BY DEF IInv
<1>2. QED
  BY <1>1, InductiveInvariant, PTL

\* An action belongs to the frame its result names: for every ring size and
\* every order in which the streams execute what the CPU launched.
THEOREM ActionsAreOfTheirFrames == Spec => []ActionIsOfItsFrame
<1>1. IInv => ActionIsOfItsFrame
  BY DEF IInv
<1>2. QED
  BY <1>1, InductiveInvariant, PTL

\* A closed engine has no work outstanding on any slot.
THEOREM ClosingIsQuiet == Spec => []ClosedIsQuiet
<1>1. IInv => ClosedIsQuiet
  BY DEF IInv, StreamInv, Drained, ClosedIsQuiet, Outstanding
<1>2. QED
  BY <1>1, InductiveInvariant, PTL

\* A slot is only labelled and staged again when no stream works on it.
LEMMA StagingStep ==
    ASSUME IInv, [Next]_vars, NEW s \in Slots, Restaged(s)
    PROVE  ~Outstanding(s)
<1>1. ASSUME NEW f \in Frames, NEW age \in Ages, Usable, ~Full, Stage(nextSlot, f, age)
      PROVE  ~Outstanding(s)
  <2>1. s = nextSlot
    BY <1>1 DEF Restaged, Stage, IInv, TypeOK
  <2>2. Len(pending) < Capacity
    BY <1>1, Sizes DEF Full, IInv, RingInv, TypeOK
  <2>3. \A q \in {copying, computing, reading} : \A i \in 1..Len(q) : q[i].slot # nextSlot
    BY <1>1, <2>2, NextSlotIsIdle DEF IInv, StreamInv, Usable
  <2>4. \A q \in {copying, computing, reading} : DOMAIN q = 1..Len(q)
    BY DEF IInv, TypeOK
  <2>5. QED
    BY <2>1, <2>3, <2>4 DEF Outstanding
<1>2. ASSUME NEW f \in Frames, NEW age \in Ages, Submit(f, age) PROVE ~Outstanding(s)
  BY <1>1, <1>2 DEF Submit, Take
<1>3. ASSUME NEW f \in Frames, NEW age \in Ages, SubmitFails(f, age) PROVE ~Outstanding(s)
  BY <1>1, <1>3 DEF SubmitFails
<1>4. ASSUME Tick PROVE FALSE
  BY <1>4 DEF Restaged, Tick, IInv, TypeOK, buffers
<1>5. ASSUME Poll \/ Close \/ Gpu \/ UNCHANGED vars PROVE FALSE
  BY <1>5 DEF Restaged, Poll, Close, Gpu, Copy, Compute, Read, vars, engine, buffers
<1>6. QED
  BY <1>2, <1>3, <1>4, <1>5 DEF Next

\* The staging buffer of a slot is written only while no launch of that slot
\* is outstanding, for every ring size and also after a failure.
THEOREM StagingFindsFreeSlots == Spec => StagingIsFree
<1>1. IInv /\ [Next]_vars =>
          [\A s \in Slots : Restaged(s) => ~Outstanding(s)]_vars
  BY StagingStep
<1>2. QED
  BY <1>1, InductiveInvariant, PTL DEF Spec, StagingIsFree

-----------------------------------------------------------------------------
(* The ring implements the queue.                                          *)

Entries == [frame : Frames \cup {None}, age : Ages]

LEMMA QueueIsSeq ==
    ASSUME NEW ring \in Seq(Slots),
           NEW label \in [Slots -> [sequence : -1..MaxSequence, frame : Frames \cup {None}, age : Ages]]
    PROVE  /\ Queue(ring, label) \in Seq(Entries)
           /\ Len(Queue(ring, label)) = Len(ring)
           /\ DOMAIN Queue(ring, label) = 1..Len(ring)
           /\ \A i \in 1..Len(ring) : Queue(ring, label)[i] =
                  [frame |-> label[ring[i]].frame, age |-> label[ring[i]].age]
<1> DEFINE q == Queue(ring, label)
<1>1. DOMAIN ring = 1..Len(ring) /\ Len(ring) \in Nat /\ \A i \in 1..Len(ring) : ring[i] \in Slots
  OBVIOUS
<1>2. \A i \in 1..Len(ring) : [frame |-> label[ring[i]].frame, age |-> label[ring[i]].age] \in Entries
  BY <1>1 DEF Entries
<1>3. q \in [1..Len(ring) -> Entries]
  BY <1>1, <1>2 DEF Queue
<1>4. q \in Seq(Entries)
  BY <1>1, <1>3, SeqDef
<1>5. Len(q) = Len(ring)
  BY <1>1, <1>3, <1>4, LenProperties
<1>6. QED
  BY <1>1, <1>3, <1>4, <1>5 DEF Queue

\* The same frames with the same ages make the same queue.
LEMMA QueueEqual ==
    ASSUME NEW ring \in Seq(Slots), NEW q \in Seq(Entries),
           NEW label \in [Slots -> [sequence : -1..MaxSequence, frame : Frames \cup {None}, age : Ages]],
           Len(q) = Len(ring),
           \A i \in 1..Len(ring) : q[i] = [frame |-> label[ring[i]].frame, age |-> label[ring[i]].age]
    PROVE  Queue(ring, label) = q
<1> DEFINE r == Queue(ring, label)
<1>1. r \in Seq(Entries) /\ Len(r) = Len(q)
  BY QueueIsSeq
<1>2. \A i \in 1..Len(r) : r[i] = q[i]
  BY QueueIsSeq
<1> HIDE DEF r
<1>3. r = q
  BY <1>1, <1>2, SeqEqual
<1>4. QED
  BY <1>3 DEF r

LEMMA RefineInit == Init => Fifo!FifoInit
<1> SUFFICES ASSUME Init PROVE Fifo!FifoInit
  OBVIOUS
<1>1. pending \in Seq(Slots) /\ Len(pending) = 0
  BY DEF Init
<1>2. Queue(pending, slot) = <<>>
  BY <1>1, InitType, QueueEqual, EmptySeq DEF Init, TypeOK
<1>3. QED
  BY <1>2 DEF Init, Fifo!FifoInit, Fifo!NoAnswer, NoResult, Mode

\* Labels outside the ring do not show.
LEMMA StagedQueue ==
    ASSUME TypeOK, RingInv, Len(pending) < Capacity,
           NEW f \in Frames, NEW age \in Ages, Stage(nextSlot, f, age)
    PROVE  Queue(pending, slot') = Queue(pending, slot)
<1>1. \A i \in 1..Len(pending) : slot'[pending[i]] = slot[pending[i]]
  <2>1. \A i \in 1..Len(pending) : pending[i] \in Slots /\ pending[i] # nextSlot
    BY NextSlotIsFree DEF TypeOK
  <2>2. QED
    BY <2>1 DEF Stage, TypeOK
<1>2. Queue(pending, slot) \in Seq(Entries) /\ Len(Queue(pending, slot)) = Len(pending)
      /\ \A i \in 1..Len(pending) : Queue(pending, slot)[i] =
             [frame |-> slot[pending[i]].frame, age |-> slot[pending[i]].age]
  BY QueueIsSeq DEF TypeOK
<1>3. slot' \in [Slots -> [sequence : -1..MaxSequence, frame : Frames \cup {None}, age : Ages]]
  BY StageType DEF TypeOK
<1>4. \A i \in 1..Len(pending) : Queue(pending, slot)[i] =
          [frame |-> slot'[pending[i]].frame, age |-> slot'[pending[i]].age]
  BY <1>1, <1>2
<1>5. QED
  BY <1>2, <1>3, <1>4, QueueEqual DEF TypeOK

LEMMA SubmitAccepts ==
    ASSUME IInv, IInv', NEW f \in Frames, NEW age \in Ages, Submit(f, age)
    PROVE  Fifo!Accept(f, age)
<1> DEFINE q == Queue(pending, slot)
           e == [frame |-> f, age |-> age]
<1>1. /\ TypeOK /\ RingInv /\ Usable /\ ~Full /\ Stage(nextSlot, f, age)
      /\ pending' = Append(pending, nextSlot) /\ sequence' = sequence + 1
      /\ UNCHANGED <<faulted, closed, last>>
  BY DEF IInv, Submit, Take
<1>2. Len(pending) < Capacity
  BY <1>1, Sizes DEF Full, RingInv, TypeOK
<1>3. q \in Seq(Entries) /\ Len(q) = Len(pending) /\ Queue(pending, slot') = q
  BY <1>1, <1>2, QueueIsSeq, StagedQueue DEF TypeOK
<1>4. \A i \in 1..Len(pending) : q[i] = [frame |-> slot'[pending[i]].frame,
                                         age |-> slot'[pending[i]].age]
  <2>1. slot' \in [Slots -> [sequence : -1..MaxSequence, frame : Frames \cup {None}, age : Ages]]
    BY DEF IInv, TypeOK
  <2>2. \A i \in 1..Len(pending) : Queue(pending, slot')[i] =
            [frame |-> slot'[pending[i]].frame, age |-> slot'[pending[i]].age]
    BY <1>1, <2>1, QueueIsSeq DEF TypeOK
  <2>3. QED
    BY <1>3, <2>2
<1>5. slot'[nextSlot].frame = f /\ slot'[nextSlot].age = age
  BY <1>1 DEF Stage, TypeOK
<1>6. e \in Entries
  BY DEF Entries
<1> HIDE DEF q, e
<1>7. Append(q, e) \in Seq(Entries) /\ Len(Append(q, e)) = Len(pending')
  BY <1>1, <1>3, <1>6 DEF TypeOK
<1>8. \A i \in 1..Len(pending') : Append(q, e)[i] = [frame |-> slot'[pending'[i]].frame,
                                                     age |-> slot'[pending'[i]].age]
  <2>1. Len(pending') = Len(pending) + 1 /\ Len(pending) \in Nat
        /\ pending'[Len(pending) + 1] = nextSlot
        /\ \A i \in 1..Len(pending) : pending'[i] = pending[i]
    BY <1>1 DEF TypeOK
  <2>2. Append(q, e)[Len(pending) + 1] = e
        /\ \A i \in 1..Len(pending) : Append(q, e)[i] = q[i]
    BY <1>3, <1>6
  <2>3. SUFFICES ASSUME NEW i \in 1..Len(pending')
                 PROVE  Append(q, e)[i] = [frame |-> slot'[pending'[i]].frame,
                                           age |-> slot'[pending'[i]].age]
    OBVIOUS
  <2>4. CASE i = Len(pending) + 1
    BY <1>5, <2>1, <2>2, <2>4 DEF e
  <2>5. CASE i # Len(pending) + 1
    <3>1. i \in 1..Len(pending)
      BY <2>1, <2>5
    <3>2. QED
      BY <1>4, <2>1, <2>2, <3>1
  <2>6. QED
    BY <2>4, <2>5
<1>9. Queue(pending', slot') = Append(q, e)
  BY <1>7, <1>8, QueueEqual DEF IInv, TypeOK
<1>10. QED
  BY <1>1, <1>2, <1>3, <1>9 DEF Fifo!Accept, Usable, Mode, q, e

LEMMA PollAnswers ==
    ASSUME IInv, IInv', Poll
    PROVE  Fifo!Answer
<1> DEFINE q == Queue(pending, slot)
           s == Head(pending)
<1>1. /\ TypeOK /\ RingInv /\ EventInv /\ Usable /\ Ready
      /\ last' = [sequence |-> slot[s].sequence, frame |-> slot[s].frame, action |-> Vote(s)]
      /\ pending' = Tail(pending)
      /\ UNCHANGED <<sequence, faulted, closed, slot>>
  BY DEF IInv, Poll
<1>2. pending \in Seq(Slots) /\ pending # <<>> /\ Len(pending) \in Nat \ {0}
      /\ s = pending[1] /\ s \in Slots
  BY <1>1 DEF Ready, TypeOK
<1>3. /\ q \in Seq(Entries) /\ Len(q) = Len(pending)
      /\ \A i \in 1..Len(pending) : q[i] = [frame |-> slot[pending[i]].frame,
                                            age |-> slot[pending[i]].age]
  BY <1>1, QueueIsSeq DEF TypeOK
<1> HIDE DEF q
<1>4. q # <<>> /\ Head(q) = [frame |-> slot[s].frame, age |-> slot[s].age]
  <2>1. 1 \in 1..Len(pending) /\ Len(q) # 0
    BY <1>2, <1>3
  <2>2. q # <<>> /\ Head(q) = q[1]
    BY <1>3, <2>1
  <2>3. QED
    BY <1>2, <1>3, <2>1, <2>2
<1>5. slot[s].sequence = sequence - Len(q)
  <2>1. slot[pending[1]].sequence = sequence - Len(pending) + 1 - 1
    BY <1>1, <1>2 DEF RingInv
  <2>2. QED
    BY <1>1, <1>2, <1>3, <2>1 DEF TypeOK
<1>6. host_outputs[s] = slot[s].frame
  BY <1>1, <1>2 DEF Ready, EventInv
<1>7. Vote(s) = Fifo!ActionFor(Head(q).frame, Head(q).age)
  BY <1>4, <1>6 DEF Vote, Fifo!ActionFor
<1>8. Tail(q) \in Seq(Entries) /\ Len(Tail(q)) = Len(pending')
      /\ \A i \in 1..Len(pending') : Tail(q)[i] = q[i + 1] /\ pending'[i] = pending[i + 1]
  BY <1>1, <1>2, <1>3, <1>4, HeadTailProperties
<1>9. \A i \in 1..Len(pending') : i + 1 \in 1..Len(pending)
  BY <1>1, <1>2, HeadTailProperties
<1>10. \A i \in 1..Len(pending') : Tail(q)[i] = [frame |-> slot[pending'[i]].frame,
                                                 age |-> slot[pending'[i]].age]
  BY <1>3, <1>8, <1>9
<1>11. Queue(pending', slot') = Tail(q)
  BY <1>1, <1>8, <1>10, QueueEqual DEF IInv, TypeOK
<1>12. last' = [sequence |-> sequence - Len(q), frame |-> Head(q).frame,
                action |-> Fifo!ActionFor(Head(q).frame, Head(q).age)]
  BY <1>1, <1>4, <1>5, <1>7
<1>13. QED
  BY <1>1, <1>4, <1>11, <1>12 DEF Fifo!Answer, Usable, Mode, q

LEMMA TickPassesTime ==
    ASSUME IInv, Tick
    PROVE  Fifo!TimePasses
<1>1. TypeOK /\ DOMAIN pending = 1..Len(pending) /\ \A i \in 1..Len(pending) : pending[i] \in Slots
  BY DEF IInv, TypeOK
<1>2. \A i \in 1..Len(pending) : /\ slot'[pending[i]].frame = slot[pending[i]].frame
                                 /\ slot'[pending[i]].age = Older(slot[pending[i]].age)
  BY <1>1 DEF Tick, TypeOK
<1>3. Queue(pending, slot') = [i \in DOMAIN Queue(pending, slot) |->
          [Queue(pending, slot)[i] EXCEPT !.age = Fifo!Older(@)]]
  BY <1>1, <1>2 DEF Queue, Older, Fifo!Older
<1>4. QED
  BY <1>3 DEF Tick, Fifo!TimePasses, Mode

LEMMA CloseShuts ==
    ASSUME IInv, IInv', Close
    PROVE  Fifo!Shut
<1>1. pending' \in Seq(Slots) /\ Len(pending') = 0
  BY DEF Close
<1>2. Queue(pending', slot') = <<>>
  <2>1. slot' \in [Slots -> [sequence : -1..MaxSequence, frame : Frames \cup {None}, age : Ages]]
    BY DEF IInv, TypeOK
  <2>2. <<>> \in Seq(Entries) /\ Len(<<>>) = Len(pending')
    BY <1>1, EmptySeq
  <2>3. 1..Len(pending') = {}
    BY <1>1
  <2>4. QED
    BY <1>1, <2>1, <2>2, <2>3, QueueEqual
<1>3. QED
  BY <1>2 DEF Close, Fifo!Shut, Mode

LEMMA SubmitFailsFaults ==
    ASSUME IInv, NEW f \in Frames, NEW age \in Ages, SubmitFails(f, age)
    PROVE  Fifo!Fault
<1>1. TypeOK /\ RingInv /\ Len(pending) < Capacity
  BY Sizes DEF IInv, SubmitFails, Full, RingInv, TypeOK
<1>2. Queue(pending, slot') = Queue(pending, slot)
  BY <1>1, StagedQueue DEF SubmitFails
<1>3. QED
  BY <1>2 DEF SubmitFails, Usable, Fifo!Fault, Mode

LEMMA RefineNext == IInv /\ IInv' /\ [Next]_vars => [Fifo!FifoNext]_(Fifo!fifoVars)
<1> SUFFICES ASSUME IInv, IInv', [Next]_vars PROVE [Fifo!FifoNext]_(Fifo!fifoVars)
  OBVIOUS
<1>1. ASSUME NEW f \in Frames, NEW age \in Ages, Submit(f, age) PROVE Fifo!FifoNext
  BY <1>1, SubmitAccepts DEF Fifo!FifoNext, Fifo!Ages, Ages
<1>2. ASSUME NEW f \in Frames, NEW age \in Ages, SubmitFails(f, age) PROVE Fifo!FifoNext
  BY <1>2, SubmitFailsFaults DEF Fifo!FifoNext
<1>3. ASSUME Poll PROVE Fifo!FifoNext
  BY <1>3, PollAnswers DEF Fifo!FifoNext
<1>4. ASSUME Close PROVE Fifo!FifoNext
  BY <1>4, CloseShuts DEF Fifo!FifoNext
<1>5. ASSUME Tick PROVE Fifo!FifoNext
  BY <1>5, TickPassesTime DEF Fifo!FifoNext
<1>6. ASSUME Gpu \/ UNCHANGED vars PROVE UNCHANGED Fifo!fifoVars
  <2>1. UNCHANGED engine
    BY <1>6 DEF Gpu, Copy, Compute, Read, vars
  <2>2. QED
    BY <2>1 DEF engine, Fifo!fifoVars
<1>7. QED
  BY <1>1, <1>2, <1>3, <1>4, <1>5, <1>6 DEF Next

\* The ring implements the queue: every frame it accepts is answered once, in
\* order, from its own pixels and with no late action, or dropped by close.
THEOREM RingImplementsFifo == Spec => ImplementsFifo
<1>1. QED
  BY RefineInit, InductiveInvariant, RefineNext, PTL DEF Spec, ImplementsFifo, Fifo!FifoSpec

-----------------------------------------------------------------------------
(* The loop over the engine.                                               *)

LoopQuiet == closed => pc = "over" /\ Drained

\* Streams that are drained have nothing to execute.
LEMMA DrainedStays == Drained /\ Environment => UNCHANGED <<copying, computing, reading>>
BY DEF Drained, Environment, Gpu, Copy, Compute, Read, Tick, streams

\* Only close marks the engine as closed, after which the loop does nothing.
LEMMA QuietStep == LoopQuiet /\ [LoopNext]_allVars => LoopQuiet'
<1> SUFFICES ASSUME LoopQuiet, [LoopNext]_allVars, closed' PROVE pc' = "over" /\ Drained'
  BY DEF LoopQuiet
<1>1. CASE CloseStep
  <2>1. Close /\ pc' = "over"
    BY <1>1 DEF CloseStep
  <2>2. Drained /\ UNCHANGED <<copying, computing, reading>>
    BY <2>1 DEF Close, streams
  <2>3. QED
    BY <2>1, <2>2 DEF Drained
<1>2. CASE Environment
  <2>1. closed' = closed /\ pc' = pc
    BY <1>2 DEF Environment, loopVars, Gpu, Copy, Compute, Read, Tick, engine
  <2>2. pc = "over" /\ Drained
    BY <2>1 DEF LoopQuiet
  <2>3. UNCHANGED <<copying, computing, reading>>
    BY <1>2, <2>2, DrainedStays
  <2>4. QED
    BY <2>1, <2>2, <2>3 DEF Drained
<1>3. CASE UNCHANGED allVars
  <2>1. UNCHANGED <<closed, pc, copying, computing, reading>>
    BY <1>3 DEF allVars, loopVars, vars, engine, streams
  <2>2. QED
    BY <2>1 DEF LoopQuiet, Drained
<1>4. ASSUME PollStep \/ Fetching \/ NoSubmitStep \/ FinishStep \/ Raising
      PROVE  FALSE
  <2>1. pc # "over"
    BY <1>4 DEF PollStep, Fetching, SubmitStep, NoSubmitStep, FinishStep, Raising,
                SubmitRaises, SubmitInterrupted, ConsumeRaises, Interrupted, CloseRaises
  <2>2. ~closed
    BY <2>1 DEF LoopQuiet
  <2>3. closed' = closed
    <3>1. CASE PollStep \/ NoSubmitStep \/ FinishStep
      BY <3>1 DEF PollStep, NoSubmitStep, FinishStep, Poll, vars, engine
    <3>2. CASE Fetching
      BY <3>2 DEF Fetching, SubmitStep, Submit, vars, engine
    <3>3. CASE Raising
      BY <3>3 DEF Raising, SubmitRaises, SubmitInterrupted, ConsumeRaises, Interrupted,
                  CloseRaises, SubmitFails, Poll, vars, engine
    <3>4. QED
      BY <1>4, <3>1, <3>2, <3>3
  <2>4. QED
    BY <2>2, <2>3
<1>5. QED
  BY <1>1, <1>2, <1>3, <1>4 DEF LoopNext, Loop

\* The engine that a loop closed has no work outstanding, also that of a submission
\* which an interrupt left out of the ring: close waits for the streams, not for
\* the results.
THEOREM LoopClosesQuiet == LoopSpec => []ClosedIsQuiet
<1>1. LoopInit => LoopQuiet
  BY DEF LoopInit, Init, LoopQuiet
<1>2. LoopQuiet => ClosedIsQuiet
  BY DEF LoopQuiet, ClosedIsQuiet, Drained, Outstanding
<1>3. QED
  BY <1>1, <1>2, QuietStep, PTL DEF LoopSpec

\* A frame is fetched only together with its submission, or the loop is left.
LEMMA FetchStep == FetchedFramesAreSubmitted /\ [LoopNext]_allVars => FetchedFramesAreSubmitted'
<1> SUFFICES ASSUME FetchedFramesAreSubmitted, [LoopNext]_allVars PROVE FetchedFramesAreSubmitted'
  OBVIOUS
<1>1. CASE PollStep \/ NoSubmitStep \/ FinishStep \/ CloseStep \/ Environment \/ UNCHANGED allVars
  <2>1. UNCHANGED <<fetched, raised>>
    BY <1>1 DEF PollStep, NoSubmitStep, FinishStep, CloseStep, Environment, allVars, loopVars
  <2>2. sequence' = sequence
    BY <1>1 DEF PollStep, NoSubmitStep, FinishStep, CloseStep, Environment, Poll, Close, Gpu,
       Copy, Compute, Read, Tick, allVars, vars, engine
  <2>3. QED
    BY <2>1, <2>2 DEF FetchedFramesAreSubmitted
<1>2. CASE Fetching
  <2>1. PICK f \in Frames, age \in Ages : SubmitStep(f, age)
    BY <1>2 DEF Fetching
  <2>2. ~Full
    BY <2>1, Sizes DEF SubmitStep, Room, Full
  <2>3. fetched' = fetched + 1 /\ sequence' = sequence + 1 /\ raised' = raised
    BY <2>1, <2>2 DEF SubmitStep, Submit, Take
  <2>4. QED
    BY <2>3 DEF FetchedFramesAreSubmitted
<1>3. CASE Raising
  <2>1. raised' = TRUE
    BY <1>3 DEF Raising, SubmitRaises, SubmitInterrupted, ConsumeRaises, Interrupted,
                CloseRaises, Raise
  <2>2. QED
    BY <2>1 DEF FetchedFramesAreSubmitted
<1>4. QED
  BY <1>1, <1>2, <1>3 DEF LoopNext, Loop

\* "No frames are fetched when the ring is full": the guard of active_loop is what
\* try_submit asks for, so a loop that is not left by an exception drops no frame.
THEOREM LoopDropsNoFrame == LoopSpec => []FetchedFramesAreSubmitted
<1>1. LoopInit => FetchedFramesAreSubmitted
  BY DEF LoopInit, Init, FetchedFramesAreSubmitted
<1>2. QED
  BY <1>1, FetchStep, PTL DEF LoopSpec
=============================================================================
