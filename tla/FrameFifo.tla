------------------------------ MODULE FrameFifo ------------------------------
(***************************************************************************)
(* What the recorded agent engine promises its caller, without slots,      *)
(* streams or buffers: a bounded queue of frames that answers each of them *)
(* once, in order, from its own pixels, and never with a late action.      *)
(***************************************************************************)
EXTENDS Integers, Sequences

CONSTANTS
    Frames,       (* the frames a caller may submit                          *)
    Unusable,     (* the frames whose embedding is not finite or is zero     *)
    Capacity,     (* the size of the ring                                    *)
    Budget,       (* the deadline, in ticks                                  *)
    None          (* no frame and no action                                  *)

VARIABLES
    queue,      (* the accepted frames that wait for their answer, with ages *)
    accepted,   (* how many frames were accepted                             *)
    last,       (* the last answer: its number, its frame and the action     *)
    mode        (* open, faulted or closed                                   *)

fifoVars == <<queue, accepted, last, mode>>

Ages == 0..Budget

NoAnswer == [sequence |-> -1, frame |-> None, action |-> None]

\* Older by one tick; ages past the deadline are all alike.
Older(age) == IF age < Budget THEN age + 1 ELSE age

\* The action recorded for frames like f (named by f itself), unless the frame
\* is unusable or the answer is late: the deadline is strict.
ActionFor(f, age) == IF age >= Budget \/ f \in Unusable THEN None ELSE f

FifoInit == queue = <<>> /\ accepted = 0 /\ last = NoAnswer /\ mode = "open"

Accept(f, age) ==
    /\ mode = "open" /\ Len(queue) < Capacity
    /\ queue' = Append(queue, [frame |-> f, age |-> age])
    /\ accepted' = accepted + 1
    /\ UNCHANGED <<last, mode>>

Answer ==
    /\ mode = "open" /\ queue # <<>>
    /\ last' = [sequence |-> accepted - Len(queue), frame |-> Head(queue).frame,
                action |-> ActionFor(Head(queue).frame, Head(queue).age)]
    /\ queue' = Tail(queue)
    /\ UNCHANGED <<accepted, mode>>

TimePasses ==
    /\ queue' = [i \in DOMAIN queue |-> [queue[i] EXCEPT !.age = Older(@)]]
    /\ UNCHANGED <<accepted, last, mode>>

\* A submission that fails accepts nothing, and the engine answers no more.
Fault ==
    /\ mode = "open" /\ mode' = "faulted"
    /\ UNCHANGED <<queue, accepted, last>>

\* Closing drops what is not answered.
Shut ==
    /\ mode # "closed" /\ mode' = "closed"
    /\ queue' = <<>>
    /\ UNCHANGED <<accepted, last>>

FifoNext ==
    \/ \E f \in Frames, age \in Ages : Accept(f, age)
    \/ Answer
    \/ TimePasses
    \/ Fault
    \/ Shut

FifoSpec == FifoInit /\ [][FifoNext]_fifoVars
=============================================================================
