--------------------------- MODULE SampleSelection ---------------------------
(***************************************************************************)
(* select_samples of evaluation/dataset_gate.py: the frames of the         *)
(* eligible segments that the encoder is probed with.  A segment is its    *)
(* type, its outcome, its number of frames and whether it is a full        *)
(* attempt; boss and phase divide the strata further in the same way and   *)
(* are left out.                                                           *)
(***************************************************************************)
EXTENDS Integers, Sequences, FiniteSets

CONSTANT Strata     (* the pairs <<type, outcome>> in the order of sorted() *)

\* They are the keys of a dict.
ASSUME StrataAssumption ==
    /\ Strata \in Seq(STRING \X STRING)
    /\ \A j, k \in DOMAIN Strata : Strata[j] = Strata[k] => j = k

Segment(kind, outcome, frames, full) == <<kind, outcome, frames, full>>
Kind(s) == s[1]
Outcome(s) == s[2]
FrameCount(s) == s[3]
FullAttempt(s) == s[4]

\* The strata are those of the segments, and others maybe.
Listed(kind, outcome) == \E k \in DOMAIN Strata : Strata[k] = <<kind, outcome>>
AllListed(segments) == \A j \in DOMAIN segments : Listed(Kind(segments[j]), Outcome(segments[j]))

\* A frame is a segment and an index in it.
Frames(segments) == UNION {{j} \X (0..(FrameCount(segments[j]) - 1)) : j \in DOMAIN segments}

Stratum(segments, k) ==
    {f \in Frames(segments) : <<Kind(segments[f[1]]), Outcome(segments[f[1]])>> = Strata[k]}

Groups(segments) == {k \in DOMAIN Strata : Stratum(segments, k) # {}}
Sizes(segments) == [k \in Groups(segments) |-> Cardinality(Stratum(segments, k))]

Earlier(d, e) == d[1] < e[1] \/ (d[1] = e[1] /\ d[2] < e[2])

\* Every stratum is to be covered, as far as there are frames.
Wanted(segments, count) ==
    LET least == Cardinality(Groups(segments))
        total == Cardinality(Frames(segments))
        goal  == IF count < least THEN least ELSE count
    IN  IF total < goal THEN total ELSE goal

\* Mutant: a stratum whose frames are all taken is dealt to nevertheless.
DealsToAll(sizes, wanted) == (1..wanted) \X DOMAIN sizes

\* In every round each stratum that has frames left gets one, in their order ...
Deals(sizes, wanted) == {d \in (1..wanted) \X DOMAIN sizes : d[1] <= sizes[d[2]]}

\* ... until none remains to be dealt.
Quotas(segments, count) ==
    LET wanted == Wanted(segments, count)
        deals  == Deals(Sizes(segments), wanted)
        dealt  == {d \in deals : Cardinality({e \in deals : Earlier(e, d)}) < wanted}
    IN  [k \in Groups(segments) |-> Cardinality({d \in dealt : d[2] = k})]

\* "Include both ends; integer spacing never selects a frame twice."
Offset(i, size, quota) ==
    IF quota > 1 THEN (i * (size - 1)) \div (quota - 1) ELSE size \div 2

\* The frame of the stratum that comes after so many others.
Located(segments, k, offset) ==
    LET frames == Stratum(segments, k)
    IN  {f \in frames : Cardinality({e \in frames : Earlier(e, f)}) = offset}

\* The i-th sample of each stratum.
Selected(segments, count) ==
    LET quotas == Quotas(segments, count)
        sizes  == Sizes(segments)
    IN  UNION {UNION {{k} \X {i} \X Located(segments, k, Offset(i, sizes[k], quotas[k])) :
                         i \in 0..(quotas[k] - 1)} : k \in DOMAIN quotas}

-----------------------------------------------------------------------------

\* What a probe of the encoder relies on: as many frames as were asked for or
\* as there are, none of them twice; every stratum is there, from its first frame
\* to its last if it is there twice; and a stratum lags behind another one only
\* when it has no more frames.
CoversDataset(segments, count) ==
    LET samples == Selected(segments, count)
        Of(k)   == {s[3] : s \in {t \in samples : t[1] = k}}
    IN
    /\ Cardinality(samples) = Wanted(segments, count)
    /\ Cardinality({s[3] : s \in samples}) = Cardinality(samples)
    /\ \A k \in Groups(segments) :
         LET frames == Stratum(segments, k) IN
         /\ Of(k) # {}
         /\ Cardinality(Of(k)) > 1 =>
              {f \in frames : (\A e \in frames : ~Earlier(e, f)) \/ (\A e \in frames : ~Earlier(f, e))}
                  \subseteq Of(k)
         /\ Of(k) # frames =>
              \A j \in Groups(segments) : Cardinality(Of(j)) <= Cardinality(Of(k)) + 1
=============================================================================
