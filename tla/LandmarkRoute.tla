---------------------------- MODULE LandmarkRoute ----------------------------
(***************************************************************************)
(* strategist/landmark_route.py: the graph of breadcrumbs between the      *)
(* landmarks of the game, and the way to the goal in it.                   *)
(***************************************************************************)
EXTENDS Naturals, Sequences, FiniteSets, SequencesExt

CONSTANTS
    Landmarks,      (* the labels                                           *)
    Inputs,         (* the names of the actions                             *)
    Goal,           (* the label the route leads to                         *)
    NoEdge          (* next_edge returns None                               *)

Edges == [source : Landmarks, target : Landmarks, action : Inputs]
Edge(from, to, action) == [source |-> from, target |-> to, action |-> action]

ASSUME RouteAssumption ==
    Goal \in Landmarks /\ IsFiniteSet(Landmarks) /\ NoEdge \notin Edges

VARIABLE edges      (* the edges, in the order they were learned            *)

-----------------------------------------------------------------------------
(* next_edge: a breadth-first search from the current landmark.  A search  *)
(* has a queue of <<landmark, first edge of the way there>>, the landmarks *)
(* it has visited and, once the goal is met, its answer.                   *)

\* Mutant: the search gives the edge that enters the goal.
MeetLast(search, node, first, edge) ==
    IF search.found # NoEdge \/ edge.source # node \/ edge.target \in search.visited
    THEN search
    ELSE IF edge.target = Goal THEN [search EXCEPT !.found = edge]
    ELSE [search EXCEPT !.visited = @ \cup {edge.target},
                        !.queue = Append(@, <<edge.target, edge>>)]

\* One edge of the inner loop, at a node that was reached by way of first.
Meet(search, node, first, edge) ==
    LET head == IF first = NoEdge THEN edge ELSE first IN
    IF search.found # NoEdge \/ edge.source # node \/ edge.target \in search.visited
    THEN search
    ELSE IF edge.target = Goal THEN [search EXCEPT !.found = head]
    ELSE [search EXCEPT !.visited = @ \cup {edge.target},
                        !.queue = Append(@, <<edge.target, head>>)]

\* The inner loop, edge by edge, at the landmark that is first in the queue.
Meets(search, known) ==
    LET at == Head(search.queue)
        meet[i \in 0..Len(known)] ==
            IF i = 0 THEN [search EXCEPT !.queue = Tail(@)]
            ELSE Meet(meet[i - 1], at[1], at[2], known[i])
    IN  meet

\* One turn of the outer loop.
Visit(search, known) ==
    IF search.found # NoEdge \/ search.queue = <<>> THEN search
    ELSE Meets(search, known)[Len(known)]

\* The outer loop.  A landmark is queued once, so there are no more turns than
\* landmarks.
Turns(known, current) ==
    LET start == [queue |-> <<<<current, NoEdge>>>>, visited |-> {current}, found |-> NoEdge]
        turn[n \in 0..Cardinality(Landmarks)] ==
            IF n = 0 THEN start ELSE Visit(turn[n - 1], known)
    IN  turn

NextEdge(known, current) ==
    IF current = Goal THEN NoEdge ELSE Turns(known, current)[Cardinality(Landmarks)].found

-----------------------------------------------------------------------------

\* observe: only a change that was seen makes a breadcrumb.
Observe(before, action, after) ==
    edges' = IF before = after \/ Contains(edges, Edge(before, after, action))
                THEN edges ELSE Append(edges, Edge(before, after, action))

-----------------------------------------------------------------------------
(* The reference: from the landmarks of Near(known)[n] the goal is at most *)
(* n edges away, and from those of ring n it is n edges away.              *)

Near(known) ==
    LET near[n \in 0..Cardinality(Landmarks)] ==
            IF n = 0 THEN {Goal}
            ELSE LET nearer == near[n - 1] IN
                 nearer \cup {e.source : e \in {f \in ToSet(known) : f.target \in nearer}}
    IN  near

Rings(known) ==
    LET near == Near(known)
    IN  [n \in 1..Cardinality(Landmarks) |-> near[n] \ near[n - 1]]

\* next_edge answers with the first edge of a shortest way to the goal, and
\* with None exactly when there is no way, or none is needed.
NextEdgeIsShortest ==
    LET ring == Rings(edges) IN
    \A l \in Landmarks \ {Goal} :
        LET e == NextEdge(edges, l) IN
        IF e = NoEdge THEN \A n \in DOMAIN ring : l \notin ring[n]
        ELSE /\ Contains(edges, e) /\ e.source = l
             /\ \E n \in DOMAIN ring :
                    l \in ring[n] /\ e.target \in (IF n = 1 THEN {Goal} ELSE ring[n - 1])
=============================================================================
