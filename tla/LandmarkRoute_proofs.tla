------------------------ MODULE LandmarkRoute_proofs ------------------------
(***************************************************************************)
(* next_edge answers with the first edge of a shortest way, for every      *)
(* graph of landmarks and every place in it.                               *)
(***************************************************************************)
EXTENDS LandmarkRoute, Integers, FiniteSetTheorems, WellFoundedInduction, TLAPS

-----------------------------------------------------------------------------
(* Induction over the numbers up to n, and the functions that are defined  *)
(* by recursion over them.  What is to be shown is a set of numbers here,  *)
(* and a step is a function: the provers can instantiate these.            *)

\* A set of numbers has a least one.
LEMMA LeastExists ==
    ASSUME NEW T, T \subseteq Nat, T # {}
    PROVE  \E m \in T : \A k \in T : m <= k
<1>1. PICK m \in T : \A k \in T : ~(<<k, m>> \in OpToRel(<, Nat))
  BY WFMin, NatLessThanWellFounded, Zenon
<1>2. \A k \in T : ~(k < m)
  BY <1>1 DEF OpToRel
<1> QED
  BY <1>2

\* Induction: T is the set of the numbers of which the claim holds.
LEMMA UpTo ==
    ASSUME NEW n \in Nat, NEW T, 0 \in T, \A k \in 0..(n - 1) : k \in T => k + 1 \in T
    PROVE  \A k \in 0..n : k \in T
<1> DEFINE Bad == {k \in 0..n : k \notin T}
<1> SUFFICES ASSUME Bad # {} PROVE FALSE
  OBVIOUS
<1>1. PICK m \in Bad : \A k \in Bad : m <= k
  <2>1. Bad \subseteq Nat
    OBVIOUS
  <2> HIDE DEF Bad
  <2> QED
    BY <2>1, LeastExists
<1>2. m \in 0..n /\ m \notin T /\ m # 0
  OBVIOUS
<1>3. m - 1 \in 0..(n - 1) /\ m - 1 \notin Bad
  BY <1>1, <1>2
<1> QED
  BY <1>2, <1>3

\* f starts with a value and goes on from each value by the next step.
Follows(f, first, Step, n) ==
    f[0] = first /\ \A i \in 1..n : f[i] = Step[i][f[i - 1]]

\* A recursive definition has a solution, which takes its values where the
\* first one and the steps do.
LEMMA RecursionExists ==
    ASSUME NEW n \in Nat, NEW S, NEW first \in S, NEW Step \in [1..n -> [S -> S]]
    PROVE  \E f \in [0..n -> S] : Follows(f, first, Step, n)
<1> DEFINE Solves(f, k) == f[0] = first /\ \A i \in 1..k : f[i] = Step[i][f[i - 1]]
           T == {k \in 0..n : \E f \in [0..k -> S] : Solves(f, k)}
<1>1. 0 \in T
  <2> DEFINE g == [i \in 0..0 |-> first]
  <2>1. g \in [0..0 -> S] /\ Solves(g, 0) /\ 0 \in 0..n
    OBVIOUS
  <2> HIDE DEF g
  <2> QED
    BY <2>1
<1>2. ASSUME NEW k \in 0..(n - 1), k \in T
      PROVE  k + 1 \in T
  <2> PICK f \in [0..k -> S] : Solves(f, k)
    BY <1>2
  <2> DEFINE g == [i \in 0..(k + 1) |-> IF i = k + 1 THEN Step[k + 1][f[k]] ELSE f[i]]
  <2>1. k \in Nat /\ k + 1 \in 1..n /\ Step[k + 1] \in [S -> S] /\ f[k] \in S
    OBVIOUS
  <2>2. g \in [0..(k + 1) -> S]
    BY <2>1
  <2>3. g[0] = first
    BY <2>1
  <2>4. \A i \in 1..(k + 1) : g[i] = Step[i][g[i - 1]]
    <3>1. \A i \in 1..k : g[i] = f[i] /\ g[i - 1] = f[i - 1]
      BY <2>1
    <3>2. g[k + 1] = Step[k + 1][f[k]] /\ g[k] = f[k]
      BY <2>1
    <3>3. \A i \in 1..(k + 1) : i \in 1..k \/ i = k + 1
      BY <2>1
    <3> HIDE DEF g
    <3> QED
      BY <2>1, <3>1, <3>2, <3>3
  <2> HIDE DEF g
  <2> QED
    BY <2>1, <2>2, <2>3, <2>4
<1>3. n \in T
  <2> HIDE DEF T
  <2>1. \A k \in 0..(n - 1) : k \in T => k + 1 \in T
    BY <1>2
  <2>2. \A k \in 0..n : k \in T
    BY <1>1, <2>1, UpTo, Zenon
  <2> QED
    BY <2>2
<1> QED
  BY <1>3 DEF Follows

\* A function whose first value is in S and whose next values are if the ones
\* before them are.
LEMMA RecursionStays ==
    ASSUME NEW n \in Nat, NEW S, NEW f, DOMAIN f = 0..n, f = [i \in DOMAIN f |-> f[i]],
           f[0] \in S, \A i \in 1..n : f[i - 1] \in S => f[i] \in S
    PROVE  f \in [0..n -> S]
<1> DEFINE T == {i \in 0..n : f[i] \in S}
<1>1. 0 \in T
  OBVIOUS
<1>2. \A i \in 0..(n - 1) : i \in T => i + 1 \in T
  <2> SUFFICES ASSUME NEW i \in 0..(n - 1), i \in T
               PROVE  i + 1 \in 0..n /\ f[i + 1] \in S
    OBVIOUS
  <2>1. i + 1 \in 1..n /\ (i + 1) - 1 = i
    OBVIOUS
  <2> QED
    BY <2>1
<1>3. \A i \in 0..n : i \in T
  <2> HIDE DEF T
  <2> QED
    BY <1>1, <1>2, UpTo, Zenon
<1> QED
  BY <1>3

-----------------------------------------------------------------------------
(* The route.  The loops of next_edge and the reference it is compared     *)
(* with are functions defined by recursion; each has the values that its   *)
(* definition says.                                                        *)

Size == Cardinality(Landmarks)
Entries == Landmarks \X (Edges \cup {NoEdge})
Searches == [queue : Seq(Entries), visited : SUBSET Landmarks, found : Edges \cup {NoEdge}]

LEMMA SizeIsNat == Size \in Nat
BY RouteAssumption, FS_CardinalityType DEF Size

\* What appending an entry and dropping the head do to a queue.
LEMMA QueueIs ==
    ASSUME NEW S, NEW q \in Seq(S), NEW x \in S
    PROVE  /\ Append(q, x) \in Seq(S) /\ Len(Append(q, x)) = Len(q) + 1 /\ Len(q) \in Nat
           /\ \A i \in 1..Len(q) : Append(q, x)[i] = q[i] /\ q[i] \in S
           /\ Append(q, x)[Len(q) + 1] = x
           /\ q # <<>> => /\ Len(q) > 0 /\ Head(q) = q[1] /\ Tail(q) \in Seq(S)
                          /\ Len(Tail(q)) = Len(q) - 1
                          /\ \A i \in 1..(Len(q) - 1) : Tail(q)[i] = q[i + 1]
OBVIOUS

LEMMA MeetIsSearch ==
    ASSUME NEW s \in Searches, NEW node, NEW first \in Edges \cup {NoEdge}, NEW e \in Edges
    PROVE  Meet(s, node, first, e) \in Searches
<1> DEFINE head == IF first = NoEdge THEN e ELSE first
           pushed == [s EXCEPT !.visited = @ \cup {e.target}, !.queue = Append(@, <<e.target, head>>)]
<1>1. head \in Edges /\ e.target \in Landmarks
  BY DEF Edges
<1>2. [s EXCEPT !.found = head] \in Searches
  BY <1>1 DEF Searches
<1>3. pushed \in Searches
  <2>1. <<e.target, head>> \in Entries
    BY <1>1 DEF Entries
  <2> HIDE DEF head
  <2>2. Append(s.queue, <<e.target, head>>) \in Seq(Entries)
    BY <2>1, QueueIs DEF Searches
  <2> QED
    BY <1>1, <2>2 DEF Searches
<1> HIDE DEF head, pushed
<1>4. Meet(s, node, first, e) \in {s, [s EXCEPT !.found = head], pushed}
  BY DEF Meet, head, pushed
<1> QED
  BY <1>2, <1>3, <1>4

LEMMA MeetsIs ==
    ASSUME NEW s \in Searches, s.queue # <<>>, NEW known \in Seq(Edges)
    PROVE  LET meet == Meets(s, known)
           IN  /\ meet \in [0..Len(known) -> Searches]
               /\ meet[0] = [s EXCEPT !.queue = Tail(@)]
               /\ \A i \in 1..Len(known) :
                    meet[i] = Meet(meet[i - 1], Head(s.queue)[1], Head(s.queue)[2], known[i])
<1> DEFINE n == Len(known)
           node == Head(s.queue)[1]
           first == Head(s.queue)[2]
           popped == [s EXCEPT !.queue = Tail(@)]
           OneTurn == [i \in 1..n |-> [t \in Searches |-> Meet(t, node, first, known[i])]]
           Solves(f) == f = [i \in 0..n |-> IF i = 0 THEN popped
                                            ELSE Meet(f[i - 1], node, first, known[i])]
<1>1. n \in Nat /\ \A i \in 1..n : known[i] \in Edges
  OBVIOUS
<1>2. s.queue \in Seq(Entries) /\ Head(s.queue) \in Entries /\ Tail(s.queue) \in Seq(Entries)
  BY DEF Searches
<1>3. first \in Edges \cup {NoEdge} /\ popped \in Searches
  <2>1. popped \in Searches
    BY <1>2 DEF Searches
  <2> QED
    BY <1>2, <2>1 DEF Entries
<1>4. OneTurn \in [1..n -> [Searches -> Searches]]
  <2> HIDE DEF n, first, node
  <2> QED
    BY <1>1, <1>3, MeetIsSearch
<1>5. PICK f \in [0..n -> Searches] : f[0] = popped /\ \A i \in 1..n : f[i] = OneTurn[i][f[i - 1]]
  <2> HIDE DEF OneTurn, popped, n
  <2>1. \E f \in [0..n -> Searches] : Follows(f, popped, OneTurn, n)
    BY <1>1, <1>3, <1>4, RecursionExists
  <2> QED
    BY <2>1 DEF Follows
<1>6. \A i \in 1..n : f[i - 1] \in Searches /\ f[i] = Meet(f[i - 1], node, first, known[i])
  <2> HIDE DEF n, first, node, popped
  <2>1. \A i \in 1..n : i - 1 \in 0..n
    BY <1>1
  <2> QED
    BY <1>5, <2>1
<1>7. Solves(f)
  <2> HIDE DEF n, first, node, popped
  <2> QED
    BY <1>1, <1>5, <1>6
<1>8. Meets(s, known) = CHOOSE g : Solves(g)
  BY DEF Meets
<1> DEFINE meet == Meets(s, known)
<1>9. Solves(meet)
  <2> HIDE DEF Solves
  <2> QED
    BY <1>7, <1>8
<1>10. /\ meet[0] = popped
       /\ \A i \in 1..n : meet[i] = Meet(meet[i - 1], node, first, known[i])
  <2> HIDE DEF meet, n, first, node, popped
  <2> QED
    BY <1>1, <1>9
<1>11. meet \in [0..n -> Searches]
  <2> HIDE DEF meet, n, first, node, popped
  <2>1. DOMAIN meet = 0..n /\ meet = [i \in DOMAIN meet |-> meet[i]]
    BY <1>9
  <2>2. \A i \in 1..n : meet[i - 1] \in Searches => meet[i] \in Searches
    BY <1>1, <1>3, <1>10, MeetIsSearch
  <2> QED
    BY <1>1, <1>3, <1>10, <2>1, <2>2, RecursionStays, Zenon
<1> QED
  BY <1>10, <1>11

Start(current) == [queue |-> <<<<current, NoEdge>>>>, visited |-> {current}, found |-> NoEdge]

LEMMA VisitIsSearch ==
    ASSUME NEW s \in Searches, NEW known \in Seq(Edges)
    PROVE  Visit(s, known) \in Searches
<1>1. CASE s.found # NoEdge \/ s.queue = <<>>
  BY <1>1 DEF Visit
<1>2. CASE ~(s.found # NoEdge \/ s.queue = <<>>)
  <2>1. Meets(s, known) \in [0..Len(known) -> Searches] /\ Len(known) \in Nat
    <3>1. s.queue # <<>> /\ Len(known) \in Nat
      BY <1>2
    <3> QED
      BY <3>1, MeetsIs, Zenon
  <2> QED
    BY <1>2, <2>1 DEF Visit
<1> QED
  BY <1>1, <1>2

LEMMA TurnsIs ==
    ASSUME NEW current \in Landmarks, NEW known \in Seq(Edges)
    PROVE  LET turn == Turns(known, current)
           IN  /\ turn \in [0..Size -> Searches]
               /\ turn[0] = Start(current)
               /\ \A n \in 1..Size : turn[n] = Visit(turn[n - 1], known)
<1> DEFINE start == Start(current)
           OneTurn == [i \in 1..Size |-> [t \in Searches |-> Visit(t, known)]]
           Solves(f) == f = [i \in 0..Size |-> IF i = 0 THEN start ELSE Visit(f[i - 1], known)]
<1>1. start \in Searches
  <2>1. <<current, NoEdge>> \in Entries
    BY DEF Entries
  <2>2. <<<<current, NoEdge>>>> \in Seq(Entries)
    BY <2>1
  <2> QED
    BY <2>2 DEF Start, Searches
<1> HIDE DEF start
<1>2. OneTurn \in [1..Size -> [Searches -> Searches]]
  BY VisitIsSearch
<1>3. PICK f \in [0..Size -> Searches] :
            f[0] = start /\ \A i \in 1..Size : f[i] = OneTurn[i][f[i - 1]]
  <2> HIDE DEF OneTurn
  <2> QED
    <3>1. \E f \in [0..Size -> Searches] : Follows(f, start, OneTurn, Size)
      BY SizeIsNat, <1>1, <1>2, RecursionExists
    <3> QED
      BY <3>1 DEF Follows
<1>4. \A i \in 1..Size : f[i] = Visit(f[i - 1], known)
  <2>1. \A i \in 1..Size : i - 1 \in 0..Size
    BY SizeIsNat
  <2> QED
    BY <1>3, <2>1
<1>5. Solves(f)
  BY SizeIsNat, <1>3, <1>4
<1> DEFINE turn == Turns(known, current)
<1>6. Solves(turn)
  <2>1. turn = CHOOSE g : Solves(g)
    BY DEF Turns, Start, start, Size
  <2> HIDE DEF Solves
  <2> QED
    BY <1>5, <2>1
<1> HIDE DEF turn
<1>7. /\ DOMAIN turn = 0..Size /\ turn = [i \in DOMAIN turn |-> turn[i]]
      /\ turn[0] = start
      /\ \A i \in 1..Size : turn[i] = Visit(turn[i - 1], known)
  BY SizeIsNat, <1>6
<1>8. \A i \in 1..Size : turn[i - 1] \in Searches => turn[i] \in Searches
  BY <1>7, VisitIsSearch
<1>9. turn \in [0..Size -> Searches]
  BY SizeIsNat, <1>1, <1>7, <1>8, RecursionStays, Zenon
<1> QED
  BY <1>7, <1>9 DEF turn, start

\* Whoever is nearer, and whoever has an edge to one of these.
Nearer(known, S) == S \cup {e.source : e \in {f \in ToSet(known) : f.target \in S}}

LEMMA NearIs ==
    ASSUME NEW known \in Seq(Edges)
    PROVE  LET near == Near(known)
           IN  /\ near \in [0..Size -> SUBSET Landmarks]
               /\ near[0] = {Goal}
               /\ \A n \in 1..Size : \A x :
                    x \in near[n] <=> \/ x \in near[n - 1]
                                      \/ \E i \in 1..Len(known) : /\ known[i].source = x
                                                                  /\ known[i].target \in near[n - 1]
<1> DEFINE base == {Goal}
           OneTurn == [i \in 1..Size |-> [S \in SUBSET Landmarks |-> Nearer(known, S)]]
           Solves(f) == f = [i \in 0..Size |-> IF i = 0 THEN base ELSE Nearer(known, f[i - 1])]
<1>1. \A S \in SUBSET Landmarks : Nearer(known, S) \in SUBSET Landmarks
  <2>1. ToSet(known) \subseteq Edges
    BY DEF ToSet
  <2> QED
    BY <2>1 DEF Nearer, Edges
<1>2. base \in SUBSET Landmarks
  BY RouteAssumption
<1> HIDE DEF base
<1>3. OneTurn \in [1..Size -> [SUBSET Landmarks -> SUBSET Landmarks]]
  BY <1>1
<1>4. PICK f \in [0..Size -> SUBSET Landmarks] :
            f[0] = base /\ \A i \in 1..Size : f[i] = OneTurn[i][f[i - 1]]
  <2> HIDE DEF OneTurn
  <2> QED
    <3>1. \E f \in [0..Size -> SUBSET Landmarks] : Follows(f, base, OneTurn, Size)
      BY SizeIsNat, <1>2, <1>3, RecursionExists
    <3> QED
      BY <3>1 DEF Follows
<1>5. \A i \in 1..Size : f[i] = Nearer(known, f[i - 1])
  <2>1. \A i \in 1..Size : i - 1 \in 0..Size
    BY SizeIsNat
  <2> QED
    BY <1>4, <2>1
<1>6. Solves(f)
  BY SizeIsNat, <1>4, <1>5
<1> DEFINE near == Near(known)
<1>7. Solves(near)
  <2>1. near = CHOOSE g : Solves(g)
    BY DEF Near, Nearer, Size, base
  <2> HIDE DEF Solves
  <2> QED
    BY <1>6, <2>1
<1> HIDE DEF near
<1>8. /\ DOMAIN near = 0..Size /\ near = [i \in DOMAIN near |-> near[i]]
      /\ near[0] = base
      /\ \A i \in 1..Size : near[i] = Nearer(known, near[i - 1])
  BY SizeIsNat, <1>7, SMTT(30)
<1>9. near \in [0..Size -> SUBSET Landmarks]
  <2>1. \A i \in 1..Size : near[i - 1] \in SUBSET Landmarks => near[i] \in SUBSET Landmarks
    BY <1>1, <1>8
  <2> QED
    BY SizeIsNat, <1>2, <1>8, <2>1, RecursionStays, Zenon
<1>10. \A S, x : x \in Nearer(known, S) <=>
            x \in S \/ \E i \in 1..Len(known) : known[i].source = x /\ known[i].target \in S
  <2>1. DOMAIN known = 1..Len(known)
    OBVIOUS
  <2> QED
    BY <2>1 DEF Nearer, ToSet
<1> QED
  BY <1>8, <1>9, <1>10 DEF near, base

-----------------------------------------------------------------------------
(* A search in progress.  out are the landmarks that were taken from the   *)
(* queue, dep says how many edges the way found to each landmark has, and  *)
(* k how many the way to the one taken last.  The queue holds what was     *)
(* visited and not taken out, each once, by its depth, which is k or one   *)
(* more.                                                                   *)

\* first is the first edge of a way of d edges from current to x: who is m edges
\* from the goal by way of x is so by way of its target.
WayTo(known, current, x, first, d) ==
    \/ first = NoEdge /\ x = current /\ d = 0
    \/ /\ first \in Edges /\ first.source = current /\ Contains(known, first) /\ d > 0
       /\ \A m \in 0..Size : m + d <= Size + 1 /\ x \in Near(known)[m] =>
              first.target \in Near(known)[m + d - 1]

\* The first n edges were looked at from x.
Expanded(known, s, dep, x, n) ==
    \A i \in 1..n : known[i].source = x =>
        known[i].target \in s.visited /\ dep[known[i].target] <= dep[x] + 1

Layered(known, current, s, out, dep, k) ==
    /\ s \in Searches /\ s.found = NoEdge /\ Goal \notin s.visited
    /\ dep \in [Landmarks -> Nat] /\ k \in Nat
    /\ current \in s.visited /\ dep[current] = 0
    /\ out \subseteq s.visited /\ \A x \in out : dep[x] <= k
    /\ \A x \in s.visited \ out : \E i \in 1..Len(s.queue) : s.queue[i][1] = x
    /\ \A i \in 1..Len(s.queue) :
            LET x == s.queue[i][1] IN
            /\ x \in s.visited \ out
            /\ k <= dep[x] /\ dep[x] <= k + 1 /\ dep[x] <= Cardinality(out)
            /\ WayTo(known, current, x, s.queue[i][2], dep[x])
    /\ \A i, j \in 1..Len(s.queue) : i < j =>
            s.queue[i][1] # s.queue[j][1] /\ dep[s.queue[i][1]] <= dep[s.queue[j][1]]

\* Between two turns of the outer loop.
Outer(known, current, s, out, dep) ==
    /\ \E k \in Nat : Layered(known, current, s, out, dep, k)
    /\ \A x \in out : Expanded(known, s, dep, x, Len(known))

\* In the inner loop at v, after n edges.
Inner(known, current, s, out, dep, v, n) ==
    /\ Layered(known, current, s, out, dep, dep[v])
    /\ v \in out /\ dep[v] < Cardinality(out)
    /\ \A x \in out \ {v} : Expanded(known, s, dep, x, Len(known))
    /\ Expanded(known, s, dep, v, n)

\* e is an edge on a shortest way from current to the goal.
Answers(known, current, e) ==
    /\ e \in Edges /\ Contains(known, e) /\ e.source = current
    /\ \E k \in 0..(Size - 1) : /\ current \in Near(known)[k + 1] /\ current \notin Near(known)[k]
                               /\ e.target \in Near(known)[k]

\* Who was expanded has found all who are one edge away; so a landmark from
\* which the goal is m edges away is at a depth of more than k - m, if those
\* that were not expanded are at a depth of k.
LEMMA NoShortWay ==
    ASSUME NEW known \in Seq(Edges), NEW s \in Searches, NEW dep \in [Landmarks -> Nat],
           NEW k \in Nat, Goal \notin s.visited,
           \A x \in s.visited : k <= dep[x] \/ Expanded(known, s, dep, x, Len(known))
    PROVE  \A m \in 0..Size : \A x \in s.visited : x \in Near(known)[m] => k < m + dep[x]
<1> DEFINE near == Near(known)
           T == {m \in 0..Size : \A x \in s.visited : x \in near[m] => k < m + dep[x]}
<1>1. /\ near[0] = {Goal}
      /\ \A n \in 1..Size : \A x :
            x \in near[n] <=> \/ x \in near[n - 1]
                              \/ \E i \in 1..Len(known) : /\ known[i].source = x
                                                          /\ known[i].target \in near[n - 1]
  BY NearIs
<1> HIDE DEF near
<1>2. s.visited \subseteq Landmarks
  BY DEF Searches
<1>3. 0 \in T
  BY SizeIsNat, <1>1
<1>4. \A m \in 0..(Size - 1) : m \in T => m + 1 \in T
  <2> SUFFICES ASSUME NEW m \in 0..(Size - 1), m \in T,
                      NEW x \in s.visited, x \in near[m + 1]
               PROVE  k < (m + 1) + dep[x]
    BY SizeIsNat
  <2>1. m \in Nat /\ m + 1 \in 1..Size /\ (m + 1) - 1 = m /\ dep[x] \in Nat
    BY SizeIsNat, <1>2
  <2>2. CASE x \in near[m]
    BY <2>1, <2>2
  <2>3. CASE x \notin near[m]
    <3> PICK i \in 1..Len(known) : known[i].source = x /\ known[i].target \in near[m]
      BY <1>1, <2>1, <2>3
    <3>1. CASE k <= dep[x]
      BY <2>1, <3>1
    <3>2. CASE Expanded(known, s, dep, x, Len(known))
      <4>1. known[i].target \in s.visited /\ dep[known[i].target] <= dep[x] + 1
        BY <3>2 DEF Expanded
      <4>2. k < m + dep[known[i].target] /\ dep[known[i].target] \in Nat
        BY <1>2, <4>1
      <4> QED
        BY <2>1, <4>1, <4>2
    <3> QED
      BY <3>1, <3>2
  <2> QED
    BY <2>2, <2>3
<1>5. \A m \in 0..Size : m \in T
  <2> HIDE DEF T
  <2> QED
    BY SizeIsNat, <1>3, <1>4, UpTo, Zenon
<1> QED
  BY <1>5 DEF near

\* Once the queue is empty without an answer, the goal cannot be reached.
LEMMA NoWay ==
    ASSUME NEW known \in Seq(Edges), NEW current, NEW s, NEW out, NEW dep,
           Outer(known, current, s, out, dep), s.queue = <<>>
    PROVE  \A m \in 0..Size : current \notin Near(known)[m]
<1> SUFFICES ASSUME NEW m \in 0..Size, current \in Near(known)[m]
             PROVE  FALSE
  OBVIOUS
<1>1. PICK k \in Nat : Layered(known, current, s, out, dep, k)
  BY DEF Outer
<1>2. /\ s \in Searches /\ Goal \notin s.visited /\ dep \in [Landmarks -> Nat]
      /\ current \in s.visited /\ dep[current] = 0
  BY <1>1 DEF Layered
<1>3. \A x \in s.visited : x \in out
  BY <1>1 DEF Layered
<1>4. \A x \in s.visited : Expanded(known, s, dep, x, Len(known))
  BY <1>3 DEF Outer
<1>5. m < m + dep[current]
  BY SizeIsNat, <1>2, <1>4, NoShortWay
<1> QED
  BY <1>2, <1>5, SizeIsNat

\* The goal is never taken out, so fewer landmarks than there are are.
LEMMA OutIsBounded ==
    ASSUME NEW known, NEW current, NEW s, NEW out, NEW dep, NEW k,
           Layered(known, current, s, out, dep, k)
    PROVE  IsFiniteSet(out) /\ Cardinality(out) \in Nat /\ Cardinality(out) < Size
<1>1. out \subseteq Landmarks \ {Goal}
  BY DEF Layered, Searches
<1>2. /\ IsFiniteSet(Landmarks \ {Goal})
      /\ Cardinality(Landmarks \ {Goal}) = Size - 1
  BY RouteAssumption, FS_RemoveElement DEF Size
<1>3. IsFiniteSet(out) /\ Cardinality(out) <= Size - 1
  BY <1>1, <1>2, FS_Subset
<1> QED
  BY <1>3, SizeIsNat, FS_CardinalityType

LEMMA GoalMet ==
    ASSUME NEW known \in Seq(Edges), NEW current \in Landmarks, NEW s, NEW out, NEW dep, NEW v,
           NEW first, NEW n \in 1..Len(known),
           Inner(known, current, s, out, dep, v, n - 1), WayTo(known, current, v, first, dep[v]),
           known[n].source = v, known[n].target = Goal
    PROVE  Answers(known, current, IF first = NoEdge THEN known[n] ELSE first)
<1> DEFINE near == Near(known)
           k == dep[v]
<1>1. /\ s \in Searches /\ Goal \notin s.visited /\ dep \in [Landmarks -> Nat]
      /\ current \in s.visited /\ dep[current] = 0
      /\ out \subseteq s.visited /\ v \in out
      /\ k \in Nat /\ k < Cardinality(out)
  BY DEF Inner, Layered
<1>2. k \in 0..(Size - 1) /\ k + 1 \in 1..Size /\ (k + 1) - 1 = k /\ 1 \in 1..Size
  BY <1>1, OutIsBounded, SizeIsNat DEF Inner
<1>3. \A x \in s.visited : k <= dep[x] \/ Expanded(known, s, dep, x, Len(known))
  <2> SUFFICES ASSUME NEW x \in s.visited
               PROVE  k <= dep[x] \/ Expanded(known, s, dep, x, Len(known))
    OBVIOUS
  <2>1. CASE x \notin out
    BY <2>1 DEF Inner, Layered
  <2>2. CASE x = v
    BY <1>1, <2>2
  <2>3. CASE x \in out \ {v}
    BY <2>3 DEF Inner
  <2> QED
    BY <2>1, <2>2, <2>3
<1>4. current \notin near[k]
  <2>1. \A m \in 0..Size : current \in near[m] => k < m + dep[current]
    BY <1>1, <1>3, NoShortWay
  <2> QED
    BY <1>1, <1>2, <2>1, SizeIsNat
<1>5. /\ near[0] = {Goal}
      /\ \A j \in 1..Size : \A x :
            x \in near[j] <=> \/ x \in near[j - 1]
                              \/ \E i \in 1..Len(known) : /\ known[i].source = x
                                                          /\ known[i].target \in near[j - 1]
  BY NearIs
<1> HIDE DEF near
<1>6. v \in near[1]
  BY <1>2, <1>5
<1>7. CASE first = NoEdge
  <2>1. v = current /\ k = 0
    BY <1>7, RouteAssumption DEF WayTo
  <2>2. known[n] \in Edges /\ Contains(known, known[n])
    BY DEF Contains
  <2>3. current \in near[k + 1] /\ known[n].target \in near[k]
    BY <1>5, <1>6, <2>1
  <2> QED
    BY <1>2, <1>4, <1>7, <2>1, <2>2, <2>3 DEF Answers, near
<1>8. CASE first # NoEdge
  <2>1. first \in Edges /\ first.source = current /\ Contains(known, first)
    BY <1>8 DEF WayTo
  <2>2. first.target \in near[k]
    <3>1. 1 + k <= Size + 1 /\ 1 \in 0..Size /\ 1 + k - 1 = k
      BY <1>2, SizeIsNat
    <3> QED
      BY <1>6, <1>8, <3>1 DEF WayTo, near
  <2>3. current \in near[k + 1]
    <3>1. \E i \in 1..Len(known) : known[i] = first
      BY <2>1 DEF Contains
    <3> QED
      BY <1>2, <1>5, <2>1, <2>2, <3>1
  <2> QED
    BY <1>2, <1>4, <1>8, <2>1, <2>2, <2>3 DEF Answers, near
<1> QED
  BY <1>7, <1>8

LEMMA WayGoesOn ==
    ASSUME NEW known \in Seq(Edges), NEW current, NEW x, NEW first, NEW d \in Nat,
           WayTo(known, current, x, first, d), NEW n \in 1..Len(known), known[n].source = x
    PROVE  LET head == IF first = NoEdge THEN known[n] ELSE first
           IN  head \in Edges /\ WayTo(known, current, known[n].target, head, d + 1)
<1> DEFINE near == Near(known)
           y == known[n].target
<1>1. known[n] \in Edges /\ Contains(known, known[n])
  BY DEF Contains
<1>2. NoEdge \notin Edges
  BY RouteAssumption
<1>3. CASE first = NoEdge
  <2>1. x = current /\ d = 0
    BY <1>2, <1>3 DEF WayTo
  <2>2. \A m \in 0..Size : y \in near[m] => y \in near[m + (d + 1) - 1]
    BY <2>1, SizeIsNat
  <2> QED
    BY <1>1, <1>3, <2>1, <2>2 DEF WayTo
<1>4. CASE first # NoEdge
  <2>1. first \in Edges /\ first.source = current /\ Contains(known, first) /\ d > 0
    BY <1>4 DEF WayTo
  <2>2. ASSUME NEW m \in 0..Size, m + (d + 1) <= Size + 1, y \in near[m]
        PROVE  first.target \in near[m + (d + 1) - 1]
    <3>1. m + 1 \in 1..Size /\ m + 1 \in 0..Size /\ (m + 1) - 1 = m
          /\ (m + 1) + d <= Size + 1 /\ (m + 1) + d - 1 = m + (d + 1) - 1
      BY <2>1, <2>2, SizeIsNat, SMTT(30)
    <3>2. x \in near[m + 1]
      <4>1. \A z : z \in near[m + 1] <=> \/ z \in near[m]
                                         \/ \E i \in 1..Len(known) : /\ known[i].source = z
                                                                     /\ known[i].target \in near[m]
        BY <3>1, NearIs
      <4> QED
        BY <2>2, <4>1
    <3> QED
      BY <1>4, <3>1, <3>2 DEF WayTo
  <2> QED
    BY <1>4, <2>1, <2>2 DEF WayTo
<1> QED
  BY <1>3, <1>4

\* The search and the depths once y was queued from v.
Pushed(s, y, head) == [s EXCEPT !.visited = @ \cup {y}, !.queue = Append(@, <<y, head>>)]
Deeper(dep, y, v) == [dep EXCEPT ![y] = dep[v] + 1]

LEMMA Pushes ==
    ASSUME NEW known \in Seq(Edges), NEW current \in Landmarks, NEW s, NEW out, NEW dep, NEW v,
           NEW n \in 1..Len(known), NEW y \in Landmarks \ {Goal}, NEW head \in Edges,
           Inner(known, current, s, out, dep, v, n - 1), known[n].source = v,
           known[n].target = y, y \notin s.visited,
           WayTo(known, current, y, head, dep[v] + 1)
    PROVE  Inner(known, current, Pushed(s, y, head), out, Deeper(dep, y, v), v, n)
<1> DEFINE t == [s EXCEPT !.visited = @ \cup {y}, !.queue = Append(@, <<y, head>>)]
           d == [dep EXCEPT ![y] = dep[v] + 1]
           q == s.queue
           r == t.queue
           k == dep[v]
<1>1. /\ s \in Searches /\ s.found = NoEdge /\ Goal \notin s.visited
      /\ dep \in [Landmarks -> Nat] /\ current \in s.visited /\ dep[current] = 0
      /\ out \subseteq s.visited /\ v \in out /\ \A x \in out : dep[x] <= k
      /\ k \in Nat /\ k < Cardinality(out)
  BY DEF Inner, Layered
<1>2. /\ \A x \in s.visited \ out : \E i \in 1..Len(q) : q[i][1] = x
      /\ \A i \in 1..Len(q) :
            /\ q[i][1] \in s.visited \ out
            /\ k <= dep[q[i][1]] /\ dep[q[i][1]] <= k + 1 /\ dep[q[i][1]] <= Cardinality(out)
            /\ WayTo(known, current, q[i][1], q[i][2], dep[q[i][1]])
      /\ \A i, j \in 1..Len(q) : i < j => q[i][1] # q[j][1] /\ dep[q[i][1]] <= dep[q[j][1]]
  BY DEF Inner, Layered
<1>3. <<y, head>> \in Entries /\ q \in Seq(Entries)
  BY <1>1 DEF Entries, Searches
<1>4. /\ t \in Searches /\ t.found = NoEdge
      /\ t.visited = s.visited \cup {y} /\ r = Append(q, <<y, head>>)
  <2> DEFINE grown == Append(q, <<y, head>>)
  <2>1. grown \in Seq(Entries)
    BY <1>3, QueueIs
  <2> HIDE DEF grown
  <2>2. t = [s EXCEPT !.visited = @ \cup {y}, !.queue = grown]
    BY DEF grown
  <2> HIDE DEF t
  <2>3. t = [queue |-> grown, visited |-> s.visited \cup {y}, found |-> NoEdge]
    <3>1. s \in Searches /\ s.found = NoEdge
      BY <1>1
    <3> QED
      BY <2>2, <3>1 DEF Searches
  <2> QED
    BY <1>1, <2>1, <2>3 DEF Searches, grown
<1>5. /\ Len(r) = Len(q) + 1 /\ Len(q) \in Nat
      /\ \A i \in 1..Len(q) : r[i] = q[i]
      /\ r[Len(q) + 1] = <<y, head>>
  BY <1>3, <1>4, QueueIs
<1> HIDE DEF t, q, r
<1>6. /\ d \in [Landmarks -> Nat] /\ d[y] = k + 1
      /\ \A x \in s.visited : d[x] = dep[x]
  BY <1>1 DEF Searches
<1> HIDE DEF d, k
<1>7. \A i \in 1..Len(r) : i \in 1..Len(q) \/ i = Len(q) + 1
  BY <1>5
<1>8. r[Len(q) + 1][1] = y /\ r[Len(q) + 1][2] = head
  BY <1>5
<1>9. d[v] = k
  BY <1>1, <1>6 DEF k
<1>10. Cardinality(out) \in Nat
  BY OutIsBounded DEF Inner
<1>11. \A x \in t.visited \ out : \E i \in 1..Len(r) : r[i][1] = x
  BY <1>2, <1>4, <1>5, <1>8
<1>12. ASSUME NEW i \in 1..Len(r)
       PROVE  /\ r[i][1] \in t.visited \ out
              /\ k <= d[r[i][1]] /\ d[r[i][1]] <= k + 1 /\ d[r[i][1]] <= Cardinality(out)
              /\ WayTo(known, current, r[i][1], r[i][2], d[r[i][1]])
  <2>1. CASE i \in 1..Len(q)
    <3>1. r[i] = q[i] /\ q[i][1] \in s.visited \ out /\ d[q[i][1]] = dep[q[i][1]]
      BY <1>2, <1>5, <1>6, <2>1
    <3> QED
      BY <1>2, <1>4, <2>1, <3>1
  <2>2. CASE i = Len(q) + 1
    <3>1. r[i][1] = y /\ r[i][2] = head /\ y \in t.visited \ out
      BY <1>1, <1>4, <1>8, <2>2
    <3> QED
      BY <1>1, <1>6, <1>10, <3>1 DEF k
  <2> QED
    BY <1>7, <2>1, <2>2
<1>13. ASSUME NEW i \in 1..Len(r), NEW j \in 1..Len(r), i < j
       PROVE  r[i][1] # r[j][1] /\ d[r[i][1]] <= d[r[j][1]]
  <2>1. i \in 1..Len(q) /\ r[i] = q[i] /\ q[i][1] \in s.visited /\ d[q[i][1]] = dep[q[i][1]]
    BY <1>2, <1>5, <1>6, <1>13
  <2>2. CASE j \in 1..Len(q)
    <3>1. r[j] = q[j] /\ d[q[j][1]] = dep[q[j][1]]
      BY <1>2, <1>5, <1>6, <2>2
    <3> QED
      BY <1>2, <1>13, <2>1, <2>2, <3>1
  <2>3. CASE j = Len(q) + 1
    BY <1>2, <1>6, <1>8, <2>1, <2>3
  <2> QED
    BY <1>7, <2>2, <2>3
<1>14. Layered(known, current, t, out, d, d[v])
  <2>1. t.visited = s.visited \cup {y} /\ \A x \in out : d[x] <= k
    BY <1>1, <1>4, <1>6
  <2> QED
    BY <1>1, <1>4, <1>6, <1>9, <1>11, <1>12, <1>13, <2>1 DEF Layered, r
<1>15. ASSUME NEW x \in out, NEW m, m \in 0..Len(known), Expanded(known, s, dep, x, m)
       PROVE  Expanded(known, t, d, x, m)
  BY <1>1, <1>4, <1>6, <1>15 DEF Expanded
<1>16. Expanded(known, t, d, v, n)
  <2>1. Expanded(known, s, dep, v, n - 1) /\ n - 1 \in 0..Len(known)
    BY DEF Inner
  <2>2. Expanded(known, t, d, v, n - 1)
    BY <1>1, <1>15, <2>1
  <2>3. \A i \in 1..n : i \in 1..(n - 1) \/ i = n
    OBVIOUS
  <2> QED
    BY <1>4, <1>6, <1>9, <2>2, <2>3 DEF Expanded
<1>17. \A x \in out \ {v} : Expanded(known, t, d, x, Len(known))
  <2>1. Len(known) \in 0..Len(known)
    OBVIOUS
  <2> QED
    BY <1>15, <2>1 DEF Inner
<1> QED
  BY <1>1, <1>9, <1>14, <1>16, <1>17 DEF Inner, t, d, k, Pushed, Deeper

\* One edge of the inner loop: it is no edge of v, leads where the search has
\* been, is the answer, or leads one step on.
LEMMA MeetStep ==
    ASSUME NEW known \in Seq(Edges), NEW current \in Landmarks, NEW s, NEW out, NEW dep, NEW v,
           NEW first, NEW n \in 1..Len(known),
           Inner(known, current, s, out, dep, v, n - 1), WayTo(known, current, v, first, dep[v])
    PROVE  LET t == Meet(s, v, first, known[n])
           IN  \/ t.found # NoEdge /\ Answers(known, current, t.found)
               \/ \E d : d[v] = dep[v] /\ Inner(known, current, t, out, d, v, n)
<1> DEFINE t == Meet(s, v, first, known[n])
           head == IF first = NoEdge THEN known[n] ELSE first
           y == known[n].target
<1>1. /\ s \in Searches /\ s.found = NoEdge /\ Goal \notin s.visited
      /\ dep \in [Landmarks -> Nat] /\ dep[v] \in Nat
      /\ out \subseteq s.visited /\ \A x \in out : dep[x] <= dep[v]
  BY DEF Inner, Layered
<1>2. known[n] \in Edges /\ y \in Landmarks /\ NoEdge \notin Edges
  <2>1. known[n] \in Edges
    OBVIOUS
  <2> QED
    BY <2>1, RouteAssumption DEF Edges
<1>3. CASE known[n].source # v \/ y \in s.visited
  <2>1. t = s
    BY <1>3 DEF Meet
  <2>2. known[n].source = v => y \in s.visited /\ dep[y] <= dep[v] + 1
    <3> SUFFICES ASSUME y \in s.visited
                 PROVE  dep[y] <= dep[v] + 1
      BY <1>3
    <3>1. CASE y \in out
      BY <1>1, <1>2, <3>1
    <3>2. CASE y \notin out
      <4>1. PICK i \in 1..Len(s.queue) : s.queue[i][1] = y
        BY <3>2 DEF Inner, Layered
      <4> QED
        BY <4>1 DEF Inner, Layered
    <3> QED
      BY <3>1, <3>2
  <2>3. Expanded(known, s, dep, v, n)
    <3>1. \A i \in 1..n : i \in 1..(n - 1) \/ i = n
      OBVIOUS
    <3> QED
      BY <2>2, <3>1 DEF Inner, Expanded
  <2>4. Inner(known, current, s, out, dep, v, n)
    BY <2>3 DEF Inner
  <2> HIDE DEF t
  <2> QED
    BY <2>1, <2>4 DEF t
<1>4. CASE known[n].source = v /\ y \notin s.visited /\ y = Goal
  <2>1. t = [s EXCEPT !.found = head]
    BY <1>1, <1>4 DEF Meet
  <2>2. t.found = head
    BY <1>1, <2>1 DEF Searches
  <2>3. Answers(known, current, head)
    BY <1>4, GoalMet
  <2>4. head # NoEdge
    BY <1>2
  <2> HIDE DEF t, head
  <2> QED
    BY <2>2, <2>3, <2>4 DEF t
<1>5. CASE known[n].source = v /\ y \notin s.visited /\ y # Goal
  <2>1. t = Pushed(s, y, head)
    BY <1>1, <1>5 DEF Meet, Pushed
  <2>2. head \in Edges /\ WayTo(known, current, y, head, dep[v] + 1)
    BY <1>1, <1>5, WayGoesOn
  <2> DEFINE d == Deeper(dep, y, v)
  <2> HIDE DEF head
  <2>3. Inner(known, current, t, out, d, v, n)
    <3>1. y \in Landmarks \ {Goal}
      BY <1>2, <1>5
    <3> HIDE DEF t, y
    <3>2. known[n].source = v /\ known[n].target = y /\ y \notin s.visited
      BY <1>5 DEF y
    <3>3. Inner(known, current, Pushed(s, y, head), out, Deeper(dep, y, v), v, n)
      BY <2>2, <3>1, <3>2, Pushes
    <3> QED
      BY <2>1, <3>3
  <2>4. d[v] = dep[v]
    <3>1. v \in s.visited /\ v # y
      BY <1>1, <1>5 DEF Inner
    <3> QED
      BY <1>1, <3>1 DEF Deeper, Searches
  <2> HIDE DEF d, t
  <2> QED
    BY <2>3, <2>4 DEF t
<1> QED
  BY <1>3, <1>4, <1>5

\* Taking the head of the queue starts the inner loop.
Popped(s) == [s EXCEPT !.queue = Tail(@)]

LEMMA Pops ==
    ASSUME NEW known \in Seq(Edges), NEW current \in Landmarks, NEW s, NEW out, NEW dep,
           Outer(known, current, s, out, dep), s.queue # <<>>
    PROVE  LET v == Head(s.queue)[1]
           IN  /\ Inner(known, current, Popped(s), out \cup {v}, dep, v, 0)
               /\ WayTo(known, current, v, Head(s.queue)[2], dep[v])
               /\ Cardinality(out \cup {v}) = Cardinality(out) + 1
<1> DEFINE v == Head(s.queue)[1]
           t == [s EXCEPT !.queue = Tail(@)]
           q == s.queue
           r == t.queue
           more == out \cup {v}
<1>1. PICK k \in Nat : Layered(known, current, s, out, dep, k)
  BY DEF Outer
<1>2. /\ s \in Searches /\ s.found = NoEdge /\ Goal \notin s.visited
      /\ dep \in [Landmarks -> Nat] /\ current \in s.visited /\ dep[current] = 0
      /\ out \subseteq s.visited /\ \A x \in out : dep[x] <= k
  BY <1>1 DEF Layered
<1>3. /\ \A x \in s.visited \ out : \E i \in 1..Len(q) : q[i][1] = x
      /\ \A i \in 1..Len(q) :
            /\ q[i][1] \in s.visited \ out
            /\ k <= dep[q[i][1]] /\ dep[q[i][1]] <= k + 1 /\ dep[q[i][1]] <= Cardinality(out)
            /\ WayTo(known, current, q[i][1], q[i][2], dep[q[i][1]])
      /\ \A i, j \in 1..Len(q) : i < j => q[i][1] # q[j][1] /\ dep[q[i][1]] <= dep[q[j][1]]
  BY <1>1 DEF Layered
<1>4. q \in Seq(Entries) /\ q # <<>>
  BY <1>2 DEF Searches
<1>5. /\ Len(q) \in Nat /\ Len(q) > 0 /\ Head(q) = q[1] /\ Tail(q) \in Seq(Entries)
      /\ Len(Tail(q)) = Len(q) - 1
      /\ \A i \in 1..(Len(q) - 1) : Tail(q)[i] = q[i + 1]
  BY <1>4
<1>6. t \in Searches /\ t.found = NoEdge /\ t.visited = s.visited /\ r = Tail(q)
  BY <1>2, <1>5 DEF Searches
<1> HIDE DEF t, q, r
<1>7. 1 \in 1..Len(q) /\ v = q[1][1]
  BY <1>5 DEF q
<1>8. v \in s.visited \ out /\ dep[v] \in Nat /\ k <= dep[v] /\ dep[v] <= Cardinality(out)
  BY <1>2, <1>3, <1>7 DEF Searches
<1> HIDE DEF v
<1>9. Cardinality(more) = Cardinality(out) + 1 /\ Cardinality(out) \in Nat
  BY <1>1, <1>8, OutIsBounded, FS_AddElement
<1>10. ASSUME NEW i \in 1..Len(r)
       PROVE  i + 1 \in 1..Len(q) /\ r[i] = q[i + 1] /\ 1 < i + 1
  BY <1>5, <1>6
<1>11. ASSUME NEW x \in t.visited \ more
       PROVE  \E i \in 1..Len(r) : r[i][1] = x
  <2> PICK i \in 1..Len(q) : q[i][1] = x
    BY <1>3, <1>6
  <2>1. i # 1
    BY <1>7
  <2>2. i - 1 \in 1..Len(r) /\ r[i - 1] = q[i]
    BY <1>5, <1>6, <2>1
  <2> QED
    BY <2>2
<1>12. ASSUME NEW i \in 1..Len(r)
       PROVE  /\ r[i][1] \in t.visited \ more
              /\ dep[v] <= dep[r[i][1]] /\ dep[r[i][1]] <= dep[v] + 1
              /\ dep[r[i][1]] <= Cardinality(more)
              /\ WayTo(known, current, r[i][1], r[i][2], dep[r[i][1]])
  <2>1. i + 1 \in 1..Len(q) /\ r[i] = q[i + 1] /\ 1 < i + 1
    BY <1>10
  <2>2. /\ q[i + 1][1] \in s.visited \ out
        /\ dep[q[i + 1][1]] <= k + 1 /\ dep[q[i + 1][1]] <= Cardinality(out)
        /\ WayTo(known, current, q[i + 1][1], q[i + 1][2], dep[q[i + 1][1]])
    BY <1>3, <2>1
  <2>3. v # q[i + 1][1] /\ dep[v] <= dep[q[i + 1][1]]
    BY <1>3, <1>7, <2>1
  <2>4. dep[q[i + 1][1]] \in Nat
    BY <1>2, <2>2 DEF Searches
  <2> QED
    BY <1>6, <1>8, <1>9, <2>1, <2>2, <2>3, <2>4
<1>13. ASSUME NEW i \in 1..Len(r), NEW j \in 1..Len(r), i < j
       PROVE  r[i][1] # r[j][1] /\ dep[r[i][1]] <= dep[r[j][1]]
  <2>1. /\ i + 1 \in 1..Len(q) /\ r[i] = q[i + 1]
        /\ j + 1 \in 1..Len(q) /\ r[j] = q[j + 1] /\ i + 1 < j + 1
    BY <1>10, <1>13
  <2> QED
    BY <1>3, <2>1
<1>14. Layered(known, current, t, more, dep, dep[v])
  <2>1. more \subseteq t.visited /\ \A x \in more : dep[x] <= dep[v]
    <3>1. ASSUME NEW x \in out PROVE dep[x] <= dep[v]
      <4>1. dep[x] \in Nat /\ dep[x] <= k
        BY <1>2 DEF Searches
      <4> QED
        BY <1>8, <4>1
    <3> QED
      BY <1>2, <1>6, <1>8, <3>1
  <2> HIDE DEF more
  <2> QED
    BY <1>2, <1>6, <1>8, <1>11, <1>12, <1>13, <2>1 DEF Layered, r
<1>15. \A x \in more \ {v} : Expanded(known, t, dep, x, Len(known))
  BY <1>6 DEF Outer, Expanded
<1>16. Expanded(known, t, dep, v, 0)
  BY DEF Expanded
<1>17. dep[v] < Cardinality(more)
  BY <1>8, <1>9
<1>18. WayTo(known, current, v, Head(s.queue)[2], dep[v])
  BY <1>3, <1>5, <1>7 DEF q
<1>19. Inner(known, current, t, more, dep, v, 0)
  BY <1>14, <1>15, <1>16, <1>17 DEF Inner
<1> QED
  BY <1>9, <1>18, <1>19 DEF v, t, Popped

\* A search that has its answer.
Done(known, current, s) == s.found # NoEdge /\ Answers(known, current, s.found)

LEMMA VisitStep ==
    ASSUME NEW known \in Seq(Edges), NEW current \in Landmarks, NEW s, NEW out, NEW dep,
           Outer(known, current, s, out, dep), s.queue # <<>>
    PROVE  LET t == Visit(s, known)
           IN  \/ Done(known, current, t)
               \/ \E more, d : /\ Outer(known, current, t, more, d)
                               /\ Cardinality(more) = Cardinality(out) + 1
<1> DEFINE n == Len(known)
           meet == Meets(s, known)
           v == Head(s.queue)[1]
           first == Head(s.queue)[2]
           more == out \cup {v}
           Goes(i) == \/ Done(known, current, meet[i])
                      \/ \E d : d[v] = dep[v] /\ Inner(known, current, meet[i], more, d, v, i)
           T == {i \in 0..n : Goes(i)}
<1>1. s \in Searches /\ s.found = NoEdge
  BY DEF Outer, Layered
<1>2. n \in Nat
  OBVIOUS
<1>3. /\ meet[0] = Popped(s)
      /\ \A i \in 1..n : meet[i] = Meet(meet[i - 1], v, first, known[i])
  BY <1>1, MeetsIs DEF Popped
<1>4. /\ Inner(known, current, Popped(s), more, dep, v, 0)
      /\ WayTo(known, current, v, first, dep[v])
      /\ Cardinality(more) = Cardinality(out) + 1
  BY Pops
<1> HIDE DEF meet, v, first, more
<1>5. 0 \in T
  BY <1>2, <1>3, <1>4
<1>6. ASSUME NEW i \in 0..(n - 1), Goes(i)
      PROVE  Goes(i + 1)
  <2>1. i + 1 \in 1..n /\ (i + 1) - 1 = i
    BY <1>2
  <2>2. meet[i + 1] = Meet(meet[i], v, first, known[i + 1])
    BY <1>3, <2>1
  <2>3. CASE Done(known, current, meet[i])
    <3>1. meet[i + 1] = meet[i]
      BY <2>2, <2>3 DEF Meet, Done
    <3> QED
      BY <2>3, <3>1
  <2>4. CASE \E d : d[v] = dep[v] /\ Inner(known, current, meet[i], more, d, v, i)
    <3> PICK d : d[v] = dep[v] /\ Inner(known, current, meet[i], more, d, v, i)
      BY <2>4
    <3> DEFINE t == Meet(meet[i], v, first, known[i + 1])
    <3>1. /\ Inner(known, current, meet[i], more, d, v, (i + 1) - 1)
          /\ WayTo(known, current, v, first, d[v])
      BY <1>4, <2>1
    <3>2. \/ t.found # NoEdge /\ Answers(known, current, t.found)
          \/ \E e : e[v] = d[v] /\ Inner(known, current, t, more, e, v, i + 1)
      BY <2>1, <3>1, MeetStep
    <3> QED
      BY <2>2, <3>2 DEF Done
  <2> QED
    BY <1>6, <2>3, <2>4
<1>7. n \in T
  <2>1. \A i \in 0..(n - 1) : i \in T => i + 1 \in T
    BY <1>2, <1>6
  <2> HIDE DEF T
  <2>2. \A i \in 0..n : i \in T
    BY <1>2, <1>5, <2>1, UpTo, Zenon
  <2> QED
    BY <1>2, <2>2
<1>8. Visit(s, known) = meet[n]
  BY <1>1 DEF Visit, meet
<1>9. CASE \E d : d[v] = dep[v] /\ Inner(known, current, meet[n], more, d, v, n)
  <2> PICK d : Inner(known, current, meet[n], more, d, v, n)
    BY <1>9
  <2>1. d[v] \in Nat /\ Layered(known, current, meet[n], more, d, d[v])
    BY DEF Inner, Layered
  <2>2. \A x \in more : Expanded(known, meet[n], d, x, n)
    BY DEF Inner
  <2>3. Outer(known, current, meet[n], more, d)
    BY <2>1, <2>2 DEF Outer
  <2> QED
    BY <1>4, <1>8, <2>3
<1> QED
  BY <1>7, <1>8, <1>9

\* The search from current ends with an answer, or there is no way to the goal.
LEMMA SearchIsSound ==
    ASSUME NEW known \in Seq(Edges), NEW current \in Landmarks \ {Goal}
    PROVE  LET t == Turns(known, current)[Size]
           IN  \/ Done(known, current, t)
               \/ t.found = NoEdge /\ \A m \in 0..Size : current \notin Near(known)[m]
<1> DEFINE turn == Turns(known, current)
           Goes(n) == \/ Done(known, current, turn[n])
                      \/ \E out, dep : /\ Outer(known, current, turn[n], out, dep)
                                       /\ turn[n].queue = <<>> \/ Cardinality(out) = n
           T == {n \in 0..Size : Goes(n)}
<1>1. /\ turn[0] = Start(current)
      /\ \A n \in 1..Size : turn[n] = Visit(turn[n - 1], known)
      /\ turn \in [0..Size -> Searches]
  BY TurnsIs
<1> HIDE DEF turn
<1>2. 0 \in T
  <2> DEFINE dep == [l \in Landmarks |-> 0]
             s == turn[0]
             q == <<<<current, NoEdge>>>>
  <2>1. s.queue = q /\ s.visited = {current} /\ s.found = NoEdge /\ s \in Searches
    <3>1. s = Start(current)
      BY <1>1
    <3>2. 0 \in 0..Size
      BY SizeIsNat
    <3>3. s \in Searches
      BY <1>1, <3>2
    <3> QED
      BY <3>1, <3>3 DEF Start
  <2>2. Len(q) = 1 /\ q[1] = <<current, NoEdge>>
    OBVIOUS
  <2>3. Cardinality({}) = 0
    BY FS_EmptySet
  <2>4. WayTo(known, current, current, NoEdge, 0)
    BY DEF WayTo
  <2>5. dep \in [Landmarks -> Nat] /\ dep[current] = 0
    OBVIOUS
  <2> HIDE DEF dep, s, q
  <2>6. \A i \in 1..Len(s.queue) : s.queue[i][1] = current /\ s.queue[i][2] = NoEdge
    BY <2>1, <2>2
  <2>7. \E i \in 1..Len(s.queue) : s.queue[i][1] = current
    BY <2>1, <2>2
  <2>8. ~ \E i, j \in 1..Len(s.queue) : i < j
    BY <2>1, <2>2
  <2>9. Layered(known, current, s, {}, dep, 0)
    BY <2>1, <2>3, <2>4, <2>5, <2>6, <2>7, <2>8 DEF Layered
  <2>10. Outer(known, current, s, {}, dep)
    BY <2>9 DEF Outer
  <2> QED
    BY <2>3, <2>10, SizeIsNat DEF s
<1>3. ASSUME NEW n \in 0..(Size - 1), Goes(n)
      PROVE  Goes(n + 1)
  <2>1. n + 1 \in 1..Size /\ (n + 1) - 1 = n
    BY SizeIsNat
  <2>2. turn[n + 1] = Visit(turn[n], known)
    BY <1>1, <2>1
  <2>3. CASE Done(known, current, turn[n])
    <3>1. turn[n + 1] = turn[n]
      BY <2>2, <2>3 DEF Visit, Done
    <3> QED
      BY <2>3, <3>1
  <2>4. CASE \E out, dep : /\ Outer(known, current, turn[n], out, dep)
                           /\ turn[n].queue = <<>> \/ Cardinality(out) = n
    <3> PICK out, dep : /\ Outer(known, current, turn[n], out, dep)
                        /\ turn[n].queue = <<>> \/ Cardinality(out) = n
      BY <2>4
    <3>1. CASE turn[n].queue = <<>>
      <4>1. turn[n + 1] = turn[n]
        BY <2>2, <3>1 DEF Visit
      <4> QED
        BY <3>1, <4>1
    <3>2. CASE turn[n].queue # <<>>
      <4>1. \/ Done(known, current, Visit(turn[n], known))
            \/ \E more, d : /\ Outer(known, current, Visit(turn[n], known), more, d)
                            /\ Cardinality(more) = Cardinality(out) + 1
        BY <3>2, VisitStep
      <4> QED
        BY <2>2, <3>2, <4>1
    <3> QED
      BY <3>1, <3>2
  <2> QED
    BY <1>3, <2>3, <2>4
<1>4. Size \in T
  <2>1. \A n \in 0..(Size - 1) : n \in T => n + 1 \in T
    <3> HIDE DEF Goes
    <3> QED
      BY <1>3, SizeIsNat
  <2> HIDE DEF T
  <2>2. \A n \in 0..Size : n \in T
    BY SizeIsNat, <1>2, <2>1, UpTo, Zenon
  <2> QED
    BY SizeIsNat, <2>2
<1>5. CASE \E out, dep : /\ Outer(known, current, turn[Size], out, dep)
                         /\ turn[Size].queue = <<>> \/ Cardinality(out) = Size
  <2> PICK out, dep : /\ Outer(known, current, turn[Size], out, dep)
                      /\ turn[Size].queue = <<>> \/ Cardinality(out) = Size
    BY <1>5
  <2>1. turn[Size].found = NoEdge /\ Cardinality(out) < Size
    BY OutIsBounded DEF Outer, Layered
  <2>2. turn[Size].queue = <<>>
    BY <2>1, SizeIsNat
  <2> QED
    BY <2>1, <2>2, NoWay DEF turn
<1> QED
  BY <1>4, <1>5 DEF turn

\* LandmarkRoute.next_edge, for any graph and any place in it: the edge is known,
\* starts here and is the first of a shortest way to the goal, and None is said
\* only where there is no way.
THEOREM TheSearchIsRight == edges \in Seq(Edges) => NextEdgeIsShortest
<1> DEFINE near == Near(edges)
           ring == Rings(edges)
<1> SUFFICES ASSUME edges \in Seq(Edges), NEW l \in Landmarks \ {Goal}
             PROVE  LET e == NextEdge(edges, l) IN
                    IF e = NoEdge THEN \A n \in DOMAIN ring : l \notin ring[n]
                    ELSE /\ Contains(edges, e) /\ e.source = l
                         /\ \E n \in DOMAIN ring :
                                l \in ring[n]
                                /\ e.target \in (IF n = 1 THEN {Goal} ELSE ring[n - 1])
  BY DEF NextEdgeIsShortest
<1> DEFINE e == NextEdge(edges, l)
<1>1. e = Turns(edges, l)[Size].found
  BY DEF NextEdge, Size
<1>2. \/ Done(edges, l, Turns(edges, l)[Size])
      \/ Turns(edges, l)[Size].found = NoEdge /\ \A m \in 0..Size : l \notin near[m]
  BY SearchIsSound
<1>3. DOMAIN ring = 1..Size /\ \A n \in 1..Size : ring[n] = near[n] \ near[n - 1]
  BY DEF Rings, Size
<1>4. /\ near[0] = {Goal}
      /\ \A n \in 1..Size : \A x :
            x \in near[n] <=> \/ x \in near[n - 1]
                              \/ \E i \in 1..Len(edges) : /\ edges[i].source = x
                                                          /\ edges[i].target \in near[n - 1]
  BY NearIs
<1> HIDE DEF e, near, ring
<1>5. CASE e = NoEdge
  <2>1. \A m \in 0..Size : l \notin near[m]
    BY <1>1, <1>2, <1>5 DEF Done
  <2>2. \A n \in DOMAIN ring : l \notin ring[n]
    BY <1>3, <2>1, SizeIsNat
  <2> QED
    BY <1>5, <2>2 DEF e
<1>6. CASE e # NoEdge
  <2>1. Answers(edges, l, e)
    BY <1>1, <1>2, <1>6 DEF Done
  <2>2. Contains(edges, e) /\ e.source = l
    BY <2>1 DEF Answers
  <2> PICK k \in 0..(Size - 1) : l \in near[k + 1] /\ l \notin near[k] /\ e.target \in near[k]
    BY <2>1 DEF Answers, near
  <2>3. k + 1 \in 1..Size /\ (k + 1) - 1 = k /\ k \in Nat
    BY SizeIsNat
  <2>4. l \in ring[k + 1]
    BY <1>3, <2>3
  <2>5. e.target \in (IF k + 1 = 1 THEN {Goal} ELSE ring[k])
    <3>1. CASE k = 0
      BY <1>4, <3>1
    <3>2. CASE k > 0
      <4>1. k \in 1..Size
        BY <2>3, <3>2, SizeIsNat
      <4>2. e.target \notin near[k - 1]
        <5>1. \E i \in 1..Len(edges) : edges[i] = e
          BY <2>2 DEF Contains
        <5> QED
          BY <1>4, <2>2, <4>1, <5>1
      <4> QED
        BY <1>3, <2>3, <3>2, <4>1, <4>2
    <3> QED
      BY <2>3, <3>1, <3>2
  <2>6. \E n \in DOMAIN ring : l \in ring[n] /\ e.target \in (IF n = 1 THEN {Goal} ELSE ring[n - 1])
    BY <1>3, <2>3, <2>4, <2>5
  <2> QED
    BY <1>6, <2>2, <2>6 DEF e
<1> QED
  BY <1>5, <1>6
=============================================================================
