-------------------------------- MODULE GraphPage --------------------------------
(***************************************************************************)
(* The Work Graph page: where each unit is drawn, which of them are in     *)
(* focus, and the colours of their functions.                              *)
(***************************************************************************)
EXTENDS WorkUnitsPage

CONSTANTS NodeOrder,  \* the codes in the order of their ids
          Colours     \* GROUP_COLORS: functions with a colour of their own

ASSUME NodeAssumption == /\ NodeOrder \in Seq(Codes) /\ ToSet(NodeOrder) = Codes
                         /\ Len(NodeOrder) = Cardinality(Codes) /\ Colours \in Nat

\* No unit has an edge to itself: the route refuses it, and the import a cycle.
Edges == {e \in Codes \X Codes : e[1] # e[2]}

Graph == shown["graph"]

\* Those of s that are in S, each where it first comes.
Once(s, S) ==
  LET first[k \in 0..Len(s)] ==
        IF k = 0 THEN <<>>
        ELSE IF s[k] \in S \ ToSet(first[k - 1]) THEN Append(first[k - 1], s[k]) ELSE first[k - 1]
  IN first[Len(s)]

NodesOf(g) == Once(NodeOrder, g.units)

\* The edges from c, each with its target.
Out(g, c) == [k \in 1..Len(g.workEdges) |-> IF g.workEdges[k][1] = c THEN g.workEdges[k][2] ELSE Nothing]

Targets(g, c) == ToSet(Out(g, c)) \ {Nothing}

\* The targets of c that were never queued, each once, in the order of its edges.
NewIn(g, c, seen) == Once(Out(g, c), Targets(g, c) \ seen)

Roots(g) ==
  LET without == Once(NodeOrder, {c \in g.units : \A e \in ToSet(g.workEdges) : e[2] # c})
  IN IF without = <<>> THEN <<Head(NodesOf(g))>> ELSE without

\* One turn of the loop: the first of the queue moves its targets to the right
\* of itself, and queues those that were never queued.
\* Mutant: a target is put in the column of its source.
PoppedInPlace(g, s) ==
  LET c == Head(s.queue)
      out == Targets(g, c)
  IN [queue |-> Tail(s.queue) \o NewIn(g, c, s.seen),
      seen |-> s.seen \cup out,
      rank |-> [n \in g.units |-> IF n \in out THEN Max({s.rank[n], s.rank[c]}) ELSE s.rank[n]]]

Popped(g, s) ==
  LET c == Head(s.queue)
      out == Targets(g, c)
  IN [queue |-> Tail(s.queue) \o NewIn(g, c, s.seen),
      seen |-> s.seen \cup out,
      rank |-> [n \in g.units |-> IF n \in out THEN Max({s.rank[n], s.rank[c] + 1}) ELSE s.rank[n]]]

Queued(g) == [queue |-> Roots(g), seen |-> ToSet(Roots(g)), rank |-> [n \in g.units |-> 0]]

Turn(g, s) == IF s.queue = <<>> THEN s ELSE Popped(g, s)

\* The column of each node.  No node is queued twice, so the queue is empty
\* after a turn for each.
Rank(g) ==
  LET turn[k \in 0..Len(NodeOrder)] == IF k = 0 THEN Queued(g) ELSE Turn(g, turn[k - 1])
  IN turn[Len(NodeOrder)].rank

Place(s, x) == CHOOSE k \in 1..Len(s) : s[k] = x

\* Column and row: nodes of one column are stacked in their order.
Layout(g) ==
  LET rank == Rank(g)
      place == [n \in g.units |-> Place(NodesOf(g), n)]
  IN [n \in g.units |-> <<rank[n], Cardinality({m \in g.units : rank[m] = rank[n] /\ place[m] < place[n]})>>]

\* Functions in the order of their first node; those after the last colour
\* share one chip.
GroupOrder(g) ==
  LET nodes == NodesOf(g)
  IN Once([k \in 1..Len(nodes) |-> FunctionOf[nodes[k]]], Functions)

GroupColour(g) == [f \in ToSet(GroupOrder(g)) |-> Min({Place(GroupOrder(g), f), Colours + 1})]

Legend(g) == [chip \in 1..Min({Len(GroupOrder(g)), Colours + 1}) |->
                Cardinality({c \in g.units : GroupColour(g)[FunctionOf[c]] = chip})]

-----------------------------------------------------------------------------
(* Zoom and pan are left out: they move nothing but the picture.           *)
GraphUi == [busy |-> {}, tab |-> "intake", hover |-> Nothing, picked |-> Nothing]

CanvasDrawn == ~Loading("graph") /\ Graph.units # {}

Enter == ui.hover = Nothing /\ \E c \in Graph.units : ui' = [ui EXCEPT !.hover = c]
Leave == ui.hover # Nothing /\ ui' = [ui EXCEPT !.hover = Nothing]

\* A second click on a node, or on a row of its edges, lets it go.
Toggled(c) == IF ui.picked = c THEN Nothing ELSE c
PickNode == ui.hover # Nothing /\ ui' = [ui EXCEPT !.picked = Toggled(ui.hover)]
PickEdge == \E k \in DOMAIN Graph.workEdges : ui' = [ui EXCEPT !.picked = Toggled(Graph.workEdges[k][1])]
LetGo == ui.picked # Nothing /\ ui' = [ui EXCEPT !.picked = Nothing]

Explore ==
  /\ page = "workGraph"
  /\ CanvasDrawn
  /\ \/ Enter \/ Leave \/ PickNode \/ PickEdge \/ LetGo
  /\ UNCHANGED <<page, db, jobs, shown, tidy, calm, acts, faults>>
=============================================================================
