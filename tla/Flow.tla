-------------------------------- MODULE Flow --------------------------------
(***************************************************************************)
(* The minimum-cost flow of the auction solver (auction/mincostflow.go):   *)
(* successive cheapest augmenting paths, found by Dijkstra over reduced    *)
(* costs, until the cheapest path no longer pays.                          *)
(*                                                                         *)
(* Nodes are numbered as the solver numbers them, 0 the source and the     *)
(* largest the sink, and every edge leads from a smaller number to a       *)
(* larger one.  No two edges join the same pair of nodes, so an arc is the *)
(* pair it joins and its residual twin is the reversed pair.               *)
(***************************************************************************)
EXTENDS Sums

CONSTANT Unreachable   \* a distance no path has (math.MaxInt64 / 2)

ASSUME FarAway == Unreachable \in Nat \ {0}

VARIABLES
    network,         \* [sink, edges]: edges from pairs to [capacity, cost]
    flow,            \* cash on every edge
    potential, dist, settled, prev,   \* of the search under way
    augmentations    \* paths augmented so far

flowVars == <<network, flow, potential, dist, settled, prev, augmentations>>

Source == 0
Sink == network.sink
Nodes == 0..Sink
Edges == DOMAIN network.edges
Twin(arc) == <<arc[2], arc[1]>>

\* addEdge: an edge costs what it costs and has room for what it does not
\* carry; its twin gives the cost back and has room for what it carries.
Cost(arc) == IF arc \in Edges THEN network.edges[arc].cost ELSE -network.edges[Twin(arc)].cost
Room(arc) == IF arc \in Edges THEN network.edges[arc].capacity - flow[arc] ELSE flow[Twin(arc)]
Open(arc) == (arc \in Edges \/ Twin(arc) \in Edges) /\ Room(arc) > 0

(***************************************************************************)
(* The relaxation pass over the nodes in order, which for a network that   *)
(* is numbered topologically is the distance from the source; a node the   *)
(* source does not reach gets a zero.                                      *)
(***************************************************************************)
Before(v) == {u \in Nodes : u < v /\ <<u, v>> \in Edges}
FromSource[v \in Nodes] ==
    LET reached == {u \in Before(v) : FromSource[u] # Unreachable}
    IN IF v = Source THEN 0
       ELSE IF reached = {} THEN Unreachable
       ELSE Min({FromSource[u] + Cost(<<u, v>>) : u \in reached})
InitialPotentials ==
    [v \in Nodes |-> IF FromSource[v] = Unreachable THEN 0 ELSE FromSource[v]]

(***************************************************************************)
(* One search.  The queue holds the nodes that have a distance and are not *)
(* settled; it gives the nearest, and of two the one numbered first.       *)
(***************************************************************************)
NoDistance(net) == [v \in 0..net.sink |-> IF v = Source THEN 0 ELSE Unreachable]
NoArc(net) == [v \in 0..net.sink |-> Source]

\* Mutant: a node that is settled stays in the queue.
MutNothingLeaves == {v \in Nodes : dist[v] # Unreachable}

Queue == {v \in Nodes \ settled : dist[v] # Unreachable}
Nearest == CHOOSE v \in Queue :
    \A w \in Queue : dist[v] < dist[w] \/ (dist[v] = dist[w] /\ v <= w)

\* What an arc offers its target: the reduced cost on top of the distance.
Reached(arc) == dist[arc[1]] + Cost(arc) + potential[arc[1]] - potential[arc[2]]

Searching == potential # <<>> /\ Queue # {} /\ Sink \notin settled

\* The nearest node is settled and its open arcs relaxed; a node that is
\* settled already may get a new distance and a new predecessor.
Settle ==
    /\ Searching
    /\ LET u == Nearest
           nearer == {v \in Nodes : /\ u # Sink
                                    /\ Open(<<u, v>>)
                                    /\ Reached(<<u, v>>) < dist[v]}
       IN /\ dist' = [v \in Nodes |-> IF v \in nearer THEN Reached(<<u, v>>) ELSE dist[v]]
          /\ prev' = [v \in Nodes |-> IF v \in nearer THEN u ELSE prev[v]]
          /\ settled' = settled \cup {u}
    /\ UNCHANGED <<network, flow, potential, augmentations>>

(***************************************************************************)
(* The path found: the predecessors walked back from the sink.  Back[n] is *)
(* the node the walk is at after n steps; a walk that does not meet the    *)
(* source within as many steps as there are nodes never does.              *)
(***************************************************************************)
Back[n \in 0..(Sink + 1)] ==
    IF n = 0 THEN Sink
    ELSE IF Back[n - 1] = Source THEN Source ELSE prev[Back[n - 1]]
WalkEnds == Back[Sink + 1] = Source
Path == {<<prev[v], v>> : v \in {Back[n] : n \in DOMAIN Back} \ {Source}}

PathCost == dist[Sink] + potential[Sink] - potential[Source]
\* Mutant: only the last arc of the path is asked for its room.
MutLastRoom == Room(<<prev[Sink], Sink>>)

Bottleneck == Min({Room(arc) : arc \in Path})

\* Mutant: flow is pushed as long as there is a path.
MutMaximumFlow(maxAugmentations) ==
    /\ augmentations < maxAugmentations
    /\ dist[Sink] # Unreachable

\* The cheapest path pays and the budget of augmentations is not spent.
Pays(maxAugmentations) ==
    /\ augmentations < maxAugmentations
    /\ dist[Sink] # Unreachable
    /\ PathCost < 0

\* Every node with a distance moves its potential by it, the bottleneck is
\* pushed along the path, and the next search starts.
Augment(maxAugmentations) ==
    /\ potential # <<>>
    /\ ~Searching
    /\ Pays(maxAugmentations)
    /\ WalkEnds
    /\ potential' = [v \in Nodes |->
                       IF dist[v] # Unreachable THEN potential[v] + dist[v] ELSE potential[v]]
    /\ LET path == Path
           least == Bottleneck
       IN flow' = [arc \in Edges |-> IF arc \in path THEN flow[arc] + least
                                     ELSE IF Twin(arc) \in path THEN flow[arc] - least
                                     ELSE flow[arc]]
    /\ augmentations' = augmentations + 1
    /\ dist' = NoDistance(network)
    /\ prev' = NoArc(network)
    /\ settled' = {}
    /\ UNCHANGED network

\* The network of a solve is built, and carries nothing yet.
BuildNetwork(net) ==
    /\ network' = net
    /\ flow' = [arc \in DOMAIN net.edges |-> 0]
    /\ potential' = <<>>
    /\ dist' = NoDistance(net)
    /\ prev' = NoArc(net)
    /\ settled' = {}
    /\ augmentations' = 0

\* solve begins with the potentials.
StartFlow ==
    /\ potential = <<>>
    /\ potential' = InitialPotentials
    /\ UNCHANGED <<network, flow, dist, settled, prev, augmentations>>

\* solve returns: nothing pays any more, or the budget is spent.
FlowEnds(maxAugmentations) == potential # <<>> /\ ~Searching /\ ~Pays(maxAugmentations)

-----------------------------------------------------------------------------
\* The surplus a flow earns on the edges it uses.
Worth(f) == SumOf([arc \in DOMAIN f |-> -(f[arc] * Cost(arc))], DOMAIN f)

Through(arcs) == SumOf(flow, arcs)
Into(v) == {arc \in Edges : arc[2] = v}
OutOf(v) == {arc \in Edges : arc[1] = v}

(***************************************************************************)
(* However the searches and the potentials they leave behind fall out, no  *)
(* edge carries less than nothing or more than its capacity, and what      *)
(* enters a node between the source and the sink leaves it                 *)
(* (mincostflow.go:108: the walk back along prevArc).                      *)
(***************************************************************************)
FlowIsFeasible ==
    /\ \A arc \in Edges : flow[arc] \in 0..network.edges[arc].capacity
    /\ \A v \in Nodes \ {Source, Sink} : Through(Into(v)) = Through(OutOf(v))

(***************************************************************************)
(* An augmentation is worth its cost: the flow after it earns more than    *)
(* the flow before it, although the path is priced from potentials and     *)
(* distances that later searches have moved (mincostflow.go:86-91).        *)
(***************************************************************************)
Augmented == network' = network /\ flow' # flow /\ augmentations' = augmentations + 1
EveryAugmentationPays == [][Augmented => Worth(flow') > Worth(flow)]_flowVars
=============================================================================
