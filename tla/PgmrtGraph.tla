----------------------------- MODULE PgmrtGraph -----------------------------
(***************************************************************************)
(* An application builds a graph and queries it. It may be any application *)
(* of the library, with backedges and with nodes named as it likes, or     *)
(* src/tools/pgmrt.cpp: parse_graph_description adds the nodes in the      *)
(* order of their names and checks that the graph has no cycle,            *)
(* parse_graph_rates computes the rate of every node from the rates of the *)
(* sources, and main gives each node a phase, its depth in time. A node    *)
(* index stands for the node's name, in the order of the names.            *)
(***************************************************************************)
EXTENDS GraphQueries

CONSTANTS
  App,        \* what applications do: see AppAssumption
  Rate,       \* rates that a user gives to a source: x arrivals in y time units
  MaxEdges    \* bound: edges an application adds

AppAssumption ==
  /\ \A a \in App : /\ a.pgmrt \in BOOLEAN
                    /\ a.names \in Seq(Name)            \* of the nodes, as added
                    /\ a.pairs \subseteq NodeId \X NodeId  \* that are joined
                    /\ a.attrs \subseteq Attr
                    /\ a.backedges \subseteq BOOLEAN    \* are backedges added?
  /\ Rate \subseteq [y : Nat \ {0}, x : Nat \ {0}]
  /\ MaxEdges \in Nat

ASSUME PgmrtAssumption == AppAssumption

VARIABLES
  app,      \* the application
  stage,    \* how far it is
  rateMap,  \* rates known so far
  tovisit,  \* nodes whose successors are to be given rates
  this, successors,  \* the node that is being visited, its successors left
  invalid,  \* has validate_rate reported incompatible rates?
  phase     \* the phases that main gives to the nodes

loopVars == <<this, successors>>
toolVars == <<app, stage, rateMap, tovisit, loopVars, invalid, phase>>

G == 1   \* the graph

GraphInit ==
  /\ Init
  /\ app \in App /\ stage = "describe"
  /\ rateMap = << >> /\ tovisit = {} /\ this = 0 /\ successors = <<>> /\ invalid = FALSE /\ phase = << >>
-----------------------------------------------------------------------------
(***************************************************************************)
(* parse_graph_description                                                 *)
(***************************************************************************)

AddGraph ==
  /\ stage = "describe" /\ ~is_valid_graph(G)
  /\ InitGraph(app.names[1])
  /\ UNCHANGED toolVars

AddNode ==
  /\ stage = "describe" /\ nr_nodes(G) < Len(app.names)
  /\ InitNode(G, app.names[nr_nodes(G) + 1])
  /\ UNCHANGED toolVars

\* make_edge_name: the edges between two nodes all have the same name.
make_edge_name(p, c) == <<p, c>>

AddEdge(p, c, attr, backedge) ==
  /\ stage = "describe" /\ nr_nodes(G) = Len(app.names) /\ nr_edges(G) < MaxEdges
  /\ <<p, c>> \in app.pairs /\ attr \in app.attrs /\ backedge \in app.backedges
  /\ InitEdge(G, p, c, make_edge_name(p, c), "cv", attr, backedge)
  /\ UNCHANGED toolVars

\* "graph is not acyclic" is thrown and ends the program.
CheckDag ==
  /\ stage = "describe" /\ app.pgmrt /\ nr_nodes(G) = Len(app.names)
  /\ stage' = IF pgm_is_dag(G, TRUE) THEN "rates" ELSE "exit"
  /\ UNCHANGED <<vars, app, rateMap, tovisit, loopVars, invalid, phase>>
-----------------------------------------------------------------------------
(***************************************************************************)
(* parse_graph_rates                                                       *)
(***************************************************************************)

\* "only for source nodes"
GiveRates ==
  /\ stage = "rates"
  /\ rateMap' \in [Sources(G) -> Rate]
  /\ tovisit' = Sources(G)
  /\ stage' = "visit"
  /\ UNCHANGED <<vars, app, loopVars, invalid, phase>>

gcd(a, b) == Max({d \in 1 .. Min({a, b}) : a % d = 0 /\ b % d = 0})
lcm(a, b) == (a * b) \div gcd(a, b)

\* The attributes of the edge that pgm_find_edge finds.
EdgeAttr(p, c) == EdgeOf(G, pgm_find_edge(G, p, c, make_edge_name(p, c))).attr

\* Do neighbouring predecessors that have rates agree on the rate of node c?
validate_rate(c, rates) ==
  LET preds == pgm_get_predecessors(G, c, pgm_get_degree_in(G, c, TRUE), TRUE).buf
      rated == SelectSeq(preds, LAMBDA p : p \in DOMAIN rates)
      agree(p, q) ==
        rates[p].y * EdgeAttr(p, c).nr_consume * EdgeAttr(q, c).nr_produce * rates[q].x
        = rates[q].y * EdgeAttr(q, c).nr_consume * EdgeAttr(p, c).nr_produce * rates[p].x
  IN  \A k \in 2 .. Len(rated) : agree(rated[k - 1], rated[k])

\* Mutant: the interval of the producer will do.
SameInterval(p, c, r) == r.y

\* The interval in which c fires a whole number of times because of p alone, and
\* how often it fires in an interval y.
OwnInterval(p, c, r) ==
  (EdgeAttr(p, c).nr_consume * r.y) \div gcd(EdgeAttr(p, c).nr_produce * r.x,
                                             EdgeAttr(p, c).nr_consume)
Arrivals(p, c, r, y) ==
  (y * EdgeAttr(p, c).nr_produce * r.x) \div (EdgeAttr(p, c).nr_consume * r.y)

Interval(p, c, rates) ==
  LET own == OwnInterval(p, c, rates[p])
  IN  IF c \in DOMAIN rates THEN lcm(own, rates[c].y) ELSE own

\* Mutant: the node is not taken off the set.
VisitKeeps ==
  /\ stage = "visit" /\ successors = <<>> /\ tovisit # {}
  /\ LET n == pgm_find_node(G, app.names[Min(tovisit)])
     IN  /\ this' = n
         /\ successors' = pgm_get_successors(G, n, pgm_get_degree_out(G, n, TRUE), TRUE).buf
  /\ UNCHANGED <<vars, app, stage, rateMap, tovisit, invalid, phase>>

\* One turn of the loop begins. The node is looked up by its name, the first of
\* the set.
Visit ==
  /\ stage = "visit" /\ successors = <<>> /\ tovisit # {}
  /\ LET n == pgm_find_node(G, app.names[Min(tovisit)])
     IN  /\ this' = n
         /\ successors' = pgm_get_successors(G, n, pgm_get_degree_out(G, n, TRUE), TRUE).buf
  /\ tovisit' = tovisit \ {Min(tovisit)}
  /\ UNCHANGED <<vars, app, stage, rateMap, invalid, phase>>

\* The next successor gets a rate, or a larger interval because of this node.
VisitSuccessor ==
  /\ stage = "visit" /\ successors # <<>>
  /\ LET c == Head(successors)
         y == Interval(this, c, rateMap)
         known == c \in DOMAIN rateMap
         new == [y |-> y, x |-> Arrivals(this, c, rateMap[this], y)]
     IN  /\ invalid' = (invalid \/ (known /\ ~validate_rate(c, rateMap)))
         /\ IF known /\ y = rateMap[c].y
              THEN UNCHANGED <<rateMap, tovisit>>
              ELSE /\ rateMap' = [n \in DOMAIN rateMap \cup {c} |->
                                    IF n = c THEN new ELSE rateMap[n]]
                   /\ tovisit' = tovisit \cup {c}
  /\ successors' = Tail(successors)
  /\ UNCHANGED <<vars, app, stage, this, phase>>
-----------------------------------------------------------------------------
(***************************************************************************)
(* main: periods and phases                                                *)
(***************************************************************************)

\* Periods are y/x; to keep them whole they are multiplied by all the x.
Scale == MapThenFoldSet(LAMBDA a, b : a * b, 1, LAMBDA n : rateMap[n].x,
                        LAMBDA S : CHOOSE n \in S : TRUE, DOMAIN rateMap)
Period(n) == rateMap[n].y * (Scale \div rateMap[n].x)

\* The jobs of the producer until the threshold is met, as time.
producer_period(e) ==
  LET attr == EdgeOf(G, e).attr
      jobs_to_thresh == attr.nr_threshold \div attr.nr_produce
                        + (IF attr.nr_threshold % attr.nr_produce # 0 THEN 1 ELSE 0)
  IN  Period(EdgeOf(G, e).producer) * jobs_to_thresh

\* assert(search != periods.end())
EveryProducerRated == \A e \in ForwardEdges(G) : EdgeOf(G, e).producer \in DOMAIN rateMap

Spawn ==
  /\ stage = "visit" /\ successors = <<>> /\ tovisit = {}
  /\ IF EveryProducerRated
       THEN /\ stage' = "run"
            /\ phase' = [n \in 1 .. nr_nodes(G) |->
                           pgm_get_max_depth(G, n, [e \in ForwardEdges(G) |-> producer_period(e)])]
       ELSE stage' = "abort" /\ UNCHANGED phase
  /\ UNCHANGED <<vars, app, rateMap, tovisit, loopVars, invalid>>

GraphNext ==
  \/ AddGraph \/ AddNode \/ CheckDag \/ GiveRates \/ Visit \/ VisitSuccessor \/ Spawn
  \/ \E p, c \in NodeId, attr \in Attr, backedge \in BOOLEAN : AddEdge(p, c, attr, backedge)

InLoop == stage = "visit" /\ (tovisit # {} \/ successors # <<>>)

\* The loop of parse_graph_rates does not wait for anything. This is the weak
\* fairness of Visit \/ VisitSuccessor, of which InLoop is the guard.
LoopFairness == []<>(~InLoop) \/ []<><<Visit \/ VisitSuccessor>>_toolVars

GraphSpec == GraphInit /\ [][GraphNext]_<<vars, toolVars>> /\ LoopFairness
-----------------------------------------------------------------------------
(***************************************************************************)
(* What the queries are about: walks along edges that have been added.     *)
(***************************************************************************)

Added(ignore_backedges) ==
  {e \in 1 .. nr_edges(G) : /\ EdgeOf(G, e).ok
                            /\ ~(ignore_backedges /\ EdgeOf(G, e).backedge)}

\* Long enough to go round a cycle and come back to its start.
Walk(E) ==
  {w \in UNION {[1 .. k -> E] : k \in 1 .. nr_nodes(G)} :
     \A k \in 2 .. Len(w) : EdgeOf(G, w[k]).producer = EdgeOf(G, w[k - 1]).consumer}
From(w) == EdgeOf(G, w[1]).producer
To(w) == EdgeOf(G, w[Len(w)]).consumer

Acyclic(ignore_backedges) == \A w \in Walk(Added(ignore_backedges)) : From(w) # To(w)

\* The library tells nodes apart by name when it looks for cycles.
DistinctNames ==
  \A m, n \in 1 .. nr_nodes(G) : Node(G, m).name = Node(G, n).name => m = n

\* pgm_is_dag says that a graph whose nodes have distinct names has no cycle
\* exactly when no walk returns to its start; pgm_is_ancestor and pgm_is_parent
\* hold exactly when a walk, or one edge, leads from the one node to the other.
\* The sets of visited nodes that the searches share between branches hide
\* nothing and invent nothing.
ReachabilityExact ==
  stage = "describe" /\ is_valid_graph(G) =>
    /\ \A ignore \in BOOLEAN : DistinctNames => (pgm_is_dag(G, ignore) <=> Acyclic(ignore))
    /\ LET joined == {<<From(w), To(w)>> : w \in Walk(Added(TRUE))}
           edges == {<<EdgeOf(G, e).producer, EdgeOf(G, e).consumer>> : e \in Added(TRUE)}
       IN  \A n, query \in 1 .. nr_nodes(G) : n # query =>
             /\ pgm_is_ancestor(G, n, query) <=> <<query, n>> \in joined
             /\ pgm_is_parent(G, n, query) <=> <<query, n>> \in edges

Times(seq, x) == Len(SelectSeq(seq, LAMBDA y : y = x))

\* The queries about the neighbours of a node agree with each other and with the
\* edges that were added: as often as c is a successor of p, p is a predecessor
\* of c, parallel edges included, and an edge is found between two nodes exactly
\* when there is one. Against pgm.h, which asks for room for the entries and
\* promises 0, the queries want room for the backedges that they leave out and
\* return the number of entries: a client that asks for the degree first, as the
\* tools do, is refused exactly where it ignores backedges and the node has one.
\* When nodes are added in the order of their names, as pgmrt adds them,
\* pgm_find_node finds the node of that name although a prefix is a match.
NeighboursAgree ==
  stage = "describe" =>
  /\ \A ignore \in BOOLEAN : \A p, c \in 1 .. nr_nodes(G) :
       LET joining == {e \in Added(ignore) : EdgeOf(G, e).producer = p /\ EdgeOf(G, e).consumer = c}
           roomOut == pgm_get_degree_out(G, p, FALSE)
           roomIn == pgm_get_degree_in(G, c, FALSE)
       IN  /\ Times(pgm_get_successors(G, p, roomOut, ignore).buf, c) = Cardinality(joining)
           /\ Times(pgm_get_predecessors(G, c, roomIn, ignore).buf, p) = Cardinality(joining)
           /\ joining \subseteq ToSet(pgm_get_edges_out(G, p, roomOut, ignore).buf)
           /\ joining \subseteq ToSet(pgm_get_edges_in(G, c, roomIn, ignore).buf)
           /\ ~ignore => (pgm_find_first_edge(G, p, c) = 0 <=> joining = {})
  /\ \A ignore \in BOOLEAN : \A n \in 1 .. nr_nodes(G) :
       LET back == {e \in Added(FALSE) : ignore /\ EdgeOf(G, e).backedge}
           in == pgm_get_degree_in(G, n, ignore)
           out == pgm_get_degree_out(G, n, ignore)
           refused(end) == \E e \in back : EdgeOf(G, e)[end] = n
       IN  /\ pgm_get_degree(G, n, ignore) = in + out
           /\ pgm_get_successors(G, n, out, ignore).ret = IF refused("producer") THEN -1 ELSE out
           /\ pgm_get_predecessors(G, n, in, ignore).ret = IF refused("consumer") THEN -1 ELSE in
  /\ app.pgmrt => \A n \in 1 .. nr_nodes(G) : pgm_find_node(G, Node(G, n).name) = n

Roots == (1 .. nr_nodes(G)) \ {EdgeOf(G, e).consumer : e \in Added(TRUE)}

\* The lengths of the walks from a source to a node; a source is at 0.
Lengths(target, w) ==
  {FoldLeft(LAMBDA sum, e : sum + w[e], 0, walk) :
     walk \in {v \in Walk(Added(TRUE)) : From(v) \in Roots /\ To(v) = target}}
  \cup (IF target \in Roots THEN {0} ELSE {})

\* pgm_get_max_depth is the length of the longest and pgm_get_min_depth that of
\* the shortest path from any source to a node, whatever the weights; so every
\* node of pgmrt starts when the last of its producers has made the threshold.
DepthIsLongestPath ==
  /\ stage = "describe" /\ is_valid_graph(G) /\ DistinctNames /\ Acyclic(TRUE) =>
       \A n \in 1 .. nr_nodes(G), w \in {[e \in 1 .. nr_edges(G) |-> k * e] : k \in {0, 1}} :
         LET weight == [e \in DOMAIN w |-> w[e] + 1]
         IN  /\ pgm_get_max_depth(G, n, weight) = Max(Lengths(n, weight))
             /\ pgm_get_min_depth(G, n, weight) = Min(Lengths(n, weight))
  /\ stage = "run" =>
       \A n \in 1 .. nr_nodes(G) :
         phase[n] = Max(Lengths(n, [e \in ForwardEdges(G) |-> producer_period(e)]))

Balanced(p, c) ==
  rateMap[p].x * EdgeAttr(p, c).nr_produce * rateMap[c].y
  = rateMap[c].x * EdgeAttr(p, c).nr_consume * rateMap[p].y

\* Given the rates of the sources, parse_graph_rates finds a rate for every node,
\* without rounding: a node consumes what its producers produce, over the edge
\* that pgm_find_edge finds between them (of parallel edges, the first). Where
\* the rates of the producers contradict each other, validate_rate has said so.
RatesBalanced ==
  /\ stage # "abort"
  /\ stage = "run" =>
       /\ DOMAIN rateMap = 1 .. nr_nodes(G)
       /\ invalid \/ \A e \in Added(TRUE) : Balanced(EdgeOf(G, e).producer, EdgeOf(G, e).consumer)

\* The computation of the rates ends, although a node is visited again whenever
\* its interval grows.
RatesTerminate == stage = "visit" ~> ~InLoop
=============================================================================
