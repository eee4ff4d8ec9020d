---------------------------- MODULE GraphQueries ----------------------------
(***************************************************************************)
(* The queries of src/src/pgm.cpp on a registered graph: neighbours and    *)
(* degrees, ancestors, the test for cycles, and the longest and shortest   *)
(* path from a source. A query that takes the graph's lock is an operator  *)
(* on the state in which it holds the lock; pgm_is_dag takes none.         *)
(***************************************************************************)
EXTENDS PgmRegistry, Integers

pgm_find_node(g, wanted) == First({n \in 1 .. nr_nodes(g) : Matches(Node(g, n).name, wanted)})

pgm_find_first_edge(g, p, c) ==
  First({e \in 1 .. nr_edges(g) : EdgeOf(g, e).producer = p /\ EdgeOf(g, e).consumer = c})

\* The edges of a node's list that a query looks at.
Kept(g, list, ignore_backedges) ==
  SelectSeq(list, LAMBDA e : ~(ignore_backedges /\ EdgeOf(g, e).backedge))

\* The room asked for is that of the whole list, with the backedges.
Listed(g, list, len, ignore_backedges) ==
  IF len < Len(list) THEN [ret |-> -1, buf |-> <<>>]
  ELSE LET kept == Kept(g, list, ignore_backedges)
       IN  [ret |-> Len(kept), buf |-> kept]

pgm_get_edges_out(g, n, len, ignore_backedges) ==
  Listed(g, Node(g, n).out, len, ignore_backedges)
pgm_get_edges_in(g, n, len, ignore_backedges) ==
  Listed(g, Node(g, n).in, len, ignore_backedges)

pgm_get_successors(g, n, len, ignore_backedges) ==
  LET r == Listed(g, Node(g, n).out, len, ignore_backedges)
  IN  [r EXCEPT !.buf = [k \in DOMAIN @ |-> EdgeOf(g, @[k]).consumer]]
pgm_get_predecessors(g, n, len, ignore_backedges) ==
  LET r == Listed(g, Node(g, n).in, len, ignore_backedges)
  IN  [r EXCEPT !.buf = [k \in DOMAIN @ |-> EdgeOf(g, @[k]).producer]]

\* Mutant: the flag is not looked at.
DegreeOfAll(g, n, ignore_backedges) == Len(Node(g, n).in)

pgm_get_degree_in(g, n, ignore_backedges) == Len(Kept(g, Node(g, n).in, ignore_backedges))
pgm_get_degree_out(g, n, ignore_backedges) == Len(Kept(g, Node(g, n).out, ignore_backedges))
pgm_get_degree(g, n, ignore_backedges) ==
  pgm_get_degree_in(g, n, ignore_backedges) + pgm_get_degree_out(g, n, ignore_backedges)

pgm_is_parent(g, n, query) ==
  /\ n # query
  /\ \E e \in ToSet(Kept(g, Node(g, n).in, TRUE)) : EdgeOf(g, e).producer = query

\* The depth-first search hands the set of visited nodes from branch to branch.
RECURSIVE is_ancestor(_, _, _, _)
is_ancestor(g, n, query, visited) ==
  IF n = query THEN [found |-> TRUE, visited |-> visited]
  ELSE FoldLeft(LAMBDA acc, e :
                  LET parent == EdgeOf(g, e).producer
                  IN  IF acc.found \/ parent \in acc.visited THEN acc
                      ELSE is_ancestor(g, parent, query, acc.visited \cup {parent}),
                [found |-> FALSE, visited |-> visited],
                Kept(g, Node(g, n).in, TRUE))

pgm_is_ancestor(g, n, query) == n # query /\ is_ancestor(g, n, query, {}).found
-----------------------------------------------------------------------------
\* Nodes are told apart by their names. A node leaves the path when its
\* successors have been visited.
RECURSIVE dag_visit(_, _, _, _, _)

DagSuccessors(g, n, visited, path, ignore) ==
  FoldLeft(LAMBDA acc, e :
             LET successor == EdgeOf(g, e).consumer
             IN  IF ~acc.ok THEN acc
                 ELSE IF Node(g, successor).name \in acc.path THEN [acc EXCEPT !.ok = FALSE]
                 ELSE dag_visit(g, successor, acc.visited, acc.path, ignore),
           [ok |-> TRUE, visited |-> visited, path |-> path],
           Kept(g, Node(g, n).out, ignore))

\* Mutant: a node stays on the path.
DagVisitStays(g, n, visited, path, ignore) ==
  LET name == Node(g, n).name
  IN  IF name \in visited THEN [ok |-> TRUE, visited |-> visited, path |-> path]
      ELSE DagSuccessors(g, n, visited \cup {name}, path \cup {name}, ignore)

dag_visit(g, n, visited, path, ignore) ==
  LET name == Node(g, n).name
      r == DagSuccessors(g, n, visited \cup {name}, path \cup {name}, ignore)
  IN  IF name \in visited THEN [ok |-> TRUE, visited |-> visited, path |-> path]
      ELSE IF r.ok THEN [r EXCEPT !.path = @ \ {name}] ELSE r

pgm_is_dag(g, ignore) ==
  LET visit(acc, n) ==
        IF ~acc.ok \/ Node(g, n).name \in acc.visited THEN acc
        ELSE LET r == dag_visit(g, n, acc.visited, {}, ignore)
             IN  [ok |-> r.ok, visited |-> r.visited]
  IN  /\ is_valid_graph(g)
      /\ FoldLeft(visit, [ok |-> TRUE, visited |-> {}], [n \in 1 .. nr_nodes(g) |-> n]).ok
-----------------------------------------------------------------------------
(***************************************************************************)
(* Depths. The code hands every edge that has been counted to Boost, which *)
(* goes through the edges by producer and relaxes each of them once per    *)
(* node. A weight function w maps the edges to integers.                   *)
(***************************************************************************)

Infinity == 1000000   \* numeric_limits<double>::max()

ForwardEdges(g) == {e \in 1 .. nr_edges(g) : ~EdgeOf(g, e).backedge}

Relax(g, w, d, e) ==
  LET p == EdgeOf(g, e).producer
      c == EdgeOf(g, e).consumer
  IN  IF d[p] # Infinity /\ d[p] + w[e] < d[c] THEN [d EXCEPT ![c] = d[p] + w[e]] ELSE d

Distances(g, w, source) ==
  LET before(a, b) == \/ EdgeOf(g, a).producer < EdgeOf(g, b).producer
                      \/ EdgeOf(g, a).producer = EdgeOf(g, b).producer /\ a < b
      order == SetToSortSeq(ForwardEdges(g), before)
      round[k \in 0 .. nr_nodes(g)] ==
        IF k = 0 THEN [n \in 1 .. nr_nodes(g) |-> IF n = source THEN 0 ELSE Infinity]
        ELSE FoldLeft(LAMBDA d, e : Relax(g, w, d, e), round[k - 1], order)
  IN  round[nr_nodes(g)]

\* Mutant: a node with an inbound backedge is no source.
SourcesWithoutEdges(g) == {n \in 1 .. nr_nodes(g) : Node(g, n).in = <<>>}

Sources(g) == {n \in 1 .. nr_nodes(g) : Kept(g, Node(g, n).in, TRUE) = <<>>}

pgm_get_max_depth(g, target, w) ==
  LET negated == [e \in DOMAIN w |-> -w[e]]
      d(n) == Distances(g, negated, n)[target]
  IN  IF ~pgm_is_dag(g, TRUE) \/ target \notin 1 .. nr_nodes(g) THEN -1
      ELSE -Min({Infinity} \cup {IF d(n) > 0 THEN Infinity ELSE d(n) : n \in Sources(g)})

pgm_get_min_depth(g, target, w) ==
  LET d(n) == Distances(g, w, n)[target]
  IN  IF ~pgm_is_dag(g, TRUE) \/ target \notin 1 .. nr_nodes(g) THEN -1
      ELSE Min({Infinity} \cup {d(n) : n \in Sources(g)})
=============================================================================
