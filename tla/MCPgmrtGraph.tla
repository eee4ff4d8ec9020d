---------------------------- MODULE MCPgmrtGraph ----------------------------
(***************************************************************************)
(* Small applications for PgmrtGraph.                                      *)
(***************************************************************************)
EXTENDS PgmrtGraph

Tokens(p, c, t) == [nr_produce |-> p, nr_consume |-> c, nr_threshold |-> t]

\* "a", "ab", "b" and "bb", and names of edges.
NodeName == {<<1>>, <<1, 2>>, <<2>>, <<2, 2>>}
Attrs == {Tokens(1, 1, 1), Tokens(2, 1, 1), Tokens(1, 2, 3)}

Library(names) ==
  [pgmrt |-> FALSE, names |-> names, pairs |-> (1 .. 3) \X (1 .. 3), attrs |-> {Tokens(1, 1, 1)}, backedges |-> BOOLEAN]

\* Names in order, a name before its prefix, and two nodes of one name. In the
\* last graph the source "bb" comes after "ab" and its successor "b" have rates,
\* so that a larger interval travels on from node to node.
Apps ==
  {Library(<< <<1, 2>>, <<1>>, <<2>> >>), Library(<< <<1>>, <<1>>, <<2>> >>),
   [pgmrt |-> TRUE, names |-> << <<1>>, <<1, 2>>, <<2>> >>,
    pairs |-> {pair \in (1 .. 3) \X (1 .. 3) : pair[1] # pair[2]}, attrs |-> Attrs,
    backedges |-> {FALSE}],
   [pgmrt |-> TRUE, names |-> << <<1>>, <<1, 2>>, <<2>>, <<2, 2>> >>,
    pairs |-> {<<1, 2>>, <<2, 3>>, <<4, 2>>}, attrs |-> Attrs, backedges |-> {FALSE}]}

LimitApps == {Library(<< <<1>>, <<1, 2>>, <<2>> >>)}

Rates == {[y |-> 1, x |-> 1], [y |-> 3, x |-> 2]}
=============================================================================
