----------------------------- MODULE MCRegistry -----------------------------
(***************************************************************************)
(* Small instances of PgmRegistry. What the threads of a program do is one *)
(* of a few plans, which between them join the cases of interest.          *)
(***************************************************************************)
EXTENDS PgmRegistry

CONSTANTS t1, t2

VARIABLE plan

a == <<1>>
ab == <<1, 2>>
Names == {a, ab}
OneToken == [nr_produce |-> 1, nr_consume |-> 1, nr_threshold |-> 1]
Attrs == {OneToken}

\* Signalled edges, edges with data and edges with both, in any order, forward
\* and backward.
Mixed == [workers |-> {}, names |-> {a}, kinds |-> {"cv", "fifo", "fast_fifo"},
          backedges |-> BOOLEAN, edges |-> 3]

\* Names of which one begins with the other; any call may fail, or be refused
\* because a node has all the edges it can have.
Named == [workers |-> {}, names |-> Names, kinds |-> {"fifo"}, backedges |-> {FALSE},
          edges |-> 4]

\* Two workers.
Claimed == [workers |-> {t1, t2}, names |-> {a}, kinds |-> {"cv", "fast_fifo"},
            backedges |-> {FALSE}, edges |-> 2]

Plans == {Mixed, Named, Claimed}

PlannedMaster ==
  \/ InitGraph(a)
  \/ \E g \in Slot :
       \/ InitNode(g, a)
       \/ /\ nr_edges(g) < plan.edges
          /\ \E p, c \in NodeId, name \in plan.names, kind \in plan.kinds,
               backedge \in plan.backedges : InitEdge(g, p, c, name, kind, OneToken, backedge)
       \/ DestroyGraph(g)

PlannedInit == Init /\ plan \in Plans
PlannedNext ==
  /\ ~crashed
  /\ PlannedMaster \/ \E t \in plan.workers : Work(t)
  /\ UNCHANGED plan
PlannedSpec == PlannedInit /\ [][PlannedNext]_<<vars, plan>>
=============================================================================
