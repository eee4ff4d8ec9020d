----------------------------- MODULE PgmRegistry -----------------------------
(***************************************************************************)
(* Graphs, nodes and edges as src/src/pgm.cpp registers them: the routines *)
(* that add and destroy them, which only the master thread may call, the   *)
(* routines that find them by name, and the ownership of nodes by worker   *)
(* threads. A name is a sequence, since names are compared by prefix. A    *)
(* node or edge index of the code is one less than its index here.         *)
(***************************************************************************)
EXTENDS Naturals, Sequences, SequencesExt, FiniteSets, FiniteSetsExt

CONSTANTS
  Worker,      \* threads that claim nodes
  Unclaimed,   \* UNCLAIMED_NODE
  Name,        \* names of graphs, nodes and edges
  Kind,        \* edge types in use: some of "cv", "ring", "fifo", "fast_fifo"
  Attr,        \* token parameters of edges
  Shared,      \* is the graph in shared memory?
  MAX_GRAPHS, MAX_NODES, MAX_EDGES, MAX_DEGREE

ASSUME RegistryAssumption ==
  /\ Unclaimed \notin Worker
  /\ \A n \in Name : n \in Seq(Nat) /\ n # <<>>
  /\ Kind \subseteq {"cv", "ring", "fifo", "fast_fifo"}
  /\ Attr \subseteq [nr_produce : Nat, nr_consume : Nat, nr_threshold : Nat]
  /\ Shared \in BOOLEAN
  /\ {MAX_GRAPHS, MAX_NODES, MAX_EDGES, MAX_DEGREE} \subseteq Nat \ {0}

VARIABLES
  gGraphs,   \* the table of graphs
  claim,     \* what a worker is doing: idle, or on its way through a claim
  owned,     \* nodes that a worker holds because pgm_claim_node returned 0
  crashed    \* has a null pointer been followed?

vars == <<gGraphs, claim, owned, crashed>>

Slot == 1 .. MAX_GRAPHS
NodeId == 1 .. MAX_NODES

is_signal_driven(kind) == kind \in {"cv", "ring", "fast_fifo"}
is_data_passing(kind) == kind \in {"ring", "fifo", "fast_fifo"}

EmptyGraph == [in_use |-> FALSE, name |-> <<>>, nodes |-> <<>>, edges |-> <<>>]

NewNode(name) ==
  [name |-> name, owner |-> Unclaimed, in |-> <<>>, out |-> <<>>,
   nr_in_signaled |-> 0, nr_in_data |-> 0, nr_in_signaled_backedges |-> 0,
   nr_in_data_backedges |-> 0, signal_edge_mask |-> {}]

\* An edge slot that has been counted but not filled in: all zero bytes, so
\* both ends are the first node, and there are no operations.
ZeroEdge == [name |-> <<>>, producer |-> 1, consumer |-> 1, kind |-> "none",
             attr |-> [nr_produce |-> 0, nr_consume |-> 0, nr_threshold |-> 0],
             backedge |-> FALSE, ops |-> FALSE, ok |-> FALSE, open |-> {}]

Idle == [at |-> "idle", graph |-> 0, node |-> 0]
is_valid_graph(g) == gGraphs[g].in_use
nr_nodes(g) == Len(gGraphs[g].nodes)
nr_edges(g) == Len(gGraphs[g].edges)
Node(g, n) == gGraphs[g].nodes[n]
EdgeOf(g, e) == gGraphs[g].edges[e]

Init ==
  /\ gGraphs = [g \in Slot |-> EmptyGraph]
  /\ claim = [t \in Worker |-> Idle]
  /\ owned = [t \in Worker |-> {}]
  /\ crashed = FALSE
-----------------------------------------------------------------------------
(***************************************************************************)
(* Finding by name; 0 stands for a return of -1.                           *)
(***************************************************************************)

First(S) == IF S = {} THEN 0 ELSE Min(S)

\* strncmp(name, wanted, strlen(wanted)) == 0
Matches(name, wanted) == IsPrefix(wanted, name)

pgm_find_graph(wanted) ==
  IF Shared THEN First({g \in Slot : Matches(gGraphs[g].name, wanted)}) ELSE 0

\* The search ends at the first edge that matches, linked or not.
pgm_find_edge(g, p, c, wanted) ==
  LET e == First({i \in 1 .. nr_edges(g) : /\ EdgeOf(g, i).producer = p
                                          /\ EdgeOf(g, i).consumer = c
                                          /\ Matches(EdgeOf(g, i).name, wanted)})
  IN  IF e # 0 /\ e \in ToSet(Node(g, p).out) /\ e \in ToSet(Node(g, c).in) THEN e ELSE 0
-----------------------------------------------------------------------------
(***************************************************************************)
(* The master thread: pgm_init_graph, pgm_init_node, __pgm_init_edge and   *)
(* pgm_destroy_graph. Calls that return -1 and change nothing are left out.*)
(***************************************************************************)

FreeSlots == {g \in Slot : ~gGraphs[g].in_use}

InitGraph(name) ==
  /\ pgm_find_graph(name) = 0
  /\ FreeSlots # {}
  /\ gGraphs' = [gGraphs EXCEPT ![Min(FreeSlots)] =
                   [EmptyGraph EXCEPT !.in_use = TRUE, !.name = name]]
  /\ UNCHANGED <<claim, owned, crashed>>

InitNode(g, name) ==
  /\ is_valid_graph(g)
  /\ nr_nodes(g) + 1 # MAX_NODES
  /\ gGraphs' = [gGraphs EXCEPT ![g].nodes = Append(@, NewNode(name))]
  /\ UNCHANGED <<claim, owned, crashed>>

\* An inbound edge is counted and linked; pos is its position in the mask.
Link(node, e, kind, backedge, pos) ==
  LET one(b) == IF b THEN 1 ELSE 0
      sig == is_signal_driven(kind)
      data == is_data_passing(kind)
  IN  [node EXCEPT
         !.nr_in_signaled = @ + one(sig),
         !.nr_in_signaled_backedges = @ + one(sig /\ backedge),
         !.nr_in_data = @ + one(data),
         !.nr_in_data_backedges = @ + one(data /\ backedge),
         !.signal_edge_mask = IF sig THEN @ \cup {pos} ELSE @,
         !.in = Append(@, e)]

\* Mutants: the mask counts the signalled edges only; a backedge is only linked
\* to its producer.
AddInSignalled(node, e, kind, backedge) ==
  Link(node, e, kind, backedge, node.nr_in_signaled + 1)

AddIn(node, e, kind, backedge) == Link(node, e, kind, backedge, Len(node.in) + 1)
AddOut(node, e) == [node EXCEPT !.out = Append(@, e)]

\* The two degree checks come after the edge has been counted.
DegreeReached(g, p, c) ==
  \/ Len(Node(g, p).out) + 1 = MAX_DEGREE
  \/ Len(Node(g, c).in) + 1 = MAX_DEGREE

AttrAccepted(kind, attr) ==
  /\ kind = "ring" => attr.nr_produce = attr.nr_consume
  /\ attr.nr_threshold >= attr.nr_consume
  /\ attr.nr_produce > 0 /\ attr.nr_consume > 0

\* ops->init may fail for a ring or a FIFO; what has been linked stays linked.
InitEdge(g, p, c, name, kind, attr, backedge) ==
  /\ is_valid_graph(g) /\ AttrAccepted(kind, attr)
  /\ nr_edges(g) + 1 # MAX_EDGES
  /\ p <= nr_nodes(g) /\ c <= nr_nodes(g)
  /\ \E ok \in IF kind = "cv" THEN {TRUE} ELSE BOOLEAN :
       LET e == nr_edges(g) + 1
           new == [name |-> name, producer |-> p, consumer |-> c, kind |-> kind,
                   attr |-> attr, backedge |-> backedge, ops |-> TRUE, ok |-> ok, open |-> {}]
           nodes == [gGraphs[g].nodes EXCEPT ![p] = AddOut(@, e)]
       IN  gGraphs' = IF DegreeReached(g, p, c)
             THEN [gGraphs EXCEPT ![g].edges = Append(@, ZeroEdge)]
             ELSE [gGraphs EXCEPT ![g].edges = Append(@, new),
                     ![g].nodes = [nodes EXCEPT ![c] = AddIn(@, e, kind, backedge)]]
  /\ UNCHANGED <<claim, owned, crashed>>

\* Calls ops->destroy for every edge that has been counted. The edges stay in
\* the table until the slot is used again.
DestroyGraph(g) ==
  /\ is_valid_graph(g)
  /\ \A n \in 1 .. nr_nodes(g) : Node(g, n).owner = Unclaimed
  /\ crashed' = \E e \in 1 .. nr_edges(g) : ~EdgeOf(g, e).ops
  /\ gGraphs' = IF crashed' THEN gGraphs
                ELSE [gGraphs EXCEPT ![g] = [@ EXCEPT !.in_use = FALSE, !.name = <<>>,
                                                      !.nodes = <<>>]]
  /\ UNCHANGED <<claim, owned>>
-----------------------------------------------------------------------------
(***************************************************************************)
(* The workers: pgm_claim_node, pgm_claim_any_node and pgm_release_node.   *)
(***************************************************************************)

\* is_valid_graph is called before the lock is taken. Node 0 means any node.
BeginClaim(t, g, n) ==
  /\ claim[t].at = "idle" /\ is_valid_graph(g)
  /\ claim' = [claim EXCEPT ![t] = [at |-> "lock", graph |-> g, node |-> n]]
  /\ UNCHANGED <<gGraphs, owned, crashed>>

FreeNodes(g) == {n \in 1 .. nr_nodes(g) : Node(g, n).owner = Unclaimed}

\* Mutant: takes a node that has an owner.
LockClaimAnyway(t) ==
  LET g == claim[t].graph
      wanted == IF claim[t].node = 0 THEN FreeNodes(g)
                ELSE {claim[t].node} \cap (1 .. nr_nodes(g))
  IN  /\ claim[t].at = "lock"
      /\ IF wanted = {}
           THEN claim' = [claim EXCEPT ![t] = Idle] /\ UNCHANGED gGraphs
           ELSE /\ gGraphs' = [gGraphs EXCEPT ![g].nodes[Min(wanted)].owner = t]
                /\ claim' = [claim EXCEPT ![t] = [at |-> "open", graph |-> g,
                                                  node |-> Min(wanted)]]
      /\ UNCHANGED <<owned, crashed>>

\* The critical section of pgm_claim_node and pgm_claim_any_node.
LockClaim(t) ==
  LET g == claim[t].graph
      wanted == IF claim[t].node = 0 THEN FreeNodes(g)
                ELSE {claim[t].node} \cap FreeNodes(g)
  IN  /\ claim[t].at = "lock"
      /\ IF wanted = {}
           THEN claim' = [claim EXCEPT ![t] = Idle] /\ UNCHANGED gGraphs
           ELSE /\ gGraphs' = [gGraphs EXCEPT ![g].nodes[Min(wanted)].owner = t]
                /\ claim' = [claim EXCEPT ![t] = [at |-> "open", graph |-> g,
                                                  node |-> Min(wanted)]]
      /\ UNCHANGED <<owned, crashed>>

\* The ends of its edges that belong to a node.
Ends(g, n) == ({"in"} \X ToSet(Node(g, n).in)) \cup ({"out"} \X ToSet(Node(g, n).out))
CanFail(g, end) == EdgeOf(g, end[2]).kind \in {"fifo", "fast_fifo"}

\* The ends that are open, and the edges with exactly these ends open.
OpenEnds(g) == {end \in {"in", "out"} \X (1 .. nr_edges(g)) :
                  end[1] \in EdgeOf(g, end[2]).open}
WithEnds(edges, ends) ==
  [e \in DOMAIN edges |->
     [edges[e] EXCEPT !.open = {d \in {"in", "out"} : <<d, e>> \in ends}]]

\* __pgm_claim_node, without the lock: every end is tried, whatever failed
\* before. The node keeps its owner when an end could not be opened.
OpenEdges(t) ==
  LET g == claim[t].graph
      n == claim[t].node
  IN  /\ claim[t].at = "open"
      /\ \E failed \in SUBSET {end \in Ends(g, n) : CanFail(g, end)} :
           /\ gGraphs' = [gGraphs EXCEPT ![g].edges =
                             WithEnds(@, OpenEnds(g) \cup (Ends(g, n) \ failed))]
           /\ owned' = [owned EXCEPT ![t] = IF failed = {} THEN @ \cup {<<g, n>>} ELSE @]
      /\ claim' = [claim EXCEPT ![t] = Idle]
      /\ UNCHANGED crashed

\* Mutant: the inbound edges stay open.
ReleaseOut(t, g, n) ==
  /\ claim[t].at = "idle" /\ is_valid_graph(g)
  /\ n <= nr_nodes(g) /\ Node(g, n).owner = t
  /\ gGraphs' = [gGraphs EXCEPT
       ![g].edges = WithEnds(@, OpenEnds(g) \ {end \in Ends(g, n) : end[1] = "out"}),
       ![g].nodes[n].owner = Unclaimed]
  /\ owned' = [owned EXCEPT ![t] = @ \ {<<g, n>>}]
  /\ UNCHANGED <<claim, crashed>>

Release(t, g, n) ==
  /\ claim[t].at = "idle" /\ is_valid_graph(g)
  /\ n <= nr_nodes(g) /\ Node(g, n).owner = t
  /\ gGraphs' = [gGraphs EXCEPT
       ![g].edges = WithEnds(@, OpenEnds(g) \ Ends(g, n)),
       ![g].nodes[n].owner = Unclaimed]
  /\ owned' = [owned EXCEPT ![t] = @ \ {<<g, n>>}]
  /\ UNCHANGED <<claim, crashed>>

Master ==
  \/ \E name \in Name : InitGraph(name)
  \/ \E g \in Slot :
       \/ \E name \in Name : InitNode(g, name)
       \/ \E p, c \in NodeId, name \in Name, kind \in Kind, attr \in Attr,
            backedge \in BOOLEAN : InitEdge(g, p, c, name, kind, attr, backedge)
       \/ DestroyGraph(g)

Work(t) ==
  \/ \E g \in Slot, n \in NodeId \cup {0} : BeginClaim(t, g, n)
  \/ LockClaim(t)
  \/ OpenEdges(t)
  \/ \E g \in Slot, n \in NodeId : Release(t, g, n)

Next == ~crashed /\ (Master \/ \E t \in Worker : Work(t))

Spec == Init /\ [][Next]_vars
-----------------------------------------------------------------------------
Type(g) ==
  /\ gGraphs[g].in_use \in BOOLEAN /\ gGraphs[g].name \in Name \cup {<<>>}
  /\ nr_nodes(g) < MAX_NODES /\ nr_edges(g) < MAX_EDGES
  /\ \A n \in 1 .. nr_nodes(g) : /\ Node(g, n).name \in Name
                                 /\ Node(g, n).owner \in Worker \cup {Unclaimed}
                                 /\ Len(Node(g, n).in) < MAX_DEGREE
                                 /\ Len(Node(g, n).out) < MAX_DEGREE

\* The tables never grow past their limits, whatever calls fail on the way.
TypeOK ==
  /\ \A g \in Slot : Type(g)
  /\ \A t \in Worker : /\ claim[t].at \in {"idle", "lock", "open"}
                       /\ owned[t] \subseteq Slot \X NodeId
  /\ crashed \in BOOLEAN

\* The counters and the mask that pgm_wait relies on say the same as the list
\* of inbound edges, after any sequence of calls that succeed or fail.
CountersMatch ==
  \A g \in Slot : \A n \in 1 .. nr_nodes(g) :
    LET node == Node(g, n)
        edge(k) == EdgeOf(g, node.in[k])
        Positions(P(_)) == {k \in DOMAIN node.in : P(edge(k))}
        Sig(e) == is_signal_driven(e.kind)
        Data(e) == is_data_passing(e.kind)
        SigBack(e) == Sig(e) /\ e.backedge
        DataBack(e) == Data(e) /\ e.backedge
    IN  /\ node.signal_edge_mask = Positions(Sig)
        /\ node.nr_in_signaled = Cardinality(Positions(Sig))
        /\ node.nr_in_data = Cardinality(Positions(Data))
        /\ node.nr_in_signaled_backedges = Cardinality(Positions(SigBack))
        /\ node.nr_in_data_backedges = Cardinality(Positions(DataBack))


\* A node for which pgm_claim_node or pgm_claim_any_node returned 0 belongs to
\* that worker alone until it releases the node, although the graph is checked
\* before the lock is taken and may be destroyed and its slot reused meanwhile.
ExclusiveOwnership ==
  \A t \in Worker : \A x \in owned[t] :
    /\ x[2] <= nr_nodes(x[1])
    /\ Node(x[1], x[2]).owner = t

\* An edge is open only at an end whose node has an owner, so a destroyed graph
\* has left no edge open. The edges are opened after the lock has been released.
OpenEndsOwned ==
  \A g \in Slot : \A e \in 1 .. nr_edges(g) : \A d \in EdgeOf(g, e).open :
    LET n == IF d = "in" THEN EdgeOf(g, e).consumer ELSE EdgeOf(g, e).producer
    IN  gGraphs[g].in_use /\ Node(g, n).owner # Unclaimed
=============================================================================
