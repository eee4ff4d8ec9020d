------------------------------ MODULE MCTokens ------------------------------
(***************************************************************************)
(* Small graphs for PgmTokens.                                             *)
(***************************************************************************)
EXTENDS PgmTokens, TLC

CONSTANTS src, mid, join

Const(S, k) == [e \in S |-> k]

\* src feeds join directly and through mid. One job of src makes mid fire
\* twice and join once.
TriangleNode == {src, mid, join}
TriangleEdge == 1..3
TriangleProducer == <<src, src, mid>>
TriangleConsumer == <<join, mid, join>>
TriangleProduce == <<1, 2, 1>>
TriangleConsume == <<1, 1, 2>>
\* mid needs two tokens before it consumes one.
TriangleThreshold == <<1, 2, 2>>
Triangle1 == Const(1..3, 1)
Triangle0 == Const(1..3, 0)

\* src and mid in a loop: edge 2 is a backedge that is skipped four times, so
\* src is at most four jobs ahead of mid, which just fills the ring.
LoopNode == {src, mid}
LoopEdge == 1..2
LoopProducer == <<src, mid>>
LoopConsumer == <<mid, src>>
LoopSkips == <<0, 4>>
Loop4 == Const(1..2, 4)
Loop1 == Const(1..2, 1)
Loop0 == Const(1..2, 0)
=============================================================================
