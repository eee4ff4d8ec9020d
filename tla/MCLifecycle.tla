---------------------------- MODULE MCLifecycle ----------------------------
(***************************************************************************)
(* The programs of src/tools that PgmLifecycle is about.                   *)
(***************************************************************************)
EXTENDS PgmLifecycle

\* basictest.cpp without its signalled edges: n0 -> n2 -> n6 over FIFOs and
\* n0 -> n4 -> n6 over message queues. The barrier counts all threads.
Basic ==
  [Node |-> 1 .. 4, Edge |-> 1 .. 4, producer |-> <<1, 1, 2, 3>>, consumer |-> <<2, 3, 4, 4>>,
   in |-> << <<>>, <<1>>, <<2>>, <<3, 4>> >>, out |-> << <<1, 2>>, <<3>>, <<4>>, <<>> >>,
   kind |-> <<"fifo", "mq", "fifo", "mq">>, Backedge |-> {}, nr_skips |-> <<0, 0, 0, 0>>,
   count |-> 4, claim_any |-> FALSE]

\* backedgetest.cpp: n0 -> n1, a FIFO back that is skipped, and a barrier of one.
Backedge ==
  [Node |-> 1 .. 2, Edge |-> 1 .. 2, producer |-> <<1, 2>>, consumer |-> <<2, 1>>,
   in |-> << <<2>>, <<1>> >>, out |-> << <<1>>, <<2>> >>,
   kind |-> <<"cv", "fifo">>, Backedge |-> {2}, nr_skips |-> <<0, 2>>,
   count |-> 1, claim_any |-> TRUE]

\* The same with a FIFO both ways: a loop of opens that wait.
FifoLoop == [Backedge EXCEPT !.kind = <<"fifo", "fifo">>]

\* sockstreamtest.cpp: n0 -> n1 over a socket, and a barrier of one.
SockStream ==
  [Node |-> 1 .. 2, Edge |-> {1}, producer |-> <<1>>, consumer |-> <<2>>,
   in |-> << <<>>, <<1>> >>, out |-> << <<1>>, <<>> >>,
   kind |-> <<"sock">>, Backedge |-> {}, nr_skips |-> <<0>>, count |-> 1, claim_any |-> TRUE]

Programs == {Basic, Backedge, FifoLoop, SockStream}
============================================================================
