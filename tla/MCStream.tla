------------------------------ MODULE MCStream ------------------------------
(***************************************************************************)
(* Small instances of PgmStream.                                           *)
(***************************************************************************)
EXTENDS PgmStream

\* Two FIFOs with atomic writes, whose producers stop at different times, while
\* select() is interrupted.
Pair ==
  [nr_in |-> 2, nr_produce |-> <<2, 2>>, nr_consume |-> <<2, 2>>, Signalled |-> {},
   nr_threshold |-> <<2, 2>>, Word |-> 16,
   Queue |-> {}, BackEdge |-> {}, init_skips |-> <<0, 0>>, Whole |-> {1, 2},
   Capacity |-> 6, Messages |-> <<2, 1>>, MaxJobs |-> 6, MaxInterrupts |-> 2]

\* A FIFO without tokens whose messages are larger than what a job consumes and
\* written in pieces, one with tokens whose messages are smaller and that just
\* holds what a job consumes, and a backedge that is skipped once. Both forward
\* edges carry enough for three jobs; a token is left over.
Loop ==
  [nr_in |-> 3, nr_produce |-> <<3, 1, 1>>, nr_consume |-> <<2, 2, 1>>, Signalled |-> {2},
   nr_threshold |-> <<2, 2, 1>>, Word |-> 16,
   Queue |-> {}, BackEdge |-> {3}, init_skips |-> <<0, 0, 1>>, Whole |-> {},
   Capacity |-> 4, Messages |-> <<2, 7, 0>>, MaxJobs |-> 6, MaxInterrupts |-> 0]

\* A message queue with room for two messages, one with tokens, and a FIFO. The
\* producers send the same number of messages.
Queues ==
  [nr_in |-> 3, nr_produce |-> <<2, 1, 1>>, nr_consume |-> <<2, 1, 1>>, Signalled |-> {2},
   nr_threshold |-> <<2, 1, 1>>, Word |-> 16,
   Queue |-> {1, 2}, BackEdge |-> {}, init_skips |-> <<0, 0, 0>>, Whole |-> {3},
   Capacity |-> 2, Messages |-> <<2, 2, 2>>, MaxJobs |-> 6, MaxInterrupts |-> 0]

\* Two FIFOs without tokens of which a job consumes two messages each.
Restart ==
  [nr_in |-> 2, nr_produce |-> <<1, 1>>, nr_consume |-> <<2, 2>>, Signalled |-> {},
   nr_threshold |-> <<2, 2>>, Word |-> 16,
   Queue |-> {}, BackEdge |-> {}, init_skips |-> <<0, 0>>, Whole |-> {1, 2},
   Capacity |-> 6, Messages |-> <<4, 4>>, MaxJobs |-> 6, MaxInterrupts |-> 0]

AllSetups == {Pair, Loop, Queues}
RestartSetup == {Restart}
=============================================================================
