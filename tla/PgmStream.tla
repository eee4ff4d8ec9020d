------------------------------ MODULE PgmStream ------------------------------
(***************************************************************************)
(* Data passing over FIFOs, message queues and sockets in src/src/pgm.cpp: *)
(* pgm_send_std_data, pgm_wait_for_data, pgm_recv_data, and pgm_wait with  *)
(* the tokens of the edges that are signalled as well. One consumer node   *)
(* reads its inbound edges in[0], in[1], ... (here edges 1, 2, ...); every *)
(* forward edge has a producer of its own, a backedge is written by the    *)
(* consumer itself. The pipe of an edge carries messages, each a tag       *)
(* followed by nr_produce bytes; a terminate message is a tag alone. A     *)
(* message queue takes and gives whole messages. The consumer takes        *)
(* nr_consume bytes at a time. A data byte is its position in the edge's   *)
(* stream of data. How a consumer sleeps and is woken is in PgmTokens.     *)
(***************************************************************************)
EXTENDS Integers, Sequences, SequencesExt, FiniteSetsExt

CONSTANT Setups  \* the edges and clients that a behaviour may start with

IsSetup(s) ==
  LET E == 1 .. s.nr_in                       \* inbound edges
  IN  /\ s.nr_in \in Nat \ {0}
      /\ s.nr_produce \in [E -> Nat \ {0}]    \* bytes of data per message
      /\ s.nr_consume \in [E -> Nat \ {0}]    \* bytes of data per call of pgm_wait
      /\ s.Signalled \subseteq E   \* edges that also pass tokens (pgm_fast_fifo_edge, ...)
      /\ s.nr_threshold \in [E -> Nat] /\ \A e \in E : s.nr_threshold[e] >= s.nr_consume[e]
      /\ s.Word \in Nat \ {0}      \* nr_pending is a number modulo Word
      /\ s.Queue \subseteq E       \* POSIX message queues; the others are FIFOs or sockets
      /\ \A e \in s.Queue : s.nr_produce[e] = s.nr_consume[e]
      /\ s.BackEdge \subseteq E
      /\ s.init_skips \in [E -> Nat] /\ \A e \in E \ s.BackEdge : s.init_skips[e] = 0
      /\ s.Whole \subseteq E       \* pipes to which a write is all or nothing
      /\ s.Capacity \in Nat \ {0}  \* bytes in a pipe, or messages in a queue
      /\ s.Messages \in [E -> Nat] \* bound: messages before a producer terminates
      /\ s.MaxJobs \in Nat         \* bound: jobs of the consumer
      /\ s.MaxInterrupts \in Nat   \* bound: how often select() is interrupted

ASSUME StreamAssumption == \A s \in Setups : IsSetup(s)

VARIABLES
  setup,       \* one of Setups
  pipe,        \* bytes in the pipe
  closed,      \* has the producer closed its end?
  outgoing,    \* bytes of the current message the producer has yet to write
  sent,        \* messages a producer has begun to send
  terminated,  \* has the producer begun to send the terminate message?
  token_due,   \* are the tokens of the current message yet to be counted?
  nr_pending,  \* e->nr_pending
  nr_terminate_signals,
  nr_skips,    \* e->nr_skips
  next_tag,    \* e->next_tag: data bytes before the next tag in the pipe
  buf_in,      \* the consumer's buffer
  dest,        \* dest_ptrs[]: bytes of the buffer that have been filled
  ready,       \* edges that pgm_nr_ready_edges has found ready
  token_status,
  to_wait,     \* edges that pgm_wait_for_data still waits for
  cur,         \* the edge that is being read
  nr_terminate_msgs,
  wait_status, \* of the current pgm_recv_data
  got_term,    \* edges whose terminate message has been read
  interrupts,  \* how often select() has failed
  jobs,        \* how often pgm_wait has returned 0
  pc           \* where the consumer is

producerVars == <<closed, outgoing, sent, terminated, token_due>>
tokenVars == <<nr_pending, nr_terminate_signals, ready, token_status>>
edgeVars == <<nr_skips, next_tag, buf_in, dest>>
vars == <<setup, pipe, producerVars, tokenVars, edgeVars, to_wait, cur, nr_terminate_msgs,
          wait_status, got_term, interrupts, jobs, pc>>

nr_in == setup.nr_in
nr_produce == setup.nr_produce
nr_threshold == setup.nr_threshold
nr_consume == setup.nr_consume
Signalled == setup.Signalled
BackEdge == setup.BackEdge
Edge == 1 .. nr_in

NORMAL == 0
TERMINATE == -1
Byte == Nat \cup {NORMAL, TERMINATE}

\* What counts against the capacity: a queue holds messages, each with one tag.
Stored(e) == IF e \in setup.Queue THEN Len(SelectSeq(pipe[e], LAMBDA b : b <= 0))
             ELSE Len(pipe[e])

TypeOK ==
  /\ pipe \in [Edge -> Seq(Byte)] /\ \A e \in Edge : Stored(e) <= setup.Capacity
  /\ closed \in [Edge -> BOOLEAN] /\ terminated \in [Edge -> BOOLEAN]
  /\ outgoing \in [Edge -> Seq(Byte)] /\ sent \in [Edge -> Nat]
  /\ token_due \in [Edge -> BOOLEAN] /\ nr_pending \in [Edge -> 0 .. setup.Word - 1]
  /\ nr_terminate_signals \in Nat /\ ready \subseteq Signalled
  /\ token_status \in {"success", "exhausted"}
  /\ nr_skips \in [Edge -> Nat]
  /\ \A e \in Edge : /\ next_tag[e] \in 0 .. nr_produce[e]
                     /\ buf_in[e] \in [1 .. nr_consume[e] -> Byte]
                     /\ dest[e] \in 0 .. nr_consume[e] - 1
  /\ to_wait \subseteq Edge /\ got_term \subseteq Edge /\ cur \in 1 .. nr_in + 1
  /\ nr_terminate_msgs \in Nat /\ jobs \in Nat /\ interrupts \in 0 .. setup.MaxInterrupts
  /\ wait_status \in {"success", "error"}
  /\ pc \in {"start", "scan", "sleep", "recv", "select", "read", "out", "job", "done"}

Init ==
  /\ setup \in Setups
  /\ pipe = [e \in Edge |-> <<>>] /\ outgoing = [e \in Edge |-> <<>>]
  /\ closed = [e \in Edge |-> FALSE] /\ terminated = [e \in Edge |-> FALSE]
  /\ sent = [e \in Edge |-> 0] /\ token_due = [e \in Edge |-> FALSE]
  /\ nr_pending = [e \in Edge |-> 0] /\ nr_terminate_signals = 0
  /\ ready = {} /\ token_status = "exhausted"
  /\ nr_skips = setup.init_skips /\ next_tag = [e \in Edge |-> 0]
  /\ buf_in = [e \in Edge |-> [k \in 1 .. nr_consume[e] |-> NORMAL]]
  /\ dest = [e \in Edge |-> 0]
  /\ to_wait = {} /\ cur = 1 /\ nr_terminate_msgs = 0
  /\ wait_status = "success" /\ got_term = {}
  /\ interrupts = 0 /\ jobs = 0 /\ pc = "start"
-----------------------------------------------------------------------------
(***************************************************************************)
(* The producers: pgm_send_std_data, then the tokens, and in the end close.*)
(***************************************************************************)

\* The k-th message on edge e.
Message(e, k) ==
  <<NORMAL>> \o [j \in 1 .. nr_produce[e] |-> (k - 1) * nr_produce[e] + j]

Send(e) ==
  /\ outgoing[e] = <<>> /\ ~token_due[e] /\ ~terminated[e]
  /\ \/ /\ sent[e] < setup.Messages[e]
        /\ sent' = [sent EXCEPT ![e] = @ + 1]
        /\ outgoing' = [outgoing EXCEPT ![e] = Message(e, sent[e] + 1)]
        /\ UNCHANGED terminated
     \/ /\ sent[e] = setup.Messages[e]
        /\ terminated' = [terminated EXCEPT ![e] = TRUE]
        /\ outgoing' = [outgoing EXCEPT ![e] = <<TERMINATE>>]
        /\ UNCHANGED sent
  /\ token_due' = [token_due EXCEPT ![e] = e \in Signalled]
  /\ UNCHANGED <<pipe, closed, tokenVars, edgeVars, to_wait, cur, nr_terminate_msgs,
                 wait_status, got_term, jobs, pc>>

\* How much write() or mq_send() takes; nothing means EAGAIN.
Accepted(e) ==
  LET room == setup.Capacity - Stored(e)
      all == Len(outgoing[e])
  IN  IF e \in setup.Queue THEN {all : k \in 1 .. room}
      ELSE {k \in 1 .. all : k <= room /\ (e \in setup.Whole => k = all)}

\* One write of the loop, which is tried again after EAGAIN.
Write(e) ==
  /\ outgoing[e] # <<>>
  /\ \E k \in Accepted(e) :
       /\ pipe' = [pipe EXCEPT ![e] = @ \o SubSeq(outgoing[e], 1, k)]
       /\ outgoing' = [outgoing EXCEPT ![e] = SubSeq(@, k + 1, Len(@))]
  /\ UNCHANGED <<closed, sent, terminated, token_due, tokenVars, edgeVars, to_wait, cur,
                 nr_terminate_msgs, wait_status, got_term, jobs, pc>>

\* pgm_send_tokens, or the signal to terminate, once the data has been written.
SendTokens(e) ==
  /\ token_due[e] /\ outgoing[e] = <<>>
  /\ token_due' = [token_due EXCEPT ![e] = FALSE]
  /\ IF terminated[e]
       THEN nr_terminate_signals' = nr_terminate_signals + 1 /\ UNCHANGED nr_pending
       ELSE /\ nr_pending' = [nr_pending EXCEPT ![e] = (@ + nr_produce[e]) % setup.Word]
            /\ UNCHANGED nr_terminate_signals
  /\ UNCHANGED <<pipe, closed, outgoing, sent, terminated, ready, token_status, edgeVars,
                 to_wait, cur, nr_terminate_msgs, wait_status, got_term, jobs, pc>>

\* The producer releases its node once it has terminated.
Close(e) ==
  /\ terminated[e] /\ outgoing[e] = <<>> /\ ~token_due[e] /\ ~closed[e]
  /\ closed' = [closed EXCEPT ![e] = TRUE]
  /\ UNCHANGED <<pipe, outgoing, sent, terminated, token_due, tokenVars, edgeVars, to_wait, cur,
                 nr_terminate_msgs, wait_status, got_term, jobs, pc>>
-----------------------------------------------------------------------------
(***************************************************************************)
(* pgm_wait_for_tokens                                                     *)
(***************************************************************************)

\* Without signalled edges token_status keeps its first value.
CallWait ==
  /\ pc = "start"
  /\ pc' = IF Signalled = {} THEN "recv" ELSE "scan"
  /\ cur' = 1 /\ ready' = {} /\ token_status' = "exhausted"
  /\ UNCHANGED <<pipe, producerVars, nr_pending, nr_terminate_signals, edgeVars, to_wait,
                 nr_terminate_msgs, wait_status, got_term, jobs>>

IsReady(e) == e \in Signalled /\ (nr_pending[e] >= nr_threshold[e] \/ nr_skips[e] > 0)

\* pgm_nr_ready_edges, without the lock: producers go on between two edges.
ScanEdge ==
  /\ pc = "scan" /\ cur <= nr_in
  /\ ready' = IF IsReady(cur) THEN ready \cup {cur} ELSE ready
  /\ cur' = cur + 1
  /\ UNCHANGED <<pipe, producerVars, nr_pending, nr_terminate_signals, token_status, edgeVars,
                 to_wait, nr_terminate_msgs, wait_status, got_term, jobs, pc>>

\* "signaled to exit, and and we're out of tokens to consume"
Exhausted(found) ==
  /\ found \subseteq BackEdge
  /\ nr_terminate_signals # 0
  /\ nr_terminate_signals = Cardinality(Signalled \ BackEdge)

\* The wait ends when all edges are ready or there will be no more tokens.
EndWait(found) ==
  /\ token_status' = IF found = Signalled THEN "success" ELSE "exhausted"
  /\ pc' = "recv"

\* The signals are read after the edges have been scanned.
QuickPath ==
  /\ pc = "scan" /\ cur > nr_in
  /\ IF ready = Signalled \/ Exhausted(ready)
       THEN EndWait(ready)
       ELSE pc' = "sleep" /\ UNCHANGED token_status
  /\ UNCHANGED <<pipe, producerVars, nr_pending, nr_terminate_signals, ready, edgeVars,
                 to_wait, cur, nr_terminate_msgs, wait_status, got_term, jobs>>

\* The loop under the lock. A producer whose tokens make an edge ready takes the
\* lock before it can signal termination, so this scan is one step.
SlowPath ==
  LET found == {e \in Edge : IsReady(e)}
  IN  /\ pc = "sleep"
      /\ found = Signalled \/ Exhausted(found)
      /\ EndWait(found)
      /\ UNCHANGED <<pipe, producerVars, nr_pending, nr_terminate_signals, ready, edgeVars,
                     to_wait, cur, nr_terminate_msgs, wait_status, got_term, jobs>>
-----------------------------------------------------------------------------
(***************************************************************************)
(* pgm_recv_data: which edges to wait for, and pgm_wait_for_data.          *)
(***************************************************************************)

Skipped == {e \in Edge : nr_skips[e] > 0}

\* The first loop of pgm_recv_data and the mask of edges to wait for.
BeginRecv ==
  /\ pc = "recv"
  /\ dest' = [e \in Edge |-> IF e \in Skipped THEN dest[e] ELSE 0]
  /\ to_wait' = Edge \ (Skipped \cup Signalled)
  /\ pc' = IF Skipped = Edge THEN "out"
           ELSE IF to_wait' = {} THEN "read" ELSE "select"
  /\ cur' = 1 /\ wait_status' = "success"
  /\ UNCHANGED <<pipe, producerVars, tokenVars, nr_skips, next_tag, buf_in,
                 nr_terminate_msgs, got_term, jobs>>

\* A pipe that its producer has closed; a message queue has no end of file.
AtEnd(e) == closed[e] /\ e \notin setup.Queue

\* select() also reports a pipe at its end.
Readable(e) == pipe[e] # <<>> \/ AtEnd(e)

\* Mutant: returns as soon as one edge is ready.
SelectAny ==
  /\ pc = "select"
  /\ \E e \in to_wait : Readable(e)
  /\ to_wait' = {}
  /\ pc' = IF wait_status = "error" THEN "out" ELSE "read"
  /\ cur' = 1
  /\ UNCHANGED <<pipe, producerVars, tokenVars, edgeVars, nr_terminate_msgs, wait_status,
                 got_term, jobs>>

\* One turn of the loop in pgm_wait_for_data. A status of WaitError from an
\* earlier turn is kept, and ends pgm_recv_data when the loop is over.
Select ==
  /\ pc = "select"
  /\ \E e \in to_wait : Readable(e)
  /\ to_wait' = {e \in to_wait : ~Readable(e)}
  /\ pc' = IF to_wait' # {} THEN "select"
           ELSE IF wait_status = "error" THEN "out" ELSE "read"
  /\ cur' = 1
  /\ UNCHANGED <<pipe, producerVars, tokenVars, edgeVars, nr_terminate_msgs, wait_status,
                 got_term, jobs>>

\* select() fails with EINTR; no bit is cleared and the loop goes on.
SelectFails ==
  /\ pc = "select" /\ interrupts < setup.MaxInterrupts
  /\ interrupts' = interrupts + 1
  /\ wait_status' = "error"
  /\ UNCHANGED <<pipe, producerVars, tokenVars, edgeVars, to_wait, cur, nr_terminate_msgs,
                 got_term, jobs, pc>>
-----------------------------------------------------------------------------
(***************************************************************************)
(* pgm_recv_data: the reads of one edge after the other.                   *)
(***************************************************************************)

AtRead == pc = "read" /\ cur <= nr_in /\ cur \notin Skipped

\* What read() takes from the pipe when it is asked for n bytes.
Taken(n) == SubSeq(pipe[cur], 1, Min({n, Len(pipe[cur])}))
Take(n) == pipe' = [pipe EXCEPT ![cur] = SubSeq(@, Len(Taken(n)) + 1, Len(@))]

\* Go on with the next edge.
Advance == cur' = cur + 1

\* Put bytes into the buffer, behind the dest[cur] bytes it holds.
Fill(bytes) ==
  buf_in' = [buf_in EXCEPT ![cur] =
               [k \in 1 .. nr_consume[cur] |->
                  IF k > dest[cur] /\ k <= dest[cur] + Len(bytes)
                    THEN bytes[k - dest[cur]] ELSE @[k]]]

\* dest_ptrs[] moves on only when more has to be read.
Filled(bytes) ==
  IF dest[cur] + Len(bytes) = nr_consume[cur]
    THEN Advance /\ UNCHANGED dest
    ELSE dest' = [dest EXCEPT ![cur] = @ + Len(bytes)] /\ UNCHANGED cur

\* A terminate message ends the reading of this edge.
SeeTerminate ==
  /\ nr_terminate_msgs' = nr_terminate_msgs + 1
  /\ got_term' = got_term \cup {cur}
  /\ Advance

SkipEdge ==
  /\ pc = "read" /\ cur <= nr_in /\ cur \in Skipped
  /\ Advance
  /\ UNCHANGED <<pipe, producerVars, tokenVars, edgeVars, to_wait, nr_terminate_msgs,
                 wait_status, got_term, jobs, pc>>

\* Mutant: the bytes read along with the tag are forgotten.
ReadHeaderForget ==
  /\ AtRead /\ dest[cur] = 0 /\ next_tag[cur] = 0 /\ pipe[cur] # <<>>
  /\ LET n == Min({nr_consume[cur], nr_produce[cur]}) + 1
         data == Tail(Taken(n))
     IN  /\ Take(n)
         /\ next_tag' = [next_tag EXCEPT ![cur] = nr_produce[cur]]
         /\ IF Head(Taken(n)) = TERMINATE
              THEN SeeTerminate /\ UNCHANGED <<buf_in, dest>>
              ELSE Fill(data) /\ Filled(data) /\ UNCHANGED <<nr_terminate_msgs, got_term>>
  /\ UNCHANGED <<producerVars, tokenVars, nr_skips, to_wait, wait_status, jobs, pc>>

\* Nothing has been read and the next byte is a tag: tag and data in one read.
ReadHeader ==
  /\ AtRead /\ dest[cur] = 0 /\ next_tag[cur] = 0 /\ pipe[cur] # <<>>
  /\ LET n == Min({nr_consume[cur], nr_produce[cur]}) + 1
         data == Tail(Taken(n))
     IN  /\ Take(n)
         /\ next_tag' = [next_tag EXCEPT ![cur] = nr_produce[cur] - Len(data)]
         /\ IF Head(Taken(n)) = TERMINATE
              THEN SeeTerminate /\ UNCHANGED <<buf_in, dest>>
              ELSE Fill(data) /\ Filled(data) /\ UNCHANGED <<nr_terminate_msgs, got_term>>
  /\ UNCHANGED <<producerVars, tokenVars, nr_skips, to_wait, wait_status, jobs, pc>>

\* In the middle of a message: read up to the next tag.
ReadMore ==
  /\ AtRead /\ next_tag[cur] # 0 /\ pipe[cur] # <<>>
  /\ LET n == Min({nr_consume[cur] - dest[cur], next_tag[cur]})
     IN  /\ Take(n)
         /\ next_tag' = [next_tag EXCEPT ![cur] = @ - Len(Taken(n))]
         /\ Fill(Taken(n)) /\ Filled(Taken(n))
  /\ UNCHANGED <<producerVars, tokenVars, nr_skips, to_wait, nr_terminate_msgs, wait_status,
                 got_term, jobs, pc>>

\* Some data has been read and the next byte is a tag: read it alone.
ReadTag ==
  /\ AtRead /\ dest[cur] > 0 /\ next_tag[cur] = 0 /\ pipe[cur] # <<>>
  /\ Take(1)
  /\ next_tag' = [next_tag EXCEPT ![cur] = nr_produce[cur]]
  /\ IF Head(pipe[cur]) = TERMINATE
       THEN SeeTerminate
       ELSE UNCHANGED <<cur, nr_terminate_msgs, got_term>>
  /\ UNCHANGED <<producerVars, tokenVars, nr_skips, buf_in, dest, to_wait, wait_status, jobs, pc>>

\* read() would block. The mask is computed with a shift that leaves the edges
\* up to this one, and the reading starts again at the first edge.
WouldBlock ==
  /\ AtRead /\ ~Readable(cur)
  /\ to_wait' = ((1 .. cur) \ (Signalled \cup Skipped)) \cup {cur}
  /\ pc' = "select"
  /\ UNCHANGED <<pipe, producerVars, tokenVars, edgeVars, cur, nr_terminate_msgs,
                 wait_status, got_term, jobs>>

\* read() returns 0 at the end of a closed pipe; the edge is passed over.
EndOfPipe ==
  /\ AtRead /\ pipe[cur] = <<>> /\ AtEnd(cur)
  /\ Advance
  /\ UNCHANGED <<pipe, producerVars, tokenVars, edgeVars, to_wait, nr_terminate_msgs,
                 wait_status, got_term, jobs, pc>>

\* The edges have all been read.
EndRecv ==
  /\ pc = "read" /\ cur > nr_in
  /\ pc' = "out"
  /\ UNCHANGED <<pipe, producerVars, tokenVars, edgeVars, to_wait, cur, nr_terminate_msgs,
                 wait_status, got_term, jobs>>
-----------------------------------------------------------------------------
\* Mutants: one terminate message is enough; the backedges are counted too.
OneTerminates == nr_terminate_msgs # 0
BackedgesCount == nr_terminate_msgs # 0 /\ nr_terminate_msgs = nr_in

\* "signal terminte if everyone has checked in"
EveryoneCheckedIn ==
  nr_terminate_msgs # 0 /\ nr_terminate_msgs = Cardinality(Edge \ BackEdge)

\* pgm_recv_data and pgm_wait return. pgm_wait reports termination if both
\* statuses do; otherwise, also after an error, tokens are consumed. The skips
\* are counted down in any case. After an error the client calls pgm_wait again.
Return ==
  LET terminate == token_status = "exhausted" /\ EveryoneCheckedIn
  IN  /\ pc = "out"
      /\ pc' = IF terminate THEN "done"
               ELSE IF wait_status = "error" /\ ~EveryoneCheckedIn THEN "start" ELSE "job"
      /\ nr_pending' = [e \in Edge |->
                          IF terminate \/ e \notin Signalled \/ nr_skips[e] > 0 THEN nr_pending[e]
                          ELSE (nr_pending[e] - nr_consume[e]) % setup.Word]
      /\ nr_skips' = [e \in Edge |-> IF nr_skips[e] > 0 THEN nr_skips[e] - 1 ELSE 0]
      /\ UNCHANGED <<pipe, producerVars, nr_terminate_signals, ready, token_status, next_tag,
                     buf_in, dest, to_wait, cur, nr_terminate_msgs, wait_status, got_term, jobs>>

\* The client's job and pgm_complete, which sends over the backedges; they have
\* room for what the skips let through.
Complete ==
  /\ pc = "job" /\ jobs < setup.MaxJobs
  /\ jobs' = jobs + 1
  /\ sent' = [e \in Edge |-> IF e \in BackEdge THEN sent[e] + 1 ELSE sent[e]]
  /\ pipe' = [e \in Edge |-> IF e \in BackEdge THEN pipe[e] \o Message(e, sent'[e])
                             ELSE pipe[e]]
  /\ nr_pending' = [e \in Edge |-> IF e \in BackEdge \cap Signalled
                                     THEN (nr_pending[e] + nr_produce[e]) % setup.Word
                                     ELSE nr_pending[e]]
  /\ pc' = "start"
  /\ UNCHANGED <<closed, outgoing, terminated, token_due, nr_terminate_signals, ready,
                 token_status, edgeVars, to_wait, cur, nr_terminate_msgs, wait_status, got_term>>

Producer(e) == Send(e) \/ Write(e) \/ SendTokens(e) \/ Close(e)

Consumer ==
  \/ CallWait \/ ScanEdge \/ QuickPath \/ SlowPath
  \/ BeginRecv \/ Select \/ SkipEdge \/ ReadHeader \/ ReadMore \/ ReadTag
  \/ WouldBlock \/ EndOfPipe \/ EndRecv \/ Return \/ Complete

Run(e) == e \in Edge \ BackEdge /\ Producer(e) /\ UNCHANGED <<setup, interrupts>>

Next ==
  \/ Consumer /\ UNCHANGED <<setup, interrupts>>
  \/ SelectFails /\ UNCHANGED setup
  \/ \E e \in Edge : Run(e)

\* The consumer and the producers keep running.
Fairness ==
  /\ WF_vars(Consumer /\ UNCHANGED <<setup, interrupts>>)
  /\ \A e \in UNION {1 .. s.nr_in : s \in Setups} : WF_vars(Run(e))

Spec == Init /\ [][Next]_vars /\ Fairness
-----------------------------------------------------------------------------
\* next_tag keeps track of where the next tag is in what is still to be read:
\* the consumer never takes a tag for data or data for a tag, however the
\* writes and the reads are cut up.
TagsInStep ==
  \A e \in Edge : LET rest == pipe[e] \o outgoing[e]
                 IN  \A k \in DOMAIN rest :
                       /\ k <= next_tag[e] => rest[k] > 0
                       /\ k = next_tag[e] + 1 => rest[k] <= 0

\* The job that starts when pgm_wait returns 0 finds in the buffer of each edge
\* the next nr_consume bytes of the edge's stream, complete and in order, unless
\* the edge is still skipped or has terminated.
BuffersComplete ==
  pc = "job" =>
    \A e \in Edge \ got_term :
      LET round == jobs + 1 - setup.init_skips[e]
      IN  round > 0 => \A k \in 1 .. nr_consume[e] :
                         buf_in[e][k] = (round - 1) * nr_consume[e] + k

\* pgm_wait reports termination only when all the data that was sent has been
\* consumed, up to a rest that is too short for another job.
NothingLeftBehind ==
  pc = "done" =>
    \A e \in Edge \ BackEdge :
      setup.Messages[e] * nr_produce[e] < (jobs + 1) * nr_consume[e]

\* Once the producers have terminated, pgm_wait of the consumer says so.
ConsumerTerminates == <>(pc = "done")
=============================================================================
