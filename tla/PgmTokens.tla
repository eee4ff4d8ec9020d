------------------------------ MODULE PgmTokens ------------------------------
(***************************************************************************)
(* Token passing and signalling of PGM: pgm_wait, pgm_complete and         *)
(* pgm_terminate of src/src/pgm.cpp, run by one thread per node (the       *)
(* node's owner) over a graph whose edges are all signal-driven: condition *)
(* variable edges and ring buffer edges.                                   *)
(*                                                                         *)
(* Every access to memory shared between threads is a step of its own: the *)
(* scan of the inbound edges reads one edge per step, pgm_consume_tokens   *)
(* and pgm_consume_skips update one edge per step, pgm_produce writes the  *)
(* ring and then the token counter of one edge after the other.            *)
(***************************************************************************)
EXTENDS Integers, FiniteSets

CONSTANTS
  Node,          \* the nodes; each is owned by one thread of the same name
  Edge,          \* indices into g->edges; n->in[] and n->out[] are ascending
  producer,      \* e->producer
  consumer,      \* e->consumer
  nr_produce,    \* e->attr.nr_produce
  nr_consume,    \* e->attr.nr_consume
  nr_threshold,  \* e->attr.nr_threshold
  nr_init,       \* e->attr.nr_init, the initial tokens of a CV edge
  BackEdge,      \* the edges with e->is_backedge
  init_skips,    \* the nr_skips given to pgm_init_backedge
  RingEdge,      \* the edges of type pgm_ring_edge; the others are pgm_cv_edge
  nmemb,         \* the number of slots of the ring
  MaxJobs,       \* bound: completed jobs of a source before it terminates
  NoOne          \* the owner of a free lock

\* What pgm_init_node and __pgm_init_edge establish.
ASSUME GraphAssumption ==
  /\ Edge \subseteq Nat
  /\ IsFiniteSet(Edge)
  /\ BackEdge \subseteq Edge /\ RingEdge \subseteq Edge
  /\ producer \in [Edge -> Node] /\ consumer \in [Edge -> Node]
  /\ nr_produce \in [Edge -> Nat \ {0}]
  /\ nr_consume \in [Edge -> Nat \ {0}]
  /\ nr_threshold \in [Edge -> Nat \ {0}]
  /\ \A e \in Edge : nr_threshold[e] >= nr_consume[e]
  /\ nr_init \in [Edge -> Nat] /\ init_skips \in [Edge -> Nat]
  /\ \A e \in Edge \ BackEdge : init_skips[e] = 0
  /\ nmemb \in [Edge -> Nat \ {0}]
  /\ \A e \in RingEdge : nr_produce[e] = nr_consume[e] /\ nr_init[e] = 0
  /\ MaxJobs \in Nat
  /\ NoOne \notin Node

VARIABLES
  nr_pending,            \* tokens of an edge; below 0: the size_t wrapped
  nr_skips,              \* firings for which a backedge is still skipped
  nr_terminate_signals,  \* per node, one for every terminated forward edge
  nr_terminate_msgs,     \* per node, empty rings seen with ring_cmd set
  ring,                  \* number of elements in the edge's ring buffer
  ring_cmd,              \* has the producer set PGM_TERMINATE on the ring?
  lock,                  \* n->lock: the thread that holds it, or NoOne
  woken,                 \* has the thread sleeping on n->wait been signalled?
  pc,                    \* where each thread is
  todo,                  \* edges the current loop has yet to visit
  seen,                  \* edges the current scan has counted as ready
  wake,                  \* to_wake[]: edges whose consumer is to be signalled
  cmd,                   \* what this iteration produces
  tok,                   \* token_status of the current pgm_wait
  jobs                   \* completed jobs of a source (bounded by MaxJobs)

edgeVars == <<nr_pending, nr_skips, ring, ring_cmd>>
nodeVars == <<nr_terminate_signals, nr_terminate_msgs, lock, woken>>
vars == <<edgeVars, nodeVars, pc, todo, seen, wake, cmd, tok, jobs>>

In(n) == {e \in Edge : consumer[e] = n}
Out(n) == {e \in Edge : producer[e] = n}

\* Nodes without forward inbound edges drive the graph: only they decide to
\* terminate (pgmrt: "only allow roots to trigger a graph-wide bailout").
Source == {n \in Node : In(n) \subseteq BackEdge}

\* Loops over n->in[] and n->out[] visit the edges in ascending order.
IsFirst(e, S) == e \in S /\ \A f \in S : e <= f

Labels == {"start", "scan", "lock", "rescan", "blocked", "recv", "consume",
           "skips", "job", "send", "token", "wake", "wakescan", "done"}

TypeOK ==
  /\ nr_pending \in [Edge -> Int]
  /\ nr_skips \in [Edge -> Nat]
  /\ nr_terminate_signals \in [Node -> Nat]
  /\ nr_terminate_msgs \in [Node -> Nat]
  /\ ring \in [Edge -> Nat]
  /\ ring_cmd \in [Edge -> BOOLEAN]
  /\ lock \in [Node -> Node \cup {NoOne}]
  /\ woken \in [Node -> BOOLEAN]
  /\ pc \in [Node -> Labels]
  /\ todo \in [Node -> SUBSET Edge]
  /\ seen \in [Node -> SUBSET Edge]
  /\ wake \in [Node -> SUBSET Edge]
  /\ cmd \in [Node -> {"normal", "terminate"}]
  /\ tok \in [Node -> {"success", "terminate"}]
  /\ jobs \in [Node -> Nat]

Init ==
  /\ nr_pending = nr_init
  /\ nr_skips = init_skips
  /\ nr_terminate_signals = [n \in Node |-> 0]
  /\ nr_terminate_msgs = [n \in Node |-> 0]
  /\ ring = [e \in Edge |-> 0]
  /\ ring_cmd = [e \in Edge |-> FALSE]
  /\ lock = [n \in Node |-> NoOne]
  /\ woken = [n \in Node |-> FALSE]
  /\ pc = [n \in Node |-> "start"]
  /\ todo = [n \in Node |-> {}]
  /\ seen = [n \in Node |-> {}]
  /\ wake = [n \in Node |-> {}]
  /\ cmd = [n \in Node |-> "normal"]
  /\ tok = [n \in Node |-> "success"]
  /\ jobs = [n \in Node |-> 0]
-----------------------------------------------------------------------------
(***************************************************************************)
(* pgm_nr_ready_edges: count the inbound edges a node may consume from.    *)
(***************************************************************************)

\* Mutant: compares with nr_consume instead of nr_threshold.
EnoughToConsume(e) == nr_pending[e] >= nr_consume[e] \/ nr_pending[e] < 0

\* nr_pending is a size_t, so a count that wrapped below 0 compares as huge.
Enough(e) == nr_pending[e] >= nr_threshold[e] \/ nr_pending[e] < 0

Ready(e) == Enough(e) \/ nr_skips[e] > 0

\* One iteration of the loop. nr_ready is Cardinality(seen[n]) and
\* nr_ready_normal is Cardinality(seen[n] \ BackEdge).
ScanEdge(n) ==
  /\ pc[n] \in {"scan", "rescan", "wakescan"}
  /\ \E e \in todo[n] :
       /\ IsFirst(e, todo[n])
       /\ todo' = [todo EXCEPT ![n] = @ \ {e}]
       /\ seen' = [seen EXCEPT ![n] = IF Ready(e) THEN @ \cup {e} ELSE @]
  /\ UNCHANGED <<edgeVars, nodeVars, pc, wake, cmd, tok, jobs>>

-----------------------------------------------------------------------------
(***************************************************************************)
(* pgm_wait_for_tokens.                                                    *)
(***************************************************************************)

\* Mutant: one terminate signal is enough.
AnyTerminate(n) ==
  /\ seen[n] \subseteq BackEdge
  /\ nr_terminate_signals[n] # 0

\* Mutant: remaining tokens are ignored once all producers have terminated.
TerminateUnread(n) ==
  /\ nr_terminate_signals[n] # 0
  /\ nr_terminate_signals[n] = Cardinality(In(n) \ BackEdge)

\* "Have we been signaled to exit, and we're out of tokens to consume?", asked
\* of the edges that the scan just finished has counted as ready.
ExhaustedAndTerminate(n) ==
  /\ seen[n] \subseteq BackEdge
  /\ nr_terminate_signals[n] # 0
  /\ nr_terminate_signals[n] = Cardinality(In(n) \ BackEdge)

\* pgm_wait goes on to pgm_recv_data with this token_status.
TokenStatus(n, status) ==
  /\ tok' = [tok EXCEPT ![n] = status]
  /\ pc' = [pc EXCEPT ![n] = "recv"]
  /\ todo' = [todo EXCEPT ![n] = In(n) \cap RingEdge]
  /\ seen' = [seen EXCEPT ![n] = {}]

\* Start to scan the inbound edges of node c.
BeginScan(n, c, label) ==
  /\ pc' = [pc EXCEPT ![n] = label]
  /\ todo' = [todo EXCEPT ![n] = In(c)]
  /\ seen' = [seen EXCEPT ![n] = {}]

\* The client loop calls pgm_wait, unless the node has nothing to wait for.
CallWait(n) ==
  /\ pc[n] = "start"
  /\ IF In(n) # {}
       THEN BeginScan(n, n, "scan")
       ELSE pc' = [pc EXCEPT ![n] = "job"] /\ UNCHANGED <<todo, seen>>
  /\ UNCHANGED <<edgeVars, nodeVars, wake, cmd, tok, jobs>>

\* Mutant: one ready edge is enough.
QuickPathAny(n) ==
  /\ pc[n] = "scan" /\ todo[n] = {}
  /\ \/ seen[n] # {} /\ TokenStatus(n, "success")
     \/ seen[n] = {} /\ ExhaustedAndTerminate(n) /\ TokenStatus(n, "terminate")
     \/ /\ seen[n] = {} /\ ~ExhaustedAndTerminate(n)
        /\ pc' = [pc EXCEPT ![n] = "lock"]
        /\ UNCHANGED <<todo, seen, tok>>
  /\ UNCHANGED <<edgeVars, nodeVars, wake, cmd, jobs>>

\* Quick path: the scan ran without the lock, nr_terminate_signals is read
\* after it.
QuickPath(n) ==
  /\ pc[n] = "scan" /\ todo[n] = {}
  /\ \/ seen[n] = In(n) /\ TokenStatus(n, "success")
     \/ seen[n] # In(n) /\ ExhaustedAndTerminate(n) /\ TokenStatus(n, "terminate")
     \/ /\ seen[n] # In(n) /\ ~ExhaustedAndTerminate(n)
        /\ pc' = [pc EXCEPT ![n] = "lock"]
        /\ seen' = [seen EXCEPT ![n] = {}]
        /\ UNCHANGED <<todo, tok>>
  /\ UNCHANGED <<edgeVars, nodeVars, wake, cmd, jobs>>

LockNode(n) ==
  /\ pc[n] = "lock" /\ lock[n] = NoOne
  /\ lock' = [lock EXCEPT ![n] = n]
  /\ BeginScan(n, n, "rescan")
  /\ UNCHANGED <<edgeVars, nr_terminate_signals, nr_terminate_msgs, woken,
                 wake, cmd, tok, jobs>>

\* pgm_cv_wait releases the lock and sleeps in one step.
SlowPath(n) ==
  /\ pc[n] = "rescan" /\ todo[n] = {}
  /\ lock' = [lock EXCEPT ![n] = NoOne]
  /\ \/ seen[n] = In(n) /\ TokenStatus(n, "success")
     \/ seen[n] # In(n) /\ ExhaustedAndTerminate(n) /\ TokenStatus(n, "terminate")
     \/ /\ seen[n] # In(n) /\ ~ExhaustedAndTerminate(n)
        /\ pc' = [pc EXCEPT ![n] = "blocked"]
        /\ seen' = [seen EXCEPT ![n] = {}]
        /\ UNCHANGED <<todo, tok>>
  /\ UNCHANGED <<edgeVars, nr_terminate_signals, nr_terminate_msgs, woken, wake,
                 cmd, jobs>>

\* pgm_cv_wait returns with the lock held and the condition is checked again.
WakeUp(n) ==
  /\ pc[n] = "blocked" /\ woken[n] /\ lock[n] = NoOne
  /\ lock' = [lock EXCEPT ![n] = n]
  /\ woken' = [woken EXCEPT ![n] = FALSE]
  /\ BeginScan(n, n, "rescan")
  /\ UNCHANGED <<edgeVars, nr_terminate_signals, nr_terminate_msgs, wake, cmd, tok,
                 jobs>>

\* A condition variable may wake a sleeper that nobody signalled.
SpuriousWakeUp(n) ==
  /\ pc[n] = "blocked" /\ ~woken[n]
  /\ woken' = [woken EXCEPT ![n] = TRUE]
  /\ UNCHANGED <<edgeVars, nr_terminate_signals, nr_terminate_msgs, lock, pc,
                 todo, seen, wake, cmd, tok, jobs>>
-----------------------------------------------------------------------------
(***************************************************************************)
(* The rest of pgm_wait: pgm_recv_data on the ring edges, the return value,*)
(* pgm_consume_tokens and pgm_consume_skips.                               *)
(***************************************************************************)

\* Mutant: trusts the tokens and reads the ring without looking whether it is
\* empty.
RecvUnchecked(n) ==
  /\ pc[n] = "recv"
  /\ \E e \in todo[n] :
       /\ IsFirst(e, todo[n])
       /\ todo' = [todo EXCEPT ![n] = @ \ {e}]
       /\ ring' = IF nr_skips[e] > 0 THEN ring ELSE [ring EXCEPT ![e] = @ - 1]
  /\ UNCHANGED <<nr_pending, nr_skips, ring_cmd, nodeVars, pc, seen, wake, cmd,
                 tok, jobs>>

\* read_ring spins while the ring is empty: the thread is then stuck here.
RecvEdge(n) ==
  /\ pc[n] = "recv"
  /\ \E e \in todo[n] :
       /\ IsFirst(e, todo[n])
       /\ todo' = [todo EXCEPT ![n] = @ \ {e}]
       /\ \/ nr_skips[e] > 0 /\ UNCHANGED <<ring, nr_terminate_msgs>>
          \/ /\ nr_skips[e] = 0 /\ ring_cmd[e] /\ ring[e] = 0
             /\ nr_terminate_msgs' = [nr_terminate_msgs EXCEPT ![n] = @ + 1]
             /\ UNCHANGED ring
          \/ /\ nr_skips[e] = 0 /\ ring[e] > 0
             /\ ring' = [ring EXCEPT ![e] = @ - 1]
             /\ UNCHANGED nr_terminate_msgs
  /\ UNCHANGED <<nr_pending, nr_skips, ring_cmd, nr_terminate_signals, lock,
                 woken, pc, seen, wake, cmd, tok, jobs>>

\* The edges pgm_produce visits: "terminate messages are not sent over
\* backedges".
Targets(n, command) == IF command = "terminate" THEN Out(n) \ BackEdge ELSE Out(n)

\* pgm_produce(node, command) is called.
Produce(n, command) ==
  /\ cmd' = [cmd EXCEPT ![n] = command]
  /\ todo' = [todo EXCEPT ![n] = Targets(n, command)]
  /\ pc' = [pc EXCEPT ![n] = IF Targets(n, command) = {} THEN "wake" ELSE "send"]

\* The backedges pgm_consume_skips decrements.
Skipped(n) == {e \in In(n) : nr_skips[e] > 0}

\* Leave pgm_wait: it calls pgm_terminate before it returns PGM_TERMINATE, and
\* returns 0 to the client's job otherwise.
LeaveWait(n, command) ==
  IF command = "terminate"
    THEN Produce(n, "terminate")
    ELSE /\ cmd' = [cmd EXCEPT ![n] = "normal"]
         /\ todo' = [todo EXCEPT ![n] = {}]
         /\ pc' = [pc EXCEPT ![n] = "job"]

\* Go on with pgm_consume_skips, if there is anything to skip.
BeginSkips(n, command) ==
  IF Skipped(n) = {}
    THEN LeaveWait(n, command)
    ELSE /\ cmd' = [cmd EXCEPT ![n] = command]
         /\ todo' = [todo EXCEPT ![n] = Skipped(n)]
         /\ pc' = [pc EXCEPT ![n] = "skips"]

\* Mutant: pgm_wait returns PGM_TERMINATE on the tokens' word alone.
DataIgnored(n) == n \in Node

\* data_status is WaitExhaustedAndTerminate: the node has no data-passing
\* edges, or a terminate message has been counted for each of them.
DataTerminated(n) ==
  \/ In(n) \cap RingEdge = {}
  \/ /\ nr_terminate_msgs[n] # 0
     /\ nr_terminate_msgs[n] = Cardinality((In(n) \cap RingEdge) \ BackEdge)

\* pgm_wait returns PGM_TERMINATE or 0; cmd records which.
WaitResult(n) ==
  /\ pc[n] = "recv" /\ todo[n] = {}
  /\ \/ /\ tok[n] = "terminate" /\ DataTerminated(n)
        /\ BeginSkips(n, "terminate")
     \/ /\ ~(tok[n] = "terminate" /\ DataTerminated(n))
        /\ cmd' = [cmd EXCEPT ![n] = "normal"]
        /\ todo' = [todo EXCEPT ![n] = In(n)]
        /\ pc' = [pc EXCEPT ![n] = "consume"]
  /\ tok' = [tok EXCEPT ![n] = "success"]
  /\ UNCHANGED <<edgeVars, nodeVars, seen, wake, jobs>>

\* Mutant: takes the tokens of skipped edges too.
ConsumeSkipped(n) ==
  /\ pc[n] = "consume"
  /\ \E e \in todo[n] :
       /\ IsFirst(e, todo[n])
       /\ nr_pending' = [nr_pending EXCEPT ![e] = @ - nr_consume[e]]
       /\ IF todo[n] = {e}
            THEN BeginSkips(n, "normal")
            ELSE todo' = [todo EXCEPT ![n] = @ \ {e}] /\ UNCHANGED <<pc, cmd>>
  /\ UNCHANGED <<nr_skips, ring, ring_cmd, nodeVars, seen, wake, tok, jobs>>

\* One iteration of pgm_consume_tokens.
ConsumeTokens(n) ==
  /\ pc[n] = "consume"
  /\ \E e \in todo[n] :
       /\ IsFirst(e, todo[n])
       /\ nr_pending' = IF nr_skips[e] > 0 THEN nr_pending
                        ELSE [nr_pending EXCEPT ![e] = @ - nr_consume[e]]
       /\ IF todo[n] = {e}
            THEN BeginSkips(n, "normal")
            ELSE todo' = [todo EXCEPT ![n] = @ \ {e}] /\ UNCHANGED <<pc, cmd>>
  /\ UNCHANGED <<nr_skips, ring, ring_cmd, nodeVars, seen, wake, tok, jobs>>

\* Mutant: never counts the skips down.
KeepSkips(n) ==
  /\ pc[n] = "skips"
  /\ LeaveWait(n, cmd[n])
  /\ UNCHANGED <<edgeVars, nodeVars, seen, wake, tok, jobs>>

\* One iteration of pgm_consume_skips.
ConsumeSkips(n) ==
  /\ pc[n] = "skips"
  /\ \E e \in todo[n] :
       /\ IsFirst(e, todo[n])
       /\ nr_skips' = [nr_skips EXCEPT ![e] = IF @ > 0 THEN @ - 1 ELSE @]
       /\ IF todo[n] = {e}
            THEN LeaveWait(n, cmd[n])
            ELSE todo' = [todo EXCEPT ![n] = @ \ {e}] /\ UNCHANGED <<pc, cmd>>
  /\ UNCHANGED <<nr_pending, ring, ring_cmd, nodeVars, seen, wake, tok, jobs>>

-----------------------------------------------------------------------------
(***************************************************************************)
(* The client between pgm_wait and pgm_complete. A source may decide after *)
(* any job that the graph is to terminate; MaxJobs makes it do so.         *)
(***************************************************************************)

CallComplete(n) ==
  /\ pc[n] = "job"
  /\ n \in Source => jobs[n] < MaxJobs
  /\ jobs' = [jobs EXCEPT ![n] = IF n \in Source THEN @ + 1 ELSE @]
  /\ Produce(n, "normal")
  /\ UNCHANGED <<edgeVars, nodeVars, seen, wake, tok>>

CallTerminate(n) ==
  /\ pc[n] = "job" /\ n \in Source
  /\ Produce(n, "terminate")
  /\ UNCHANGED <<edgeVars, nodeVars, seen, wake, tok, jobs>>
-----------------------------------------------------------------------------
(***************************************************************************)
(* pgm_produce, called by pgm_complete and pgm_terminate.                  *)
(***************************************************************************)

\* pgm_send_ring_data. write_ring spins while the ring is full.
SendData(n) ==
  /\ pc[n] = "send"
  /\ \E e \in todo[n] \cap RingEdge :
       /\ IsFirst(e, todo[n])
       /\ IF cmd[n] = "terminate"
            THEN ring_cmd' = [ring_cmd EXCEPT ![e] = TRUE] /\ UNCHANGED ring
            ELSE /\ ring[e] < nmemb[e]
                 /\ ring' = [ring EXCEPT ![e] = @ + 1]
                 /\ UNCHANGED ring_cmd
  /\ pc' = [pc EXCEPT ![n] = "token"]
  /\ UNCHANGED <<nr_pending, nr_skips, nodeVars, todo, seen, wake, cmd, tok, jobs>>

\* Mutant: a threshold that is met exactly does not count.
FulfilsStrictly(e) ==
  /\ ~Enough(e)
  /\ nr_pending[e] + nr_produce[e] > nr_threshold[e]

\* Does adding the tokens of one job take the edge over its threshold?
Fulfils(e) ==
  /\ ~Enough(e)
  /\ nr_pending[e] + nr_produce[e] >= nr_threshold[e]

\* Mutant: counts the tokens of an edge although its data has not been sent.
SendTokensOnly(n) ==
  /\ \E e \in todo[n] :
       /\ IsFirst(e, todo[n])
       /\ pc[n] \in {"token", "send"}
       /\ todo' = [todo EXCEPT ![n] = @ \ {e}]
       /\ IF cmd[n] = "terminate"
            THEN /\ nr_terminate_signals' =
                      [nr_terminate_signals EXCEPT ![consumer[e]] = @ + 1]
                 /\ wake' = [wake EXCEPT ![n] = @ \cup {e}]
                 /\ UNCHANGED nr_pending
            ELSE /\ nr_pending' = [nr_pending EXCEPT ![e] = @ + nr_produce[e]]
                 /\ wake' = [wake EXCEPT ![n] = IF Fulfils(e) THEN @ \cup {e} ELSE @]
                 /\ UNCHANGED nr_terminate_signals
  /\ pc' = [pc EXCEPT ![n] = IF todo'[n] = {} THEN "wake" ELSE "send"]
  /\ UNCHANGED <<nr_skips, ring, ring_cmd, nr_terminate_msgs, lock, woken, seen,
                 cmd, tok, jobs>>

\* pgm_send_tokens, or the count of a terminate signal: one atomic addition.
\* A CV edge passes no data and goes straight here.
SendTokens(n) ==
  /\ \E e \in todo[n] :
       /\ IsFirst(e, todo[n])
       /\ pc[n] = "token" \/ (pc[n] = "send" /\ e \notin RingEdge)
       /\ todo' = [todo EXCEPT ![n] = @ \ {e}]
       /\ IF cmd[n] = "terminate"
            THEN /\ nr_terminate_signals' =
                      [nr_terminate_signals EXCEPT ![consumer[e]] = @ + 1]
                 /\ wake' = [wake EXCEPT ![n] = @ \cup {e}]
                 /\ UNCHANGED nr_pending
            ELSE /\ nr_pending' = [nr_pending EXCEPT ![e] = @ + nr_produce[e]]
                 /\ wake' = [wake EXCEPT ![n] = IF Fulfils(e) THEN @ \cup {e} ELSE @]
                 /\ UNCHANGED nr_terminate_signals
  /\ pc' = [pc EXCEPT ![n] = IF todo'[n] = {} THEN "wake" ELSE "send"]
  /\ UNCHANGED <<nr_skips, ring, ring_cmd, nr_terminate_msgs, lock, woken, seen,
                 cmd, tok, jobs>>

\* Lock the next consumer in to_wake[]. Its edges are only scanned when the
\* command is not PGM_TERMINATE.
LockConsumer(n) ==
  /\ pc[n] = "wake"
  /\ \E e \in wake[n] :
       LET c == consumer[e] IN
       /\ IsFirst(e, wake[n])
       /\ lock[c] = NoOne
       /\ lock' = [lock EXCEPT ![c] = n]
       /\ todo' = [todo EXCEPT ![n] = IF cmd[n] = "terminate" THEN {} ELSE In(c)]
  /\ pc' = [pc EXCEPT ![n] = "wakescan"]
  /\ seen' = [seen EXCEPT ![n] = {}]
  /\ UNCHANGED <<edgeVars, nr_terminate_signals, nr_terminate_msgs, woken, wake,
                 cmd, tok, jobs>>

\* Mutant: a terminate signals only a consumer whose edges are all ready.
SignalOnlyReady(n) ==
  /\ pc[n] = "wakescan" /\ todo[n] = {}
  /\ \E e \in wake[n] :
       LET c == consumer[e] IN
       /\ IsFirst(e, wake[n])
       /\ woken' = [woken EXCEPT ![c] = @ \/ (seen[n] = In(c) /\ pc[c] = "blocked")]
       /\ lock' = [lock EXCEPT ![c] = NoOne]
       /\ wake' = [wake EXCEPT ![n] = @ \ {e}]
  /\ pc' = [pc EXCEPT ![n] = "wake"]
  /\ seen' = [seen EXCEPT ![n] = {}]
  /\ UNCHANGED <<edgeVars, nr_terminate_signals, nr_terminate_msgs, todo, cmd, tok,
                 jobs>>

\* Mutant: does not unlock a consumer that it did not signal.
KeepLock(n) ==
  /\ pc[n] = "wakescan" /\ todo[n] = {}
  /\ \E e \in wake[n] :
       LET c == consumer[e]
           signal == cmd[n] = "terminate" \/ seen[n] = In(c) IN
       /\ IsFirst(e, wake[n])
       /\ woken' = [woken EXCEPT ![c] = @ \/ (signal /\ pc[c] = "blocked")]
       /\ lock' = IF signal THEN [lock EXCEPT ![c] = NoOne] ELSE lock
       /\ wake' = [wake EXCEPT ![n] = @ \ {e}]
  /\ pc' = [pc EXCEPT ![n] = "wake"]
  /\ seen' = [seen EXCEPT ![n] = {}]
  /\ UNCHANGED <<edgeVars, nr_terminate_signals, nr_terminate_msgs, todo, cmd, tok,
                 jobs>>

\* pgm_cv_signal wakes the owner of c if it sleeps, and is lost otherwise.
SignalConsumer(n) ==
  /\ pc[n] = "wakescan" /\ todo[n] = {}
  /\ \E e \in wake[n] :
       LET c == consumer[e] IN
       /\ IsFirst(e, wake[n])
       /\ woken' = [woken EXCEPT ![c] =
                      @ \/ (/\ cmd[n] = "terminate" \/ seen[n] = In(c)
                            /\ pc[c] = "blocked")]
       /\ lock' = [lock EXCEPT ![c] = NoOne]
       /\ wake' = [wake EXCEPT ![n] = @ \ {e}]
  /\ pc' = [pc EXCEPT ![n] = "wake"]
  /\ seen' = [seen EXCEPT ![n] = {}]
  /\ UNCHANGED <<edgeVars, nr_terminate_signals, nr_terminate_msgs, todo, cmd, tok,
                 jobs>>

\* Mutant: the client goes on after a terminate.
ProduceForever(n) ==
  /\ pc[n] = "wake" /\ wake[n] = {}
  /\ pc' = [pc EXCEPT ![n] = "start"]
  /\ UNCHANGED <<edgeVars, nodeVars, todo, seen, wake, cmd, tok, jobs>>

\* pgm_produce returns to the client, which stops after a terminate.
ProduceDone(n) ==
  /\ pc[n] = "wake" /\ wake[n] = {}
  /\ pc' = [pc EXCEPT ![n] = IF cmd[n] = "terminate" THEN "done" ELSE "start"]
  /\ UNCHANGED <<edgeVars, nodeVars, todo, seen, wake, cmd, tok, jobs>>

-----------------------------------------------------------------------------
\* What the thread that owns node n does next.
Step(n) ==
  \/ CallWait(n) \/ ScanEdge(n) \/ QuickPath(n) \/ LockNode(n) \/ SlowPath(n)
  \/ WakeUp(n) \/ RecvEdge(n) \/ WaitResult(n) \/ ConsumeTokens(n)
  \/ ConsumeSkips(n) \/ CallComplete(n) \/ CallTerminate(n) \/ SendData(n)
  \/ SendTokens(n) \/ LockConsumer(n) \/ SignalConsumer(n)
  \/ ProduceDone(n)

Next == \E n \in Node : Step(n) \/ SpuriousWakeUp(n)

\* The threads keep running and node locks do not starve a thread that waits
\* for one; a spurious wake-up need never happen.
Fairness ==
  \A n \in Node :
    /\ WF_vars(Step(n))
    /\ SF_vars(LockNode(n)) /\ SF_vars(WakeUp(n)) /\ SF_vars(LockConsumer(n))

Spec == Init /\ [][Next]_vars /\ Fairness
-----------------------------------------------------------------------------
\* pgm.h, pgm_wait: "Caller will block until all requisite tokens are
\* available." When pgm_wait has returned 0 and pgm_consume_tokens runs, every
\* edge it has yet to take tokens from holds at least its threshold, so no
\* nr_pending is taken below zero, although producers run concurrently and the
\* decision was made on counts read at different times.
FiresOnlyWhenReady ==
  \A n \in Node : pc[n] = "consume" =>
    \A e \in todo[n] : nr_skips[e] = 0 => nr_pending[e] >= nr_threshold[e]

\* Does thread m still have to lock node n and signal it? If it is scanning
\* n's edges already, then it has found all of them ready so far.
WillSignal(m, n) ==
  \E e \in wake[m] :
    /\ consumer[e] = n
    /\ (pc[m] = "wakescan" /\ IsFirst(e, wake[m]) /\ cmd[m] = "normal")
          => In(n) = seen[m] \cup todo[m]

\* pgm_produce signals only when pgm_send_tokens reports that a threshold was
\* crossed, and pgm_wait_for_tokens sleeps after a scan that others overtake.
\* No wake-up is lost: a node that sleeps although all its edges are ready, or
\* although it is exhausted and every producer has terminated, has been
\* signalled or some producer is still bound to signal it.
NoLostWakeup ==
  \A n \in Node :
    (/\ pc[n] = "blocked" /\ ~woken[n]
     /\ \/ \A e \in In(n) : Ready(e)
        \/ /\ nr_terminate_signals[n] = Cardinality(In(n) \ BackEdge)
           /\ nr_terminate_signals[n] # 0
           /\ \A e \in In(n) \ BackEdge : ~Ready(e))
    => \E m \in Node : WillSignal(m, n)

\* A node other than a source passes a termination on only after the producers
\* of all its forward inbound edges did (pgm_wait counts one terminate signal
\* per edge; backedges carry none).
TerminatesAfterProducers ==
  \A n \in Node \ Source : cmd[n] = "terminate" =>
    \A e \in In(n) \ BackEdge : cmd[producer[e]] = "terminate"

\* The comment in pgm_wait_for_tokens: "Have we been signaled to exit, and
\* and we're out of tokens to consume?" holds of the check made under the lock:
\* a node that gives up there has no forward edge it could consume from.
SlowPathIsExhausted ==
  [][\A n \in Node :
       (pc[n] = "rescan" /\ pc'[n] = "recv" /\ tok'[n] = "terminate")
         => \A e \in In(n) \ BackEdge : ~Ready(e)]_vars

\* A thread owns at most one node lock and only while it scans or signals, so
\* threads cannot wait for each other's locks in a circle.
OneLockPerThread ==
  \A m \in Node : \A n1, n2 \in Node :
    lock[n1] = m /\ lock[n2] = m => n1 = n2 /\ pc[m] \in {"rescan", "wakescan"}

\* pgm.h, pgm_terminate: "Termination message is automatically passed on to
\* successor nodes." Every thread leaves its loop once the sources terminate.
EveryNodeTerminates == <>(\A n \in Node : pc[n] = "done")

\* When pgm_wait is granted the tokens of a ring edge the ring holds an
\* element to read, so that read_ring does not spin: pgm_produce writes the ring
\* before it counts the tokens.
TokensImplyData ==
  \A n \in Node : pc[n] = "recv" /\ tok[n] = "success" =>
    \A e \in todo[n] : nr_skips[e] = 0 => ring[e] > 0

\* A node that returns from pgm_wait with PGM_TERMINATE has read every element
\* its producers put into its rings.
RingsDrained ==
  \A n \in Node \ Source : cmd[n] = "terminate" =>
    \A e \in (In(n) \cap RingEdge) \ BackEdge : ring[e] = 0

\* ring_write: "assume always successful". The skips of a backedge bound how far
\* a producer runs ahead of its consumer, so that it never finds the ring full
\* and write_ring does not spin.
RingHasRoom ==
  \A n \in Node : pc[n] = "send" /\ cmd[n] = "normal" =>
    \A e \in todo[n] \cap RingEdge : IsFirst(e, todo[n]) => ring[e] < nmemb[e]

-----------------------------------------------------------------------------
(***************************************************************************)
(* Refinement. A firing takes effect for Dataflow when pgm_wait decides to *)
(* return 0, although the tokens and the skips of the inbound edges are    *)
(* taken off one edge at a time later.                                     *)
(***************************************************************************)

\* Has pgm_wait decided to fire, with the tokens of edge e yet to be taken?
TokensDue(e) ==
  LET n == consumer[e] IN
  /\ nr_skips[e] = 0
  /\ \/ pc[n] = "recv" /\ tok[n] = "success"
     \/ pc[n] = "consume" /\ e \in todo[n]

\* Has pgm_wait decided, with the skip of edge e yet to be taken?
SkipDue(e) ==
  LET n == consumer[e] IN
  /\ nr_skips[e] > 0
  /\ \/ pc[n] = "recv" /\ tok[n] = "success"
     \/ pc[n] = "consume"
     \/ pc[n] = "skips" /\ e \in todo[n]

tokensBar ==
  [e \in Edge |-> nr_pending[e] - (IF TokensDue(e) THEN nr_consume[e] ELSE 0)]

skipsBar == [e \in Edge |-> nr_skips[e] - (IF SkipDue(e) THEN 1 ELSE 0)]

phaseBar ==
  [n \in Node |->
     IF cmd[n] = "terminate" THEN "stopped"
     ELSE IF \/ pc[n] = "recv" /\ tok[n] = "success"
             \/ pc[n] \in {"consume", "skips", "job", "send", "token", "wake",
                           "wakescan"}
       THEN "running"
     ELSE "idle"]

owedBar ==
  [n \in Node |->
     IF cmd[n] = "terminate" THEN {}
     ELSE IF \/ pc[n] = "recv" /\ tok[n] = "success"
             \/ pc[n] \in {"consume", "skips", "job"}
       THEN Out(n)
     ELSE IF pc[n] \in {"send", "token"} THEN todo[n]
     ELSE {}]

Flow == INSTANCE Dataflow
  WITH tokens <- tokensBar, skips <- skipsBar, phase <- phaseBar, owed <- owedBar

\* pgm_wait, pgm_complete and pgm_terminate, run by concurrent threads, give
\* every node the atomic firings of the dataflow graph: each firing takes the
\* tokens of all inbound edges, available at one moment, and produces exactly
\* once on every outbound edge; nothing is produced after termination.
ImplementsDataflow == Flow!Spec
=============================================================================
