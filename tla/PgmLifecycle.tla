---------------------------- MODULE PgmLifecycle ----------------------------
(***************************************************************************)
(* The life of a graph whose nodes run in a thread each, as the thread     *)
(* functions of src/tools/basictest.cpp, backedgetest.cpp and              *)
(* sockstreamtest.cpp arrange it. The thread claims a node, which opens    *)
(* the ends of the node's edges (__pgm_claim_node), waits at init_barrier, *)
(* fires and terminates unless there were errors, waits at init_barrier    *)
(* again and releases the node; main joins the threads and destroys the    *)
(* graph. A program is its graph, how its threads claim, and the count of  *)
(* its barrier. Edges have rate one; PgmTokens has the rates in full.      *)
(***************************************************************************)
EXTENDS Naturals, Sequences, SequencesExt, FiniteSets

CONSTANTS
  Program,   \* programs a behaviour may run: see IsProgram
  MaxJobs    \* bound: jobs of a source before it terminates

\* in[n] and out[n] list the edges of a node in the order of its arrays.
IsProgram(p) ==
  /\ IsFiniteSet(p.Node)
  /\ \A e \in p.Edge : p.producer[e] \in p.Node /\ p.consumer[e] \in p.Node
  /\ \A n \in p.Node : /\ p.in[n] \in Seq({e \in p.Edge : p.consumer[e] = n})
                       /\ p.out[n] \in Seq({e \in p.Edge : p.producer[e] = n})
  /\ \A e \in p.Edge : /\ e \in ToSet(p.in[p.consumer[e]])
                       /\ e \in ToSet(p.out[p.producer[e]])
  /\ p.kind \in [p.Edge -> {"cv", "fifo", "mq", "sock"}]
  /\ p.Backedge \subseteq p.Edge
  /\ p.nr_skips \in [p.Edge -> Nat]   \* as pgm_init_backedge is given them
  /\ p.count \in Nat \ {0}            \* of init_barrier
  /\ p.claim_any \in BOOLEAN          \* pgm_claim_any_node, or pgm_claim_node?

ASSUME LifecycleAssumption == (\A p \in Program : IsProgram(p)) /\ MaxJobs \in Nat

VARIABLES
  program,    \* one of Program
  at,         \* where the thread of a node is
  todo,       \* ends that are yet to be opened, or edges yet to be sent over
  open,       \* ends of edges that are open, as <<"in", e>> and <<"out", e>>
  listening,  \* sockets on which the producer listens
  failed,     \* nodes for which was_error has been set
  errors,     \* is the program's count of errors above 0?
  waiting,    \* threads that wait at init_barrier
  nr_skips,   \* of an edge
  sent, got,  \* messages or tokens sent over an edge, and consumed
  term,       \* edges over which termination has been sent
  seen,       \* nodes whose scan for tokens or data found all edges ready
  jobs,       \* jobs that a node has completed
  ended       \* how the program has ended

edgeVars == <<nr_skips, sent, got, term>>
vars == <<program, at, todo, open, listening, failed, errors, waiting, edgeVars, seen,
          jobs, ended>>

Node == program.Node
Edge == program.Edge
Of(kind) == {e \in Edge : program.kind[e] = kind}
In(n) == ToSet(program.in[n])
Out(n) == ToSet(program.out[n])
Forward(n) == In(n) \ program.Backedge

\* pgm_get_degree_in ignores backedges.
is_src(n) == Forward(n) = {}

Ends(n) == ({"in"} \X In(n)) \cup ({"out"} \X Out(n))
Loop == {"loop", "wait", "complete", "terminate"}

TypeOK ==
  /\ program \in Program
  /\ at \in [Node -> Loop \cup {"start", "claim", "init", "check", "exit", "release", "done"}]
  /\ open \subseteq {"in", "out"} \X Edge /\ listening \subseteq Edge
  /\ failed \subseteq Node /\ waiting \subseteq Node /\ seen \subseteq Node
  /\ errors \in BOOLEAN /\ term \subseteq Edge
  /\ nr_skips \in [Edge -> Nat] /\ sent \in [Edge -> Nat] /\ got \in [Edge -> Nat]
  /\ jobs \in [Node -> Nat]
  /\ ended \in {"no", "destroyed", "sigpipe", "undefined"}

Init ==
  /\ program \in Program
  /\ at = [n \in Node |-> "start"] /\ todo = [n \in Node |-> <<>>]
  /\ open = {} /\ listening = {} /\ failed = {} /\ errors = FALSE /\ waiting = {}
  /\ nr_skips = program.nr_skips /\ term = {} /\ seen = {}
  /\ sent = [e \in Edge |-> 0] /\ got = [e \in Edge |-> 0]
  /\ jobs = [n \in Node |-> 0] /\ ended = "no"
-----------------------------------------------------------------------------
(***************************************************************************)
(* __pgm_claim_node                                                        *)
(***************************************************************************)

ToOpen(dir, edges) == [k \in DOMAIN edges |-> <<dir, edges[k]>>]

\* Mutant: outbound edges first.
OutboundFirst(n) == ToOpen("out", program.out[n]) \o ToOpen("in", program.in[n])

\* "We open inbound edges first because FIFOs can deadlock otherwise."
ClaimOrder(n) == ToOpen("in", program.in[n]) \o ToOpen("out", program.out[n])

BeginClaim(n) ==
  /\ at[n] = "start"
  /\ at' = [at EXCEPT ![n] = "claim"]
  /\ todo' = [todo EXCEPT ![n] = ClaimOrder(n)]
  /\ UNCHANGED <<open, listening, failed, errors, waiting, edgeVars, seen, jobs, ended>>

\* One end has been opened, or could not be; the others are tried all the same.
Opened(n, ok) ==
  /\ todo' = [todo EXCEPT ![n] = Tail(@)]
  /\ open' = IF ok THEN open \cup {Head(todo[n])} ELSE open
  /\ failed' = IF ok THEN failed ELSE failed \cup {n}
  /\ UNCHANGED <<at, listening, errors, waiting, edgeVars, seen, jobs, ended>>

NextEnd(n, dir, kind) ==
  /\ at[n] = "claim" /\ todo[n] # <<>>
  /\ Head(todo[n])[1] = dir /\ Head(todo[n])[2] \in Of(kind)

\* A condition variable has nothing to open.
OpenCv(n) ==
  /\ \E dir \in {"in", "out"} : NextEnd(n, dir, "cv")
  /\ Opened(n, TRUE)

\* A message queue is created by whoever opens it first.
OpenQueue(n) ==
  /\ \E dir \in {"in", "out"} : NextEnd(n, dir, "mq")
  /\ Opened(n, TRUE)

\* A FIFO opens for reading at once.
OpenFifoConsumer(n) ==
  /\ NextEnd(n, "in", "fifo")
  /\ Opened(n, TRUE)

HasReader(n) == <<"in", Head(todo[n])[2]>> \in open

\* A FIFO opens for writing once it is open for reading; until then open() fails
\* with ENXIO and is tried again.
OpenFifoProducer(n) ==
  /\ NextEnd(n, "out", "fifo") /\ HasReader(n)
  /\ Opened(n, TRUE)

\* A minute has gone by without a reader.
GiveUp(n) ==
  /\ NextEnd(n, "out", "fifo") /\ ~HasReader(n)
  /\ Opened(n, FALSE)

\* connect() is refused unless the producer listens.
OpenSocketConsumer(n) ==
  /\ NextEnd(n, "in", "sock")
  /\ Opened(n, Head(todo[n])[2] \in listening)

Listen(n) ==
  /\ NextEnd(n, "out", "sock")
  /\ Head(todo[n])[2] \notin listening
  /\ listening' = listening \cup {Head(todo[n])[2]}
  /\ UNCHANGED <<at, todo, open, failed, errors, waiting, edgeVars, seen, jobs, ended>>

\* accept() waits for the consumer to connect.
Accept(n) ==
  /\ NextEnd(n, "out", "sock")
  /\ Head(todo[n])[2] \in listening /\ HasReader(n)
  /\ Opened(n, TRUE)

\* CheckError counts an error and the thread goes on. pgm_claim_any_node has not
\* told it its node then: what it does with the handle is undefined.
EndClaim(n) ==
  /\ at[n] = "claim" /\ todo[n] = <<>>
  /\ at' = [at EXCEPT ![n] = "init"]
  /\ errors' = (errors \/ n \in failed)
  /\ ended' = IF program.claim_any /\ n \in failed THEN "undefined" ELSE ended
  /\ UNCHANGED <<todo, open, listening, failed, waiting, edgeVars, seen, jobs>>
-----------------------------------------------------------------------------
\* Mutant: one thread too few is counted.
CountShort == program.count - 1

BarrierCount == program.count

\* pthread_barrier_wait, the first time ("init") or the second ("exit"): the
\* thread that completes the count lets everybody go.
Barrier(n) ==
  LET here == waiting \cup {n}
  IN  /\ at[n] \in {"init", "exit"} /\ n \notin waiting
      /\ IF Cardinality(here) = BarrierCount
           THEN /\ waiting' = {}
                /\ at' = [m \in Node |->
                            IF m \notin here THEN at[m]
                            ELSE IF at[m] = "init" THEN "check" ELSE "release"]
           ELSE waiting' = here /\ UNCHANGED at
      /\ UNCHANGED <<todo, open, listening, failed, errors, edgeVars, seen, jobs, ended>>

\* if(!errors)
Check(n) ==
  /\ at[n] = "check"
  /\ at' = [at EXCEPT ![n] = IF errors THEN "exit" ELSE "loop"]
  /\ UNCHANGED <<todo, open, listening, failed, errors, waiting, edgeVars, seen, jobs, ended>>
-----------------------------------------------------------------------------
(***************************************************************************)
(* The loop. A node without inbound edges does not call pgm_wait, which    *)
(* would return at once.                                                   *)
(***************************************************************************)

Ready(e) == got[e] < sent[e] \/ nr_skips[e] > 0

\* pgm_wait looks at the edges without a lock before it decides.
CallWait(n) ==
  /\ at[n] = "loop"
  /\ at' = [at EXCEPT ![n] = "wait"]
  /\ seen' = IF \A e \in In(n) : Ready(e) THEN seen \cup {n} ELSE seen \ {n}
  /\ UNCHANGED <<todo, open, listening, failed, errors, waiting, edgeVars, jobs, ended>>

\* The edges over which a job, or termination, is sent.
Targets(n, command) ==
  IF command = "complete" THEN program.out[n]
  ELSE SelectSeq(program.out[n], LAMBDA e : e \notin program.Backedge)

\* pgm_produce begins: pgm_complete or pgm_terminate.
Produce(n, command) ==
  /\ at' = [at EXCEPT ![n] = command]
  /\ todo' = [todo EXCEPT ![n] = Targets(n, command)]

\* pgm_wait returns 0, and the skips are counted down. A source that has done its
\* jobs overrides this with PGM_TERMINATE and calls pgm_terminate.
WaitReturns(n) ==
  /\ at[n] = "wait" /\ \A e \in In(n) : Ready(e)
  /\ got' = [e \in Edge |-> IF e \in In(n) /\ nr_skips[e] = 0 THEN got[e] + 1 ELSE got[e]]
  /\ nr_skips' = [e \in Edge |-> IF e \in In(n) /\ nr_skips[e] > 0 THEN nr_skips[e] - 1
                                 ELSE nr_skips[e]]
  /\ Produce(n, IF is_src(n) /\ jobs[n] = MaxJobs THEN "terminate" ELSE "complete")
  /\ UNCHANGED <<open, listening, failed, errors, waiting, sent, term, seen, jobs, ended>>

\* pgm_wait finds that all producers have terminated, terminates the node and
\* returns PGM_TERMINATE. Tokens that came after its look at them are left.
WaitTerminates(n) ==
  /\ at[n] = "wait" /\ ~is_src(n)
  /\ \A e \in Forward(n) : e \in term /\ (got[e] = sent[e] \/ (e \in Of("cv") /\ n \notin seen))
  /\ Produce(n, "terminate")
  /\ UNCHANGED <<open, listening, failed, errors, waiting, edgeVars, seen, jobs, ended>>

\* One turn of the loop in pgm_produce. A FIFO that nobody has open for reading
\* kills the program.
Send(n) ==
  /\ at[n] \in {"complete", "terminate"} /\ todo[n] # <<>>
  /\ todo' = [todo EXCEPT ![n] = Tail(@)]
  /\ LET e == Head(todo[n])
         command == at[n]
     IN  /\ sent' = IF command = "complete" THEN [sent EXCEPT ![e] = @ + 1] ELSE sent
         /\ term' = IF command = "terminate" THEN term \cup {e} ELSE term
         /\ ended' = IF e \in Of("fifo") /\ <<"in", e>> \notin open THEN "sigpipe" ELSE ended
  /\ UNCHANGED <<at, open, listening, failed, errors, waiting, nr_skips, got, seen, jobs>>

EndSend(n) ==
  /\ at[n] \in {"complete", "terminate"} /\ todo[n] = <<>>
  /\ at' = [at EXCEPT ![n] = IF @ = "complete" THEN "loop" ELSE "exit"]
  /\ jobs' = IF at[n] = "complete" THEN [jobs EXCEPT ![n] = @ + 1] ELSE jobs
  /\ UNCHANGED <<todo, open, listening, failed, errors, waiting, edgeVars, seen, ended>>
-----------------------------------------------------------------------------
\* pgm_release_node
Release(n) ==
  /\ at[n] = "release"
  /\ at' = [at EXCEPT ![n] = "done"] /\ open' = open \ Ends(n)
  /\ UNCHANGED <<todo, listening, failed, errors, waiting, edgeVars, seen, jobs, ended>>

\* main joins the threads and calls pgm_destroy_graph.
Destroy ==
  /\ ended = "no" /\ \A n \in Node : at[n] = "done"
  /\ ended' = "destroyed"
  /\ UNCHANGED <<program, at, todo, open, listening, failed, errors, waiting, edgeVars, seen, jobs>>

Claim(n) ==
  \/ BeginClaim(n) \/ OpenCv(n) \/ OpenQueue(n) \/ OpenFifoConsumer(n) \/ OpenFifoProducer(n)
  \/ OpenSocketConsumer(n) \/ Listen(n) \/ Accept(n) \/ EndClaim(n)
Run(n) == CallWait(n) \/ WaitReturns(n) \/ WaitTerminates(n) \/ Send(n) \/ EndSend(n)

Thread(n) ==
  /\ ended = "no" /\ n \in Node
  /\ Claim(n) \/ Barrier(n) \/ Check(n) \/ Run(n) \/ Release(n)
  /\ UNCHANGED program

Timeout(n) == ended = "no" /\ GiveUp(n) /\ UNCHANGED program

Next == Destroy \/ \E n \in Node : Thread(n) \/ Timeout(n)

\* All threads keep running. That an open() gives up is not counted on: no thread
\* may need it to go on.
Spec ==
  /\ Init /\ [][Next]_vars /\ WF_vars(Destroy)
  /\ \A n \in UNION {p.Node : p \in Program} : WF_vars(Thread(n))
-----------------------------------------------------------------------------
CountsAll == program.count = Cardinality(Node)

\* pgm_wait and pgm_produce "assume initialization is done": where init_barrier
\* counts all threads, every edge of the graph is open at both ends as long as
\* any thread is in its loop, although claims may fail, the threads look at
\* errors one after the other, and the same barrier is used twice.
CleanBringUpAndShutdown ==
  CountsAll /\ (\E n \in Node : at[n] \in Loop) => \A m \in Node : Ends(m) \subseteq open

\* Where init_barrier counts all threads, main always gets to destroy the graph:
\* no open of an edge waits for ever, in whatever order the threads claim, nobody
\* is left at the barrier, also when a claim fails, and termination reaches every
\* node. A program whose barrier counts one thread comes to an end as well, but
\* it may be by SIGPIPE, or by using a handle that it was not given.
GraphIsDestroyed == <>(ended = "destroyed" \/ (~CountsAll /\ ended # "no"))
=============================================================================
