------------------------ MODULE PgmTokensTermination ------------------------
(***************************************************************************)
(* That pgm_terminate is passed on only after it has arrived from every    *)
(* producer, proved for every graph that satisfies GraphAssumption, ring   *)
(* edges and backedges included.                                           *)
(*                                                                         *)
(* nr_terminate_signals is only a number; the invariant says what it counts: *)
(* the forward inbound edges over which pgm_produce has already sent the   *)
(* terminate command. When the number is that of all forward edges, each   *)
(* producer has sent it.                                                   *)
(***************************************************************************)
EXTENDS PgmTokensWakeups, PgmTokensSignals, FiniteSetTheorems

TermInv ==
  \A n \in Node :
    /\ Passing(n)
    /\ nr_terminate_signals[n] = Cardinality(SentTo(n))
    /\ tok[n] = "terminate" => SentTo(n) = Forward(n)
    /\ cmd[n] = "terminate" /\ n \notin Source => SentTo(n) = Forward(n)

\* The sets that are counted are finite.
LEMMA ForwardFinite ==
  ASSUME NEW n \in Node
  PROVE  /\ IsFiniteSet(Forward(n))
         /\ \A S \in SUBSET Forward(n) :
              IsFiniteSet(S) /\ (Cardinality(S) = Cardinality(Forward(n)) => S = Forward(n))
<1>1. IsFiniteSet(Edge) /\ Forward(n) \subseteq Edge
  BY GraphAssumption DEF Forward, In
<1>2. IsFiniteSet(Forward(n))
  BY <1>1, FS_Subset
<1> QED
  BY <1>2, FS_Subset

\* The signals of a node count the edges over which termination has been sent.
LEMMA SignalsCount ==
  ASSUME TypeOK, TermInv, NEW m \in Node, Step(m) \/ SpuriousWakeUp(m), NEW n \in Node
  PROVE  /\ nr_terminate_signals'[n] = Cardinality(SentTo(n)')
         /\ SentTo(n) \subseteq SentTo(n)'
<1>1. Passing(m) /\ nr_terminate_signals[n] = Cardinality(SentTo(n))
  BY DEF TermInv
<1>2. Forward(n)' = Forward(n) /\ Forward(n) \subseteq Edge \ BackEdge
  BY DEF Forward, In
<1>3. CASE ~(SendTokens(m) /\ cmd[m] = "terminate")
  <2>1. /\ nr_terminate_signals' = nr_terminate_signals
        /\ \A e \in Edge \ BackEdge : Sent(e)' <=> Sent(e)
    BY <1>1, <1>3, SentFrame
  <2>2. SentTo(n)' = SentTo(n)
    BY <1>2, <2>1 DEF SentTo
  <2> QED
    BY <1>1, <2>1, <2>2
<1>4. CASE SendTokens(m) /\ cmd[m] = "terminate"
  <2>1. PICK e \in Edge \ BackEdge :
          /\ ~Sent(e) /\ Sent(e)'
          /\ \A f \in (Edge \ BackEdge) \ {e} : Sent(f)' <=> Sent(f)
          /\ nr_terminate_signals' = [nr_terminate_signals EXCEPT ![consumer[e]] = @ + 1]
    BY <1>1, <1>4, SentStep
  <2>2. CASE consumer[e] = n
    <3>1. e \in Forward(n)
      BY <2>2 DEF Forward, In
    <3>2. SentTo(n)' = SentTo(n) \cup {e} /\ e \notin SentTo(n)
      BY <1>2, <2>1, <3>1 DEF SentTo
    <3>3. IsFiniteSet(SentTo(n))
      BY ForwardFinite DEF SentTo
    <3>4. Cardinality(SentTo(n) \cup {e}) = Cardinality(SentTo(n)) + 1
      BY <3>2, <3>3, FS_AddElement
    <3>5. nr_terminate_signals'[n] = nr_terminate_signals[n] + 1
      BY <2>1, <2>2 DEF TypeOK
    <3> QED
      BY <1>1, <3>2, <3>4, <3>5
  <2>3. CASE consumer[e] # n
    <3>1. e \notin Forward(n)
      BY <2>3 DEF Forward, In
    <3>2. SentTo(n)' = SentTo(n)
      BY <1>2, <2>1, <3>1 DEF SentTo
    <3>3. nr_terminate_signals'[n] = nr_terminate_signals[n]
      BY <2>1, <2>3, SMTT(30) DEF TypeOK
    <3> QED
      BY <1>1, <3>2, <3>3
  <2> QED
    BY <2>2, <2>3
<1> QED
  BY <1>3, <1>4

\* Every step of a thread keeps the account of terminations.
LEMMA TermInvStep ==
  ASSUME TypeOK, TermInv, [Next]_vars
  PROVE  TermInv'
<1>1. ASSUME NEW m \in Node, Step(m) \/ SpuriousWakeUp(m), NEW n \in Node
      PROVE  /\ Passing(n)'
             /\ nr_terminate_signals'[n] = Cardinality(SentTo(n)')
             /\ tok'[n] = "terminate" => SentTo(n)' = Forward(n)'
             /\ cmd'[n] = "terminate" /\ n \notin Source => SentTo(n)' = Forward(n)'
  <2>1. /\ Passing(n) /\ nr_terminate_signals[n] = Cardinality(SentTo(n))
        /\ tok[n] = "terminate" => SentTo(n) = Forward(n)
        /\ cmd[n] = "terminate" /\ n \notin Source => SentTo(n) = Forward(n)
    BY DEF TermInv
  <2>2. /\ nr_terminate_signals'[n] = Cardinality(SentTo(n)')
        /\ SentTo(n) \subseteq SentTo(n)'
    BY <1>1, SignalsCount
  <2>3. Forward(n)' = Forward(n) /\ SentTo(n)' \subseteq Forward(n)
    BY DEF Forward, In, SentTo
  <2>4. nr_terminate_signals[n] = Cardinality(Forward(n)) => SentTo(n) = Forward(n)
    BY <2>1, ForwardFinite DEF SentTo
  <2>5. /\ Passing(n)'
        /\ cmd'[n] = "terminate" =>
             cmd[n] = "terminate" \/ tok[n] = "terminate" \/ n \in Source
        /\ tok'[n] = "terminate" =>
             tok[n] = "terminate" \/ nr_terminate_signals[n] = Cardinality(Forward(n))
    <3>1. CASE n = m
      BY <1>1, <2>1, <3>1, OwnTermination
    <3>2. CASE n # m
      <4>1. /\ pc'[n] = pc[n] /\ todo'[n] = todo[n]
            /\ cmd'[n] = cmd[n] /\ tok'[n] = tok[n]
        BY <1>1, <3>2, LocalFrame, SMTT(30)
      <4> QED
        BY <2>1, <4>1 DEF Passing, Out
    <3> QED
      BY <3>1, <3>2
  <2> QED
    BY <2>1, <2>2, <2>3, <2>4, <2>5, Zenon
<1>2. CASE UNCHANGED vars
  BY <1>2, SMTT(30) DEF vars, edgeVars, nodeVars, TermInv, Passing, SentTo, Forward,
     Sent, In, Out, Source
<1>3. Source' = Source
  BY DEF Source, In
<1> QED
  BY <1>1, <1>2, <1>3, SMTT(30) DEF Next, TermInv

\* So the account is right in every reachable state.
LEMMA TermInvariance == Spec => []TermInv
<1>1. Init => TermInv
  <2> SUFFICES ASSUME Init, NEW n \in Node
               PROVE  /\ Passing(n)
                      /\ nr_terminate_signals[n] = Cardinality(SentTo(n))
                      /\ tok[n] # "terminate" /\ cmd[n] # "terminate"
    BY DEF TermInv
  <2>1. SentTo(n) = {}
    BY GraphAssumption, Zenon DEF Init, SentTo, Forward, In, Sent
  <2>2. Cardinality(SentTo(n)) = 0
    BY <2>1, FS_EmptySet
  <2> QED
    BY <2>2 DEF Init, Passing
<1> QED
  BY <1>1, TermInvStep, TypeCorrect, PTL DEF Spec

\* pgm_wait returns PGM_TERMINATE, and passes it on, only after the producers of
\* all forward inbound edges have begun to terminate: in every graph, over any
\* edges, although pgm_wait_for_tokens only compares a number that the producers
\* increment without a lock.
THEOREM TerminationFollowsProducers == Spec => []TerminatesAfterProducers
<1>1. TermInv => TerminatesAfterProducers
  <2> SUFFICES ASSUME TermInv, NEW n \in Node \ Source, cmd[n] = "terminate",
                      NEW e \in Forward(n)
               PROVE  cmd[producer[e]] = "terminate"
    BY DEF TerminatesAfterProducers, Forward
  <2>1. SentTo(n) = Forward(n)
    BY DEF TermInv
  <2> QED
    BY <2>1 DEF SentTo, Sent
<1> QED
  BY <1>1, TermInvariance, PTL

-----------------------------------------------------------------------------
(***************************************************************************)
(* The check for exhaustion of pgm_wait_for_tokens is right when it is made *)
(* under the lock. Without the lock it is not: see run triangle_hang.      *)
(***************************************************************************)

\* All terminations have been counted only if every producer of a forward edge
\* is in the call of pgm_produce that terminates it.
LEMMA AllTerminating ==
  ASSUME TermInv, NEW n \in Node, ExhaustedAndTerminate(n), NEW e \in In(n) \ BackEdge
  PROVE  cmd[producer[e]] = "terminate"
<1>1. Cardinality(SentTo(n)) = Cardinality(Forward(n))
  BY DEF TermInv, ExhaustedAndTerminate, Forward
<1>2. SentTo(n) = Forward(n)
  BY <1>1, ForwardFinite DEF SentTo
<1> QED
  BY <1>2 DEF SentTo, Forward, Sent

\* From the locked recheck to pgm_recv_data with a status of termination there is
\* one way.
LEMMA GivesUp ==
  ASSUME TypeOK, NEW m \in Node, Step(m) \/ SpuriousWakeUp(m), NEW n \in Node,
         pc[n] = "rescan", pc'[n] = "recv", tok'[n] = "terminate"
  PROVE  todo[n] = {} /\ ExhaustedAndTerminate(n)
<1>1. n = m
  BY LocalFrame
<1>2. SlowPath(n)
  BY <1>1, ZenonT(30) DEF Step, SpuriousWakeUp, CallWait, ScanEdge, QuickPath,
     LockNode, WakeUp, RecvEdge, WaitResult, ConsumeTokens, ConsumeSkips,
     CallComplete, CallTerminate, SendData, SendTokens, LockConsumer, SignalConsumer,
     ProduceDone
<1> QED
  BY <1>2 DEF SlowPath, TokenStatus, TypeOK

\* A node that gives up in the locked recheck of pgm_wait_for_tokens has no tokens
\* left to consume, in any graph of condition variable edges, although producers
\* send tokens and terminations while it scans: an edge that it passed over and
\* that has become ready since is in to_wake[] of a producer that has not begun to
\* terminate, so that the terminations are not complete.
THEOREM GivesUpOnlyExhausted ==
  ASSUME RingEdge = {}
  PROVE  Spec => SlowPathIsExhausted
<1>1. ASSUME TypeOK, WakeInv, TermInv, [Next]_vars
      PROVE  [\A n \in Node :
                (pc[n] = "rescan" /\ pc'[n] = "recv" /\ tok'[n] = "terminate")
                  => \A e \in In(n) \ BackEdge : ~Ready(e)]_vars
  <2> SUFFICES ASSUME NEW m \in Node, Step(m) \/ SpuriousWakeUp(m), NEW n \in Node,
                      pc[n] = "rescan", pc'[n] = "recv", tok'[n] = "terminate",
                      NEW e \in In(n) \ BackEdge, Ready(e)
               PROVE  FALSE
    BY <1>1 DEF Next
  <2>1. todo[n] = {} /\ ExhaustedAndTerminate(n)
    BY <1>1, GivesUp
  <2>2. e \notin seen[n]
    BY <2>1 DEF ExhaustedAndTerminate
  <2>3. Crossed(e)
    BY <1>1, <2>1, <2>2 DEF WakeInv, RescanInv
  <2>4. cmd[producer[e]] = "terminate"
    BY <1>1, <2>1, AllTerminating
  <2> QED
    BY <2>3, <2>4 DEF Crossed
<1> QED
  BY <1>1, TypeCorrect, WakeInvariance, TermInvariance, PTL DEF Spec, SlowPathIsExhausted
=============================================================================
