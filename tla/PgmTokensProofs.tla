-------------------------- MODULE PgmTokensProofs ---------------------------
(***************************************************************************)
(* What a step of one thread of PgmTokens leaves alone in the others, and  *)
(* that pgm_wait returns 0 only when the node is ready: proved for every   *)
(* graph that satisfies GraphAssumption (without ring edges, where said).  *)
(***************************************************************************)
EXTENDS PgmTokensTypes

-----------------------------------------------------------------------------
(***************************************************************************)
(* Frame facts: what a step of the thread of node m leaves alone.          *)
(***************************************************************************)

\* A thread changes the local variables of no other thread.
LEMMA LocalFrame ==
  ASSUME TypeOK, NEW m \in Node, Step(m) \/ SpuriousWakeUp(m),
         NEW n \in Node, n # m
  PROVE  /\ pc'[n] = pc[n] /\ todo'[n] = todo[n] /\ seen'[n] = seen[n]
         /\ wake'[n] = wake[n] /\ cmd'[n] = cmd[n] /\ tok'[n] = tok[n]
<1> USE DEF TypeOK
<1>1. CASE CallWait(m)
  BY <1>1 DEF CallWait, BeginScan
<1>2. CASE ScanEdge(m)
  BY <1>2 DEF ScanEdge
<1>3. CASE QuickPath(m)
  BY <1>3 DEF QuickPath, TokenStatus
<1>4. CASE LockNode(m)
  BY <1>4 DEF LockNode, BeginScan
<1>5. CASE SlowPath(m)
  BY <1>5 DEF SlowPath, TokenStatus
<1>6. CASE WakeUp(m)
  BY <1>6 DEF WakeUp, BeginScan
<1>7. CASE SpuriousWakeUp(m)
  BY <1>7 DEF SpuriousWakeUp
<1>8. CASE RecvEdge(m)
  BY <1>8 DEF RecvEdge
<1>9. CASE WaitResult(m)
  BY <1>9 DEF WaitResult, BeginSkips, LeaveWait, Produce
<1>10. CASE ConsumeTokens(m)
  BY <1>10 DEF ConsumeTokens, BeginSkips, LeaveWait, Produce
<1>11. CASE ConsumeSkips(m)
  BY <1>11 DEF ConsumeSkips, LeaveWait, Produce
<1>12. CASE CallComplete(m)
  BY <1>12 DEF CallComplete, Produce
<1>13. CASE CallTerminate(m)
  BY <1>13 DEF CallTerminate, Produce
<1>14. CASE SendData(m)
  BY <1>14 DEF SendData
<1>15. CASE SendTokens(m)
  BY <1>15 DEF SendTokens
<1>16. CASE LockConsumer(m)
  BY <1>16 DEF LockConsumer
<1>17. CASE SignalConsumer(m)
  BY <1>17 DEF SignalConsumer
<1>18. CASE ProduceDone(m)
  BY <1>18 DEF ProduceDone
<1> QED
  BY <1>1, <1>2, <1>3, <1>4, <1>5, <1>6, <1>7, <1>8, <1>9, <1>10, <1>11, <1>12,
     <1>13, <1>14, <1>15, <1>16, <1>17, <1>18 DEF Step

\* Tokens are taken only in pgm_consume_tokens, skips only in
\* pgm_consume_skips, and only by the thread of the edge's consumer (the loops
\* run over n->in[]); everybody else can only add tokens.
LEMMA EdgeFrame ==
  ASSUME TypeOK, NEW m \in Node, Step(m) \/ SpuriousWakeUp(m), NEW e \in Edge
  PROVE  /\ (pc[m] # "consume" \/ e \notin todo[m]) => nr_pending'[e] >= nr_pending[e]
         /\ (pc[m] # "skips" \/ e \notin todo[m]) => nr_skips'[e] = nr_skips[e]
<1> USE DEF TypeOK
<1>1. CASE ConsumeTokens(m)
  BY <1>1 DEF ConsumeTokens
<1>2. CASE ConsumeSkips(m)
  BY <1>2 DEF ConsumeSkips
<1>3. CASE SendTokens(m)
  <2>1. UNCHANGED nr_skips
    BY <1>3 DEF SendTokens
  <2>2. PICK f \in todo[m] :
          nr_pending' = nr_pending \/ nr_pending' = [nr_pending EXCEPT ![f] = @ + nr_produce[f]]
    BY <1>3 DEF SendTokens
  <2>3. f \in Edge /\ nr_produce[f] \in Nat
    BY GraphAssumption
  <2> QED
    BY <2>1, <2>2, <2>3
<1>4. CASE UNCHANGED <<nr_pending, nr_skips>>
  BY <1>4
<1>5. CASE Step(m) /\ ~ConsumeTokens(m) /\ ~ConsumeSkips(m) /\ ~SendTokens(m)
  BY <1>4, <1>5, ZenonT(30) DEF Step, CallWait, ScanEdge, QuickPath, LockNode,
     SlowPath, WakeUp, RecvEdge, WaitResult, CallComplete, CallTerminate, SendData,
     LockConsumer, SignalConsumer, ProduceDone, edgeVars
<1> QED
  BY <1>1, <1>2, <1>3, <1>4, <1>5 DEF Step, SpuriousWakeUp, edgeVars

-----------------------------------------------------------------------------
(***************************************************************************)
(* A node fires only when all requisite tokens are available. The          *)
(* inductive invariant says that an edge once found ready stays ready      *)
(* until the consumer itself takes its tokens or its skip: the scan of     *)
(* pgm_nr_ready_edges reads the edges at different times, but what it has  *)
(* counted is still true when pgm_consume_tokens runs.                     *)
(***************************************************************************)
ThreadInv(n) ==
  /\ pc[n] \in {"scan", "rescan", "consume", "skips"} => todo[n] \subseteq In(n)
  /\ pc[n] \in {"scan", "rescan"} =>
       seen[n] \subseteq In(n) /\ \A e \in seen[n] : Ready(e)
  /\ pc[n] = "recv" /\ tok[n] = "success" => \A e \in In(n) : Ready(e)
  /\ pc[n] = "consume" => \A e \in todo[n] : Ready(e)

FireInv ==
  /\ \A e \in Edge : nr_pending[e] >= 0
  /\ \A n \in Node : ThreadInv(n)

\* An edge found ready stays ready until its consumer takes from it.
LEMMA ReadyStable ==
  ASSUME TypeOK, FireInv, NEW m \in Node, Step(m) \/ SpuriousWakeUp(m),
         NEW e \in Edge, Ready(e),
         pc[m] \notin {"consume", "skips"} \/ e \notin todo[m]
  PROVE  Ready(e)'
<1>1. nr_pending[e] \in Int /\ nr_pending'[e] \in Int /\ nr_threshold[e] \in Nat
  <2>1. TypeOK'
    BY TypeStep DEF Next
  <2> QED
    BY <2>1, GraphAssumption DEF TypeOK
<1>2. nr_pending'[e] >= nr_pending[e] /\ nr_skips'[e] = nr_skips[e]
  BY EdgeFrame
<1>3. nr_pending[e] >= 0
  BY DEF FireInv
<1>4. CASE nr_skips[e] > 0
  BY <1>2, <1>4 DEF Ready
<1>5. CASE nr_pending[e] >= nr_threshold[e]
  <2>1. nr_pending'[e] >= nr_threshold[e]
    BY <1>1, <1>2, <1>5
  <2> QED
    BY <2>1 DEF Ready, Enough
<1>6. nr_skips[e] > 0 \/ nr_pending[e] >= nr_threshold[e]
  BY <1>1, <1>3 DEF Ready, Enough
<1> QED
  BY <1>4, <1>5, <1>6

\* A step of one thread keeps what is known about another one.
LEMMA OtherThreadInv ==
  ASSUME TypeOK, FireInv, NEW m \in Node, Step(m) \/ SpuriousWakeUp(m),
         NEW n \in Node, n # m
  PROVE  ThreadInv(n)'
<1>1. /\ pc'[n] = pc[n] /\ todo'[n] = todo[n] /\ seen'[n] = seen[n]
      /\ tok'[n] = tok[n]
  BY LocalFrame
<1>2. ThreadInv(n) /\ ThreadInv(m)
  BY DEF FireInv
<1>3. ASSUME NEW e \in In(n), Ready(e)
      PROVE  Ready(e)'
  <2>1. e \in Edge /\ (pc[m] \in {"consume", "skips"} => e \notin todo[m])
    BY <1>2 DEF ThreadInv, In
  <2> QED
    BY <1>3, <2>1, ReadyStable
<1>4. In(n)' = In(n)
  BY DEF In
<1> QED
  BY <1>1, <1>2, <1>3, <1>4 DEF ThreadInv

\* pgm_consume_skips runs over inbound edges; afterwards the thread neither
\* scans nor consumes.
LEMMA AfterConsume ==
  ASSUME TypeOK, NEW n \in Node, NEW command \in {"normal", "terminate"},
         BeginSkips(n, command) \/ LeaveWait(n, command) \/ Produce(n, command)
  PROVE  /\ pc'[n] \in {"skips", "job", "send", "wake"}
         /\ pc'[n] = "skips" => todo'[n] \subseteq In(n)
BY DEF TypeOK, BeginSkips, LeaveWait, Produce, Skipped

\* A thread keeps what is known about itself, if it has no ring edges to read.
LEMMA OwnThreadInv ==
  ASSUME TypeOK, FireInv, RingEdge = {}, NEW n \in Node,
         Step(n) \/ SpuriousWakeUp(n)
  PROVE  ThreadInv(n)'
<1> USE DEF TypeOK
<1>0. ThreadInv(n) /\ In(n)' = In(n) /\ In(n) \subseteq Edge
  BY DEF FireInv, In
<1>a. ASSUME pc'[n] \notin {"scan", "rescan", "consume", "skips", "recv"}
      PROVE  ThreadInv(n)'
  BY <1>a DEF ThreadInv
<1>b. ASSUME UNCHANGED <<nr_pending, nr_skips>>, NEW e \in Edge
      PROVE  Ready(e)' = Ready(e)
  BY <1>b DEF Ready, Enough
<1>c. ASSUME pc'[n] \in {"scan", "rescan"}, todo'[n] = In(n), seen'[n] = {}
      PROVE  ThreadInv(n)'
  BY <1>c, <1>0 DEF ThreadInv
<1>1. CASE CallWait(n)
  <2>1. CASE In(n) = {}
    BY <1>1, <2>1, <1>a DEF CallWait
  <2>2. CASE In(n) # {}
    BY <1>1, <2>2, <1>c DEF CallWait, BeginScan
  <2> QED
    BY <2>1, <2>2
<1>2. CASE ScanEdge(n)
  <2> PICK e \in todo[n] : /\ todo' = [todo EXCEPT ![n] = @ \ {e}]
                           /\ seen' = [seen EXCEPT ![n] = IF Ready(e) THEN @ \cup {e} ELSE @]
    BY <1>2, Zenon DEF ScanEdge
  <2>1. /\ UNCHANGED <<nr_pending, nr_skips>> /\ pc' = pc
        /\ pc[n] \in {"scan", "rescan", "wakescan"}
    BY <1>2 DEF ScanEdge, edgeVars
  <2>2. todo'[n] \subseteq todo[n]
    OBVIOUS
  <2>3. seen'[n] \subseteq seen[n] \cup {e} /\ (e \in seen'[n] => Ready(e) \/ e \in seen[n])
    OBVIOUS
  <2>4. CASE pc[n] = "wakescan"
    BY <2>1, <2>4, <1>a
  <2>5. CASE pc[n] \in {"scan", "rescan"}
    <3>1. todo[n] \subseteq In(n) /\ seen[n] \subseteq In(n) /\ \A f \in seen[n] : Ready(f)
      BY <2>5, <1>0 DEF ThreadInv
    <3>2. todo'[n] \subseteq In(n) /\ seen'[n] \subseteq In(n) /\ \A f \in seen'[n] : Ready(f)
      BY <3>1, <2>2, <2>3
    <3>3. \A f \in seen'[n] : Ready(f)'
      BY <3>2, <2>1, <1>b, <1>0, SMTT(30)
    <3> QED
      BY <3>2, <3>3, <2>1, <2>5, <1>0 DEF ThreadInv
  <2> QED
    BY <2>1, <2>4, <2>5
<1>d. ASSUME UNCHANGED <<nr_pending, nr_skips>>, NEW status \in {"success", "terminate"},
             TokenStatus(n, status), status = "success" => \A e \in In(n) : Ready(e)
      PROVE  ThreadInv(n)'
  <2>1. pc'[n] = "recv" /\ tok'[n] = status
    BY <1>d DEF TokenStatus
  <2> QED
    BY <1>d, <1>0, <1>b, <2>1 DEF ThreadInv
<1>3. CASE QuickPath(n)
  <2>1. UNCHANGED <<nr_pending, nr_skips>> /\ pc[n] = "scan"
    BY <1>3 DEF QuickPath, edgeVars
  <2>2. \A e \in seen[n] : Ready(e)
    BY <2>1, <1>0 DEF ThreadInv
  <2>3. CASE seen[n] = In(n) /\ TokenStatus(n, "success")
    BY <2>1, <2>2, <2>3, <1>d
  <2>4. CASE TokenStatus(n, "terminate")
    BY <2>1, <2>4, <1>d
  <2>5. CASE pc' = [pc EXCEPT ![n] = "lock"]
    BY <2>5, <1>a
  <2> QED
    BY <1>3, <2>3, <2>4, <2>5 DEF QuickPath
<1>4. CASE LockNode(n)
  BY <1>4, <1>c DEF LockNode, BeginScan
<1>5. CASE SlowPath(n)
  <2>1. UNCHANGED <<nr_pending, nr_skips>> /\ pc[n] = "rescan"
    BY <1>5 DEF SlowPath, edgeVars
  <2>2. \A e \in seen[n] : Ready(e)
    BY <2>1, <1>0 DEF ThreadInv
  <2>3. CASE seen[n] = In(n) /\ TokenStatus(n, "success")
    BY <2>1, <2>2, <2>3, <1>d
  <2>4. CASE TokenStatus(n, "terminate")
    BY <2>1, <2>4, <1>d
  <2>5. CASE pc' = [pc EXCEPT ![n] = "blocked"]
    BY <2>5, <1>a
  <2> QED
    BY <1>5, <2>3, <2>4, <2>5 DEF SlowPath
<1>6. CASE WakeUp(n)
  BY <1>6, <1>c DEF WakeUp, BeginScan
<1>7. CASE SpuriousWakeUp(n)
  BY <1>7, <1>a DEF SpuriousWakeUp
<1>8. CASE RecvEdge(n)
  <2>1. /\ UNCHANGED <<nr_pending, nr_skips, pc, tok>> /\ pc[n] = "recv"
    BY <1>8 DEF RecvEdge
  <2> QED
    BY <2>1, <1>0, <1>b DEF ThreadInv
<1>e. ASSUME NEW command \in {"normal", "terminate"},
             BeginSkips(n, command) \/ LeaveWait(n, command) \/ Produce(n, command)
      PROVE  ThreadInv(n)'
  <2>1. /\ pc'[n] \in {"skips", "job", "send", "wake"}
        /\ pc'[n] = "skips" => todo'[n] \subseteq In(n)
    BY <1>e, AfterConsume
  <2> QED
    BY <2>1, <1>0, SMTT(30) DEF ThreadInv
<1>9. CASE WaitResult(n)
  <2>1. UNCHANGED <<nr_pending, nr_skips>> /\ pc[n] = "recv"
    BY <1>9 DEF WaitResult, edgeVars
  <2>2. DataTerminated(n)
    BY DEF DataTerminated
  <2>3. CASE BeginSkips(n, "terminate")
    BY <2>3, <1>e
  <2>4. CASE /\ tok[n] # "terminate"
             /\ todo' = [todo EXCEPT ![n] = In(n)]
             /\ pc' = [pc EXCEPT ![n] = "consume"]
    <3>1. \A e \in In(n) : Ready(e)
      BY <2>1, <2>4, <1>0 DEF ThreadInv
    <3>2. \A e \in In(n) : Ready(e)'
      BY <3>1, <2>1, <1>b, <1>0
    <3> QED
      BY <3>2, <2>4, <1>0 DEF ThreadInv
  <2> QED
    BY <1>9, <2>2, <2>3, <2>4 DEF WaitResult
<1>10. CASE ConsumeTokens(n)
  <2> PICK e \in todo[n] :
        /\ nr_pending' = IF nr_skips[e] > 0 THEN nr_pending
                         ELSE [nr_pending EXCEPT ![e] = @ - nr_consume[e]]
        /\ \/ BeginSkips(n, "normal")
           \/ todo' = [todo EXCEPT ![n] = @ \ {e}] /\ UNCHANGED <<pc, cmd>>
    BY <1>10, Zenon DEF ConsumeTokens
  <2>1. nr_skips' = nr_skips /\ pc[n] = "consume"
    BY <1>10 DEF ConsumeTokens
  <2>2. CASE BeginSkips(n, "normal")
    BY <2>2, <1>e, SMTT(30)
  <2>3. CASE todo' = [todo EXCEPT ![n] = @ \ {e}] /\ UNCHANGED <<pc, cmd>>
    <3>1. todo[n] \subseteq In(n) /\ \A f \in todo[n] : Ready(f)
      BY <2>1, <1>0 DEF ThreadInv
    <3>2. todo'[n] = todo[n] \ {e} /\ pc'[n] = "consume"
      BY <2>1, <2>3
    <3>3. \A f \in todo'[n] : nr_pending'[f] = nr_pending[f]
      BY <3>2
    <3>4. \A f \in todo'[n] : Ready(f)'
      BY <3>1, <3>2, <3>3, <2>1 DEF Ready, Enough
    <3> QED
      BY <3>1, <3>2, <3>4, <1>0 DEF ThreadInv
  <2> QED
    BY <2>2, <2>3
<1>11. CASE ConsumeSkips(n)
  <2>1. CASE LeaveWait(n, cmd[n])
    BY <2>1, <1>e, SMTT(30)
  <2>2. CASE UNCHANGED pc /\ \E e \in todo[n] : todo' = [todo EXCEPT ![n] = @ \ {e}]
    <3>1. pc'[n] = "skips" /\ todo'[n] \subseteq todo[n] /\ pc[n] = "skips"
      BY <1>11, <2>2 DEF ConsumeSkips
    <3> QED
      BY <3>1, <1>0 DEF ThreadInv
  <2> QED
    BY <1>11, <2>1, <2>2 DEF ConsumeSkips
<1>12. CASE CallComplete(n) \/ CallTerminate(n)
  BY <1>12, <1>e DEF CallComplete, CallTerminate
<1>14. CASE SendData(n)
  BY <1>14, <1>a, SMTT(30) DEF SendData
<1>15. CASE SendTokens(n)
  BY <1>15, <1>a DEF SendTokens
<1>16. CASE LockConsumer(n)
  BY <1>16, <1>a, SMTT(30) DEF LockConsumer
<1>17. CASE SignalConsumer(n)
  BY <1>17, <1>a DEF SignalConsumer
<1>18. CASE ProduceDone(n)
  BY <1>18, <1>a DEF ProduceDone
<1> QED
  BY <1>1, <1>2, <1>3, <1>4, <1>5, <1>6, <1>7, <1>8, <1>9, <1>10, <1>11, <1>12,
     <1>14, <1>15, <1>16, <1>17, <1>18 DEF Step

\* Taking no more than the threshold from a counter that has reached it.
LEMMA TakeBelowThreshold ==
  ASSUME NEW pending \in Int, NEW threshold \in Nat, NEW consume \in Nat,
         threshold >= consume, pending >= 0,
         pending >= threshold \/ pending < 0
  PROVE  pending - consume >= 0
OBVIOUS

\* pgm_consume_tokens takes no counter below zero.
LEMMA PendingStaysNatural ==
  ASSUME TypeOK, FireInv, NEW m \in Node, Step(m) \/ SpuriousWakeUp(m),
         NEW e \in Edge
  PROVE  nr_pending'[e] >= 0
<1>1. nr_pending[e] \in Int /\ nr_pending'[e] \in Int /\ nr_pending[e] >= 0
  <2>1. TypeOK'
    BY TypeStep, SMTT(30) DEF Next
  <2> QED
    BY <2>1 DEF TypeOK, FireInv
<1>2. CASE pc[m] # "consume" \/ e \notin todo[m]
  BY <1>1, <1>2, EdgeFrame
<1>3. CASE pc[m] = "consume" /\ e \in todo[m]
  <2>1. Ready(e)
    BY <1>3 DEF FireInv, ThreadInv
  <2>2. nr_consume[e] \in Nat /\ nr_threshold[e] \in Nat /\ nr_threshold[e] >= nr_consume[e]
    BY GraphAssumption
  <2>3. ConsumeTokens(m)
    BY <1>3, ZenonT(30) DEF Step, SpuriousWakeUp, CallWait, ScanEdge, QuickPath, LockNode,
         SlowPath, WakeUp, RecvEdge, WaitResult, ConsumeSkips, CallComplete,
         CallTerminate, SendData, SendTokens, LockConsumer, SignalConsumer,
         ProduceDone
  <2>4. PICK f \in todo[m] :
          nr_pending' = IF nr_skips[f] > 0 THEN nr_pending
                        ELSE [nr_pending EXCEPT ![f] = @ - nr_consume[f]]
    BY <2>3, ZenonT(30) DEF ConsumeTokens
  <2>5. CASE f # e \/ nr_skips[f] > 0
    BY <1>1, <2>4, <2>5, SMTT(30) DEF TypeOK
  <2>6. CASE f = e /\ ~(nr_skips[f] > 0)
    <3>1. nr_pending'[e] = nr_pending[e] - nr_consume[e]
      BY <2>4, <2>6 DEF TypeOK
    <3>2. nr_pending[e] >= nr_threshold[e] \/ nr_pending[e] < 0
      BY <2>1, <2>6 DEF Ready, Enough
    <3>3. nr_pending[e] - nr_consume[e] >= 0
      BY <1>1, <2>2, <3>2, TakeBelowThreshold
    <3> QED
      BY <3>1, <3>3
  <2> QED
    BY <2>5, <2>6
<1> QED
  BY <1>2, <1>3

\* Every step of every thread preserves the invariant.
LEMMA FireInvStep ==
  ASSUME TypeOK, FireInv, RingEdge = {}, [Next]_vars
  PROVE  FireInv'
<1>1. ASSUME NEW m \in Node, Step(m) \/ SpuriousWakeUp(m)
      PROVE  FireInv'
  <2>1. \A e \in Edge : nr_pending'[e] >= 0
    BY <1>1, PendingStaysNatural
  <2>2. ASSUME NEW n \in Node
        PROVE  ThreadInv(n)'
    BY <1>1, OwnThreadInv, OtherThreadInv, SMTT(30)
  <2> QED
    BY <2>1, <2>2 DEF FireInv
<1>2. CASE UNCHANGED vars
  BY <1>2 DEF vars, edgeVars, nodeVars, FireInv, ThreadInv, Ready, Enough, In
<1> QED
  BY <1>1, <1>2 DEF Next

\* In a graph of condition variable edges the counters of tokens never go below
\* zero, and every thread is right about the edges it has found ready.
LEMMA FireInvariance ==
  ASSUME RingEdge = {}
  PROVE  Spec => []FireInv
<1>1. TypeOK /\ Init => FireInv
  <2> SUFFICES ASSUME TypeOK, Init PROVE FireInv
    OBVIOUS
  <2>1. \A e \in Edge : nr_pending[e] >= 0
    BY GraphAssumption DEF Init
  <2>2. \A n \in Node : ThreadInv(n)
    BY DEF Init, ThreadInv
  <2> QED
    BY <2>1, <2>2 DEF FireInv
<1>2. TypeOK /\ FireInv /\ [Next]_vars => FireInv'
  BY FireInvStep
<1> QED
  BY <1>1, <1>2, TypeCorrect, PTL DEF Spec

\* In a graph of condition variable edges pgm_wait returns 0, and
\* pgm_consume_tokens runs, only when every inbound edge holds its threshold or
\* is being skipped, for any graph, any rates and any number of threads. Ring
\* edges are excluded: with a ring among its edges pgm_wait may return 0
\* although token_status is WaitExhaustedAndTerminate.
THEOREM FiresWhenReady ==
  ASSUME RingEdge = {}
  PROVE  Spec => []FiresOnlyWhenReady
<1>1. TypeOK /\ FireInv => FiresOnlyWhenReady
  <2> SUFFICES ASSUME TypeOK, FireInv, NEW n \in Node, pc[n] = "consume",
                      NEW e \in todo[n], nr_skips[e] = 0
               PROVE  nr_pending[e] >= nr_threshold[e]
    BY DEF FiresOnlyWhenReady
  <2>1. e \in Edge /\ Ready(e) /\ nr_pending[e] >= 0 /\ nr_pending[e] \in Int
    BY DEF TypeOK, FireInv, ThreadInv
  <2> QED
    BY <2>1 DEF Ready, Enough
<1> QED
  BY <1>1, TypeCorrect, FireInvariance, PTL
=============================================================================
