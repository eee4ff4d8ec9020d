-------------------------- MODULE PgmTokensWakeups --------------------------
(***************************************************************************)
(* That no wake-up is lost in PgmTokens, proved for every graph of         *)
(* condition variable edges that satisfies GraphAssumption.                *)
(*                                                                         *)
(* The argument: pgm_send_tokens puts an edge into to_wake[] whenever its  *)
(* tokens cross the threshold, and only a thread that holds the lock of    *)
(* the consumer takes it out again. So an edge that the consumer found     *)
(* wanting under its lock, and that has tokens now, is in to_wake[] of its *)
(* producer for as long as the consumer holds the lock; and of the         *)
(* producers that make the edges of a sleeping node ready, the last one    *)
(* still has to look, and will find all of them ready.                     *)
(***************************************************************************)
EXTENDS PgmTokensWaking

\* The producer of e has sent tokens that crossed the threshold, in a call of
\* pgm_produce that has not yet locked the consumer for it, or not let go of it.
Crossed(e) == e \in wake[producer[e]] /\ cmd[producer[e]] = "normal"

\* While n scans under its lock: an edge passed over as not ready that has become
\* ready is still in to_wake[] of its producer.
RescanInv(n) ==
  pc[n] = "rescan" =>
    \A e \in In(n) \ (seen[n] \cup todo[n]) : Ready(e) => Crossed(e)

\* Have all producers of n signalled their termination, with no tokens left?
Exhausted(n) ==
  /\ nr_terminate_signals[n] # 0
  /\ nr_terminate_signals[n] = Cardinality(In(n) \ BackEdge)
  /\ \A e \in In(n) \ BackEdge : ~Ready(e)

\* While n sleeps: somebody is bound to signal it if it could go on.
SleepInv(n) ==
  pc[n] = "blocked" /\ ~woken[n] =>
    /\ (\A e \in In(n) : Ready(e)) => \E m \in Node : WillSignal(m, n)
    /\ Exhausted(n) => \E m \in Node : WillTerminate(m, n)

WakeInv == \A n \in Node : WakeLocal(n) /\ RescanInv(n) /\ SleepInv(n)
-----------------------------------------------------------------------------
\* Only the thread that holds the lock of the consumer takes an edge out of
\* to_wake[]; the owner of a node holds its lock while it scans again.
LEMMA CrossedStays ==
  ASSUME TypeOK, LockInv, WakeInv, NEW m \in Node, Step(m) \/ SpuriousWakeUp(m),
         NEW e \in Edge, pc[consumer[e]] = "rescan", consumer[e] # m, Crossed(e)
  PROVE  Crossed(e)'
<1>1. producer[e] \in Node /\ consumer[e] \in Node /\ WakeLocal(m)
  BY GraphAssumption DEF WakeInv
<1>2. CASE producer[e] # m
  BY <1>1, <1>2, LocalFrame DEF Crossed
<1>3. CASE producer[e] = m
  <2>1. e \in wake[m] /\ cmd'[m] = "normal"
    BY <1>1, <1>3, WakeLocalStep DEF Crossed
  <2>2. CASE ~SignalConsumer(m)
    BY <1>1, <1>3, <2>1, <2>2, WakeLocalStep DEF Crossed
  <2>3. CASE SignalConsumer(m)
    <3>1. PICK f \in wake[m] :
            IsFirst(f, wake[m]) /\ wake' = [wake EXCEPT ![m] = @ \ {f}]
      BY <2>3, Zenon DEF SignalConsumer
    <3>2. f # e
      <4> SUFFICES ASSUME f = e PROVE FALSE
        OBVIOUS
      <4>1. HoldsLock(m, consumer[e])
        BY <2>3, <3>1 DEF SignalConsumer, HoldsLock
      <4>2. HoldsLock(consumer[e], consumer[e])
        BY DEF HoldsLock
      <4> QED
        BY <1>1, <4>1, <4>2 DEF LockInv
    <3> QED
      BY <1>3, <2>1, <3>1, <3>2 DEF Crossed, TypeOK
  <2> QED
    BY <2>2, <2>3
<1> QED
  BY <1>2, <1>3

\* What pgm_wait_for_tokens has passed over under the lock stays accounted for.
LEMMA RescanStep ==
  ASSUME TypeOK, FireInv, LockInv, WakeInv, NEW m \in Node,
         Step(m) \/ SpuriousWakeUp(m), NEW n \in Node
  PROVE  RescanInv(n)'
<1>1. In(n)' = In(n) /\ In(n) \subseteq Edge /\ RescanInv(n) /\ WakeLocal(m)
  BY DEF In, WakeInv
<1> SUFFICES ASSUME pc'[n] = "rescan", NEW e \in In(n) \ (seen'[n] \cup todo'[n]), Ready(e)'
             PROVE  Crossed(e)'
  BY <1>1 DEF RescanInv
<1>2. e \in Edge /\ consumer[e] = n
  BY DEF In
<1>3. CASE n = m
  <2>1. ScanEdge(m)
    <3>1. ~LockNode(m) /\ ~WakeUp(m)
      BY <1>3 DEF LockNode, WakeUp, BeginScan, TypeOK
    <3>2. ~BeginSkips(m, "normal") /\ ~BeginSkips(m, "terminate") /\ ~LeaveWait(m, cmd[m])
          /\ ~Produce(m, "normal") /\ ~Produce(m, "terminate")
      BY <1>3, AfterConsume DEF TypeOK
    <3> QED
      BY <1>3, <3>1, <3>2, ZenonT(30) DEF Step, SpuriousWakeUp, CallWait, BeginScan,
         QuickPath, SlowPath, TokenStatus, RecvEdge, WaitResult, ConsumeTokens,
         ConsumeSkips, CallComplete, CallTerminate, SendData, SendTokens, LockConsumer,
         SignalConsumer, ProduceDone, TypeOK
  <2>2. /\ pc' = pc /\ wake' = wake /\ cmd' = cmd /\ nr_pending' = nr_pending
        /\ nr_skips' = nr_skips
    BY <2>1 DEF ScanEdge, edgeVars
  <2>3. PICK f \in todo[n] :
          /\ todo'[n] = todo[n] \ {f}
          /\ seen'[n] = IF Ready(f) THEN seen[n] \cup {f} ELSE seen[n]
    BY <1>3, <2>1, ZenonT(30) DEF ScanEdge, TypeOK
  <2>4. Ready(e)
    BY <2>2 DEF Ready, Enough
  <2>5. e \notin seen[n] \cup todo[n]
    BY <2>3, <2>4
  <2>6. Crossed(e)
    BY <1>1, <2>2, <2>4, <2>5 DEF RescanInv
  <2> QED
    BY <2>2, <2>6, SMTT(30) DEF Crossed
<1>4. CASE n # m
  <2>1. pc[n] = "rescan" /\ e \in In(n) \ (seen[n] \cup todo[n])
    BY <1>4, LocalFrame
  <2>2. CASE Ready(e)
    <3>1. Crossed(e)
      BY <1>1, <2>1, <2>2 DEF RescanInv
    <3> QED
      BY <1>2, <1>4, <2>1, <3>1, CrossedStays
  <2>3. CASE ~Ready(e)
    BY <1>1, <1>2, <2>1, <2>3, ReadyCause DEF Crossed
  <2> QED
    BY <2>2, <2>3
<1> QED
  BY <1>3, <1>4

\* A node that goes to sleep after its locked recheck has either nothing to do, or
\* a producer that will come to look at it.
LEMMA FallsAsleep ==
  ASSUME TypeOK, FireInv, LockInv, WakeInv, NEW n \in Node, SlowPath(n),
         pc'[n] = "blocked"
  PROVE  SleepInv(n)'
<1>1. /\ RescanInv(n) /\ ThreadInv(n) /\ WakeLocal(n)
      /\ In(n)' = In(n) /\ In(n) \subseteq Edge
  BY DEF WakeInv, FireInv, In
<1>2. /\ pc[n] = "rescan" /\ todo[n] = {} /\ wake' = wake /\ cmd' = cmd
      /\ nr_pending' = nr_pending /\ nr_skips' = nr_skips
      /\ nr_terminate_signals' = nr_terminate_signals
  BY DEF SlowPath, edgeVars
<1>3. seen[n] # In(n) /\ ~ExhaustedAndTerminate(n)
  BY DEF SlowPath, TokenStatus, TypeOK
<1>a. ASSUME NEW e \in Edge
      PROVE  Ready(e)' <=> Ready(e)
  BY <1>2 DEF Ready, Enough
<1>4. ASSUME \A e \in In(n) : Ready(e)'
      PROVE  \E m \in Node : WillSignal(m, n)'
  <2>1. PICK e \in In(n) : e \notin seen[n]
    BY <1>1, <1>2, <1>3 DEF ThreadInv
  <2>2. e \in Edge /\ consumer[e] = n /\ producer[e] \in Node
    BY GraphAssumption DEF In
  <2>3. Crossed(e)
    BY <1>1, <1>2, <1>4, <1>a, <2>1, <2>2 DEF RescanInv
  <2>4. producer[e] # n
    BY <1>1, <1>2, <2>3, SMTT(30) DEF WakeLocal, Crossed
  <2>5. pc'[producer[e]] = pc[producer[e]]
    BY <2>2, <2>4, LocalFrame DEF Step
  <2>6. ~(pc[producer[e]] = "wakescan" /\ IsFirst(e, wake[producer[e]]))
    <3> SUFFICES ASSUME pc[producer[e]] = "wakescan", IsFirst(e, wake[producer[e]])
                 PROVE  FALSE
      OBVIOUS
    <3>1. HoldsLock(producer[e], n)
      BY <2>2, <2>3 DEF HoldsLock, Crossed
    <3>2. HoldsLock(n, n)
      BY <1>2 DEF HoldsLock
    <3> QED
      BY <2>2, <2>4, <3>1, <3>2 DEF LockInv
  <2>7. WillSignal(producer[e], n)'
    BY <1>2, <2>2, <2>3, <2>5, <2>6 DEF WillSignal, Crossed, IsFirst
  <2> QED
    BY <2>2, <2>7
<1>5. ~Exhausted(n)'
  <2> SUFFICES ASSUME Exhausted(n)' PROVE FALSE
    OBVIOUS
  <2>1. nr_terminate_signals[n] # 0 /\ nr_terminate_signals[n] = Cardinality(In(n) \ BackEdge)
    BY <1>1, <1>2 DEF Exhausted
  <2>2. PICK e \in seen[n] : e \notin BackEdge
    BY <1>3, <2>1 DEF ExhaustedAndTerminate
  <2>3. e \in In(n) /\ Ready(e)
    BY <1>1, <1>2, <2>2 DEF ThreadInv
  <2> QED
    BY <1>1, <1>a, <2>2, <2>3 DEF Exhausted
<1> QED
  BY <1>1, <1>4, <1>5 DEF SleepInv

\* A step of another thread leaves a sleeping node with somebody to wake it.
LEMMA SleepStep ==
  ASSUME TypeOK, FireInv, WakeInv, NEW m \in Node, Step(m) \/ SpuriousWakeUp(m),
         NEW n \in Node, n # m
  PROVE  SleepInv(n)'
<1>1. In(n)' = In(n) /\ In(n) \subseteq Edge /\ SleepInv(n) /\ WakeLocal(m)
  BY SMTT(30) DEF In, WakeInv
<1> SUFFICES ASSUME pc'[n] = "blocked", ~woken'[n]
             PROVE  /\ (\A e \in In(n) : Ready(e)') => \E k \in Node : WillSignal(k, n)'
                    /\ Exhausted(n)' => \E k \in Node : WillTerminate(k, n)'
  BY <1>1, SMTT(30) DEF SleepInv
<1>2. pc[n] = "blocked" /\ ~woken[n]
  BY LocalFrame, SignalFrame, SMTT(30)
<1>3. ASSUME \A e \in In(n) : Ready(e)'
      PROVE  \E k \in Node : WillSignal(k, n)'
  <2>1. CASE \A e \in In(n) : Ready(e)
    <3>1. PICK k \in Node : WillSignal(k, n)
      BY <1>1, <1>2, <2>1 DEF SleepInv
    <3>2. CASE k = m
      BY <1>1, <1>2, <2>1, <3>1, <3>2, WillStep
    <3>3. CASE k # m
      <4>1. /\ pc'[k] = pc[k] /\ todo'[k] = todo[k] /\ seen'[k] = seen[k]
            /\ wake'[k] = wake[k] /\ cmd'[k] = cmd[k]
        BY <3>3, LocalFrame
      <4> QED
        BY <1>1, <3>1, <4>1 DEF WillSignal, IsFirst
    <3> QED
      BY <3>2, <3>3
  <2>2. ASSUME NEW e \in In(n), ~Ready(e)
        PROVE  WillSignal(m, n)'
    <3>1. e \in Edge /\ consumer[e] = n
      BY DEF In
    <3>2. e \in wake'[m] /\ pc'[m] \in {"send", "wake"}
      BY <1>1, <1>2, <1>3, <2>2, <3>1, ReadyCause
    <3> QED
      BY <3>1, <3>2 DEF WillSignal
  <2> QED
    BY <2>1, <2>2
<1>4. ASSUME Exhausted(n)'
      PROVE  \E k \in Node : WillTerminate(k, n)'
  <2>1. ASSUME NEW e \in In(n) \ BackEdge
        PROVE  ~Ready(e)
    <3>1. e \in Edge /\ ~Ready(e)'
      BY <1>1, <1>4 DEF Exhausted
    <3>2. pc[m] \notin {"consume", "skips"} \/ e \notin todo[m]
      BY DEF FireInv, ThreadInv, In
    <3> QED
      BY <3>1, <3>2, ReadyStable, SMTT(30)
  <2>2. CASE nr_terminate_signals'[n] = nr_terminate_signals[n]
    <3>1. Exhausted(n)
      BY <1>1, <1>4, <2>1, <2>2 DEF Exhausted
    <3>2. PICK k \in Node : WillTerminate(k, n)
      BY <1>1, <1>2, <3>1 DEF SleepInv
    <3>3. CASE k = m
      BY <1>1, <1>2, <3>2, <3>3, TerminateStep
    <3>4. CASE k # m
      <4>1. wake'[k] = wake[k] /\ cmd'[k] = cmd[k]
        BY <3>4, LocalFrame
      <4> QED
        BY <3>2, <4>1 DEF WillTerminate
    <3> QED
      BY <3>3, <3>4
  <2>3. CASE nr_terminate_signals'[n] # nr_terminate_signals[n]
    BY <2>3, SignalFrame
  <2> QED
    BY <2>2, <2>3
<1> QED
  BY <1>3, <1>4

\* Every step of every thread preserves the invariant.
LEMMA WakeInvStep ==
  ASSUME TypeOK, FireInv, LockInv, WakeInv, [Next]_vars
  PROVE  WakeInv'
<1>1. ASSUME NEW m \in Node, Step(m) \/ SpuriousWakeUp(m), NEW n \in Node
      PROVE  WakeLocal(n)' /\ RescanInv(n)' /\ SleepInv(n)'
  <2>1. WakeLocal(n) /\ Out(n)' = Out(n)
    BY DEF WakeInv, Out
  <2>2. RescanInv(n)'
    BY <1>1, RescanStep
  <2>3. CASE n = m
    <3>1. WakeLocal(n)'
      BY <1>1, <2>1, <2>3, WakeLocalStep
    <3>2. CASE SlowPath(n) /\ pc'[n] = "blocked"
      BY <2>2, <3>1, <3>2, FallsAsleep
    <3>3. CASE pc'[n] # "blocked" \/ woken'[n]
      BY <2>2, <3>1, <3>3, SMTT(30) DEF SleepInv
    <3>4. ~SlowPath(m) => pc'[m] # "blocked" \/ woken'[m]
      <4>1. \A command \in {"normal", "terminate"} :
              BeginSkips(m, command) \/ LeaveWait(m, command) \/ Produce(m, command)
                => pc'[m] # "blocked"
        BY AfterConsume
      <4>2. cmd[m] \in {"normal", "terminate"}
        BY DEF TypeOK
      <4> QED
        BY <1>1, <4>1, <4>2, ZenonT(30) DEF Step, SpuriousWakeUp, CallWait, BeginScan,
           ScanEdge, QuickPath, LockNode, WakeUp, TokenStatus, RecvEdge, WaitResult,
           ConsumeTokens, ConsumeSkips, CallComplete, CallTerminate, SendData,
           SendTokens, LockConsumer, SignalConsumer, ProduceDone, TypeOK
    <3> QED
      BY <2>3, <3>2, <3>3, <3>4
  <2>4. CASE n # m
    <3>1. pc'[n] = pc[n] /\ todo'[n] = todo[n] /\ wake'[n] = wake[n]
      BY <1>1, <2>4, LocalFrame
    <3>2. WakeLocal(n)'
      BY <2>1, <3>1 DEF WakeLocal
    <3>3. SleepInv(n)'
      BY <1>1, <2>4, SleepStep
    <3> QED
      BY <2>2, <3>2, <3>3
  <2> QED
    BY <2>3, <2>4
<1>2. CASE UNCHANGED vars
  <2>1. ASSUME NEW n \in Node
        PROVE  /\ WakeLocal(n)' <=> WakeLocal(n)
               /\ RescanInv(n)' <=> RescanInv(n)
               /\ SleepInv(n)' <=> SleepInv(n)
    <3>1. ASSUME NEW m \in Node
          PROVE  /\ WillSignal(m, n)' <=> WillSignal(m, n)
                 /\ WillTerminate(m, n)' <=> WillTerminate(m, n)
      BY <1>2 DEF vars, edgeVars, nodeVars, WillSignal, WillTerminate, IsFirst, In
    <3>2. ASSUME NEW e
          PROVE  (Ready(e)' <=> Ready(e)) /\ (Crossed(e)' <=> Crossed(e))
      BY <1>2 DEF vars, edgeVars, nodeVars, Ready, Enough, Crossed
    <3>3. Exhausted(n)' <=> Exhausted(n)
      BY <1>2, <3>2 DEF vars, edgeVars, nodeVars, Exhausted, In
    <3>4. WakeLocal(n)' <=> WakeLocal(n)
      BY <1>2 DEF vars, edgeVars, nodeVars, WakeLocal, Out
    <3>5. RescanInv(n)' <=> RescanInv(n)
      BY <1>2, <3>2, SMTT(30) DEF vars, edgeVars, nodeVars, RescanInv, In
    <3>6. SleepInv(n)' <=> SleepInv(n)
      BY <1>2, <3>1, <3>2, <3>3, ZenonT(30) DEF vars, edgeVars, nodeVars, SleepInv, In
    <3> QED
      BY <3>4, <3>5, <3>6
  <2> QED
    BY <2>1 DEF WakeInv
<1> QED
  BY <1>1, <1>2 DEF Next, WakeInv

\* The invariant holds in every reachable state of a graph without rings.
LEMMA WakeInvariance ==
  ASSUME RingEdge = {}
  PROVE  Spec => []WakeInv
<1>1. Init => WakeInv
  BY DEF Init, WakeInv, WakeLocal, RescanInv, SleepInv, Out
<1> QED
  BY <1>1, WakeInvStep, TypeCorrect, FireInvariance, LockInvariance, PTL DEF Spec

\* pgm_wait_for_tokens and pgm_produce lose no wake-up, in any graph of condition
\* variable edges with any rates and thresholds: a node that sleeps although it
\* could fire, or although all its producers have terminated and it is out of
\* tokens, has been signalled or is about to be. Ring edges are excluded as in
\* FiresWhenReady, on whose invariant this rests.
THEOREM WakeupsNotLost ==
  ASSUME RingEdge = {}
  PROVE  Spec => []NoLostWakeup
<1>1. WakeInv => NoLostWakeup
  <2> SUFFICES ASSUME WakeInv, NEW n \in Node, pc[n] = "blocked", ~woken[n],
                      (\A e \in In(n) : Ready(e)) \/ Exhausted(n)
               PROVE  \E m \in Node : WillSignal(m, n)
    BY DEF NoLostWakeup, Exhausted
  <2>1. SleepInv(n)
    BY SMTT(30) DEF WakeInv
  <2>2. CASE \A e \in In(n) : Ready(e)
    BY <2>1, <2>2, ZenonT(30) DEF SleepInv
  <2>3. CASE Exhausted(n)
    <3>1. PICK m \in Node : WillTerminate(m, n)
      BY <2>1, <2>3 DEF SleepInv
    <3> QED
      BY <3>1 DEF WillTerminate, WillSignal
  <2> QED
    BY <2>2, <2>3
<1> QED
  BY <1>1, WakeInvariance, PTL
=============================================================================
