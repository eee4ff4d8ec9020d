-------------------------- MODULE PgmTokensSignals --------------------------
(***************************************************************************)
(* What each step of PgmTokens does to the terminate command on its way    *)
(* through the graph: lemmas for every graph that satisfies GraphAssumption, *)
(* on which PgmTokensTermination rests.                                    *)
(***************************************************************************)
EXTENDS PgmTokensProofs

\* Has the producer of edge e sent its terminate command over e?
Sent(e) ==
  LET p == producer[e] IN
  /\ cmd[p] = "terminate"
  /\ pc[p] \in {"send", "token", "wake", "wakescan", "done"}
  /\ pc[p] \in {"send", "token"} => e \notin todo[p]

Forward(n) == In(n) \ BackEdge
SentTo(n) == {e \in Forward(n) : Sent(e)}

\* A thread that terminates does nothing but to consume skips and to pass the
\* command on, over forward edges.
Passing(n) ==
  cmd[n] = "terminate" =>
    /\ pc[n] \in {"skips", "send", "token", "wake", "wakescan", "done"}
    /\ pc[n] \in {"send", "token"} => todo[n] \subseteq Out(n) \ BackEdge

\* What a call of pgm_produce, or the way to it, makes of a thread that has not
\* sent anything yet.
LEMMA ProducePassing ==
  ASSUME TypeOK, NEW m \in Node, NEW command \in {"normal", "terminate"},
         BeginSkips(m, command) \/ LeaveWait(m, command) \/ Produce(m, command)
  PROVE  /\ cmd'[m] = command
         /\ Passing(m)'
         /\ \A e \in Edge \ BackEdge : producer[e] = m => ~Sent(e)'
<1> USE DEF TypeOK
<1>1. ASSUME NEW k \in {"normal", "terminate"}, Produce(m, k)
      PROVE  /\ cmd'[m] = k
             /\ Passing(m)'
             /\ \A e \in Edge \ BackEdge : producer[e] = m => ~Sent(e)'
  <2>1. /\ cmd'[m] = k /\ todo'[m] = Targets(m, k)
        /\ pc'[m] = IF Targets(m, k) = {} THEN "wake" ELSE "send"
    BY <1>1 DEF Produce
  <2>2. Passing(m)'
    BY <2>1 DEF Passing, Targets, Out
  <2>3. ASSUME NEW e \in Edge \ BackEdge, producer[e] = m, k = "terminate"
        PROVE  ~Sent(e)'
    <3>1. e \in Targets(m, k)
      BY <2>3 DEF Targets, Out
    <3>2. pc'[m] = "send" /\ e \in todo'[m]
      BY <2>1, <3>1
    <3> QED
      BY <2>3, <3>2 DEF Sent
  <2>4. ASSUME NEW e \in Edge \ BackEdge, producer[e] = m, k = "normal"
        PROVE  ~Sent(e)'
    BY <2>1, <2>4 DEF Sent
  <2> QED
    BY <2>1, <2>2, <2>3, <2>4
<1>2. CASE LeaveWait(m, command)
  <2>1. CASE command = "terminate"
    BY <1>1, <1>2, <2>1 DEF LeaveWait
  <2>2. CASE command = "normal"
    <3>1. cmd'[m] = "normal"
      BY <1>2, <2>2 DEF LeaveWait
    <3> QED
      BY <2>2, <3>1 DEF Passing, Sent
  <2> QED
    BY <2>1, <2>2
<1>3. CASE BeginSkips(m, command)
  <2>1. CASE Skipped(m) = {}
    BY <1>2, <1>3, <2>1 DEF BeginSkips
  <2>2. CASE Skipped(m) # {}
    <3>1. cmd'[m] = command /\ pc'[m] = "skips"
      BY <1>3, <2>2 DEF BeginSkips
    <3> QED
      BY <3>1 DEF Passing, Sent
  <2> QED
    BY <2>1, <2>2
<1> QED
  BY <1>1, <1>2, <1>3

\* A thread begins to terminate only as a source or because its tokens said so,
\* which they say only when the signals have all been counted.
LEMMA OwnTermination ==
  ASSUME TypeOK, NEW m \in Node, Passing(m), Step(m) \/ SpuriousWakeUp(m)
  PROVE  /\ Passing(m)'
         /\ cmd'[m] = "terminate" =>
              cmd[m] = "terminate" \/ tok[m] = "terminate" \/ m \in Source
         /\ tok'[m] = "terminate" =>
              tok[m] = "terminate" \/ nr_terminate_signals[m] = Cardinality(Forward(m))
<1> USE DEF TypeOK
<1>a. ASSUME pc[m] \notin {"skips", "send", "token", "wake", "wakescan", "done"},
             UNCHANGED cmd
      PROVE  Passing(m)'
  BY <1>a DEF Passing
<1>1. CASE CallWait(m)
  BY <1>1, <1>a DEF CallWait
<1>2. CASE ScanEdge(m)
  BY <1>2 DEF ScanEdge, Passing
<1>3. CASE QuickPath(m)
  <2>1. pc[m] = "scan" /\ UNCHANGED cmd
    BY <1>3 DEF QuickPath
  <2>2. tok'[m] = "terminate" =>
          tok[m] = "terminate" \/ nr_terminate_signals[m] = Cardinality(Forward(m))
    BY <1>3 DEF QuickPath, TokenStatus, ExhaustedAndTerminate, Forward
  <2> QED
    BY <2>1, <2>2, <1>a
<1>4. CASE LockNode(m) \/ WakeUp(m) \/ SpuriousWakeUp(m)
  BY <1>4, <1>a DEF LockNode, WakeUp, SpuriousWakeUp
<1>5. CASE SlowPath(m)
  <2>1. pc[m] = "rescan" /\ UNCHANGED cmd
    BY <1>5 DEF SlowPath
  <2>2. tok'[m] = "terminate" =>
          tok[m] = "terminate" \/ nr_terminate_signals[m] = Cardinality(Forward(m))
    BY <1>5 DEF SlowPath, TokenStatus, ExhaustedAndTerminate, Forward
  <2> QED
    BY <2>1, <2>2, <1>a
<1>6. CASE RecvEdge(m)
  BY <1>6, <1>a DEF RecvEdge
<1>7. CASE WaitResult(m)
  <2>1. tok'[m] = "success"
    BY <1>7 DEF WaitResult
  <2>2. CASE tok[m] = "terminate" /\ BeginSkips(m, "terminate")
    BY <2>1, <2>2, ProducePassing
  <2>3. CASE cmd' = [cmd EXCEPT ![m] = "normal"]
    BY <2>1, <2>3 DEF Passing
  <2> QED
    BY <1>7, <2>2, <2>3 DEF WaitResult
<1>8. CASE ConsumeTokens(m)
  <2>1. tok' = tok /\ pc[m] = "consume"
    BY <1>8 DEF ConsumeTokens
  <2>2. CASE BeginSkips(m, "normal")
    BY <2>1, <2>2, ProducePassing
  <2>3. CASE UNCHANGED <<pc, cmd>>
    BY <2>1, <2>3, <1>a
  <2> QED
    BY <1>8, <2>2, <2>3 DEF ConsumeTokens
<1>9. CASE ConsumeSkips(m)
  <2>1. tok' = tok /\ pc[m] = "skips"
    BY <1>9 DEF ConsumeSkips
  <2>2. CASE LeaveWait(m, cmd[m])
    BY <2>1, <2>2, ProducePassing
  <2>3. CASE UNCHANGED <<pc, cmd>>
    BY <2>1, <2>3 DEF Passing
  <2> QED
    BY <1>9, <2>2, <2>3 DEF ConsumeSkips
<1>10. CASE CallComplete(m)
  <2>1. Produce(m, "normal") /\ tok' = tok
    BY <1>10 DEF CallComplete
  <2> QED
    BY <2>1, ProducePassing
<1>11. CASE CallTerminate(m)
  <2>1. Produce(m, "terminate") /\ tok' = tok /\ m \in Source
    BY <1>11 DEF CallTerminate
  <2> QED
    BY <2>1, ProducePassing
<1>12. CASE SendData(m)
  BY <1>12, SMTT(30) DEF SendData, Passing, Out
<1>13. CASE SendTokens(m)
  BY <1>13, SMTT(30) DEF SendTokens, Passing, Out
<1>14. CASE LockConsumer(m)
  BY <1>14, SMTT(30) DEF LockConsumer, Passing, Out
<1>15. CASE SignalConsumer(m)
  BY <1>15 DEF SignalConsumer, Passing, Out
<1>16. CASE ProduceDone(m)
  BY <1>16 DEF ProduceDone, Passing, Out
<1> QED
  BY <1>1, <1>2, <1>3, <1>4, <1>5, <1>6, <1>7, <1>8, <1>9, <1>10, <1>11, <1>12,
     <1>13, <1>14, <1>15, <1>16 DEF Step

\* Nothing but the terminate command of pgm_produce changes what has been sent
\* over a forward edge, or the number of signals.
LEMMA SentFrame ==
  ASSUME TypeOK, NEW m \in Node, Passing(m), Step(m) \/ SpuriousWakeUp(m),
         ~(SendTokens(m) /\ cmd[m] = "terminate")
  PROVE  /\ nr_terminate_signals' = nr_terminate_signals
         /\ \A e \in Edge \ BackEdge : Sent(e)' <=> Sent(e)
<1>1. nr_terminate_signals' = nr_terminate_signals
  BY ZenonT(30) DEF Step, SpuriousWakeUp, CallWait, ScanEdge, QuickPath, LockNode,
     SlowPath, WakeUp, RecvEdge, WaitResult, ConsumeTokens, ConsumeSkips,
     CallComplete, CallTerminate, SendData, SendTokens, LockConsumer, SignalConsumer,
     ProduceDone, nodeVars
<1> SUFFICES ASSUME NEW e \in Edge \ BackEdge
             PROVE  Sent(e)' <=> Sent(e)
  BY <1>1
<1> USE DEF TypeOK
<1>0. producer[e] \in Node
  BY GraphAssumption
<1>a. CASE producer[e] # m
  <2>1. /\ pc'[producer[e]] = pc[producer[e]] /\ todo'[producer[e]] = todo[producer[e]]
        /\ cmd'[producer[e]] = cmd[producer[e]]
    BY <1>0, <1>a, LocalFrame
  <2> QED
    BY <2>1 DEF Sent
<1>b. CASE producer[e] = m
  <2>a. ASSUME ~Sent(e), cmd'[m] # "terminate" \/ pc'[m] = "skips"
        PROVE  Sent(e)' <=> Sent(e)
    BY <1>b, <2>a DEF Sent
  <2>b. ASSUME pc[m] \notin {"skips", "send", "token", "wake", "wakescan", "done"}
        PROVE  ~Sent(e) /\ cmd[m] # "terminate"
    BY <1>b, <2>b DEF Sent, Passing
  <2>1. CASE CallWait(m) \/ QuickPath(m) \/ LockNode(m) \/ SlowPath(m) \/ WakeUp(m)
             \/ SpuriousWakeUp(m) \/ RecvEdge(m)
    <3>1. /\ pc[m] \in {"start", "scan", "lock", "rescan", "blocked", "recv"}
          /\ cmd' = cmd
      BY <2>1 DEF CallWait, QuickPath, LockNode, SlowPath, WakeUp, SpuriousWakeUp,
           RecvEdge
    <3> QED
      BY <3>1, <2>a, <2>b
  <2>2. CASE ScanEdge(m)
    <3>1. /\ pc[m] \in {"scan", "rescan", "wakescan"} /\ pc' = pc /\ cmd' = cmd
      BY <2>2 DEF ScanEdge
    <3> QED
      BY <1>b, <3>1 DEF Sent
  <2>c. ASSUME NEW command \in {"normal", "terminate"}, ~Sent(e),
               BeginSkips(m, command) \/ LeaveWait(m, command) \/ Produce(m, command)
        PROVE  Sent(e)' <=> Sent(e)
    BY <1>b, <2>c, ProducePassing
  <2>3. CASE WaitResult(m)
    <3>1. pc[m] = "recv"
      BY <2>3 DEF WaitResult
    <3>2. ~Sent(e)
      BY <3>1, <2>b
    <3>3. CASE BeginSkips(m, "terminate")
      BY <3>1, <3>2, <3>3, <2>c
    <3>4. CASE cmd' = [cmd EXCEPT ![m] = "normal"]
      BY <3>1, <3>2, <3>4, <2>a
    <3> QED
      BY <2>3, <3>3, <3>4 DEF WaitResult
  <2>4. CASE ConsumeTokens(m)
    <3>1. pc[m] = "consume"
      BY <2>4 DEF ConsumeTokens
    <3>2. ~Sent(e) /\ cmd[m] # "terminate"
      BY <3>1, <2>b
    <3>3. CASE BeginSkips(m, "normal")
      BY <3>1, <3>2, <3>3, <2>c
    <3>4. CASE UNCHANGED <<pc, cmd>>
      BY <3>1, <3>2, <3>4, <2>a
    <3> QED
      BY <2>4, <3>3, <3>4 DEF ConsumeTokens
  <2>5. CASE ConsumeSkips(m)
    <3>1. pc[m] = "skips"
      BY <2>5 DEF ConsumeSkips
    <3>2. ~Sent(e)
      BY <1>b, <3>1 DEF Sent
    <3>3. CASE LeaveWait(m, cmd[m])
      BY <3>1, <3>2, <3>3, <2>c
    <3>4. CASE UNCHANGED <<pc, cmd>>
      BY <3>1, <3>2, <3>4, <2>a
    <3> QED
      BY <2>5, <3>3, <3>4 DEF ConsumeSkips
  <2>6. CASE CallComplete(m) \/ CallTerminate(m)
    <3>1. /\ pc[m] = "job"
          /\ Produce(m, "normal") \/ Produce(m, "terminate")
      BY <2>6 DEF CallComplete, CallTerminate
    <3> QED
      BY <3>1, <2>b, <2>c
  <2>7. CASE SendData(m)
    BY <1>b, <2>7 DEF SendData, Sent
  <2>8. CASE SendTokens(m)
    <3>1. cmd[m] # "terminate" /\ cmd' = cmd
      BY <2>8, ZenonT(30) DEF SendTokens
    <3> QED
      BY <1>b, <3>1, SMTT(30) DEF Sent
  <2>9. CASE LockConsumer(m) \/ SignalConsumer(m) \/ ProduceDone(m)
    <3>1. /\ pc[m] \in {"wake", "wakescan"} /\ cmd' = cmd
          /\ pc'[m] \in {"wake", "wakescan", "done", "start"}
          /\ cmd[m] = "terminate" => pc'[m] # "start"
      BY <2>9, SMTT(30) DEF LockConsumer, SignalConsumer, ProduceDone
    <3> QED
      BY <1>b, <3>1, SMTT(30) DEF Sent
  <2> QED
    BY <2>1, <2>2, <2>3, <2>4, <2>5, <2>6, <2>7, <2>8, <2>9 DEF Step
<1> QED
  BY <1>a, <1>b, SMTT(30)

\* The terminate command of pgm_produce counts one signal for one edge over
\* which it had not been sent.
LEMMA SentStep ==
  ASSUME TypeOK, NEW m \in Node, Passing(m), SendTokens(m), cmd[m] = "terminate"
  PROVE  \E e \in Edge \ BackEdge :
           /\ ~Sent(e) /\ Sent(e)'
           /\ \A f \in (Edge \ BackEdge) \ {e} : Sent(f)' <=> Sent(f)
           /\ nr_terminate_signals' = [nr_terminate_signals EXCEPT ![consumer[e]] = @ + 1]
<1>1. PICK e \in todo[m] :
        /\ todo' = [todo EXCEPT ![m] = @ \ {e}]
        /\ nr_terminate_signals' = [nr_terminate_signals EXCEPT ![consumer[e]] = @ + 1]
        /\ pc[m] \in {"send", "token"}
  BY ZenonT(30) DEF SendTokens
<1>2. /\ cmd' = cmd /\ pc'[m] \in {"send", "wake"}
      /\ pc'[m] = "wake" => todo'[m] = {}
  BY DEF SendTokens, TypeOK
<1>3. todo[m] \subseteq Out(m) \ BackEdge
  BY <1>1 DEF Passing
<1>4. e \in Edge \ BackEdge /\ producer[e] = m /\ todo'[m] = todo[m] \ {e}
  BY <1>1, <1>3 DEF Out, TypeOK
<1>5. ~Sent(e) /\ Sent(e)'
  BY <1>1, <1>2, <1>4 DEF Sent, TypeOK
<1>6. ASSUME NEW f \in (Edge \ BackEdge) \ {e}
      PROVE  Sent(f)' <=> Sent(f)
  <2>1. CASE producer[f] = m
    BY <1>1, <1>2, <1>4, <1>6, <2>1 DEF Sent, TypeOK
  <2>2. CASE producer[f] # m
    <3>1. producer[f] \in Node
      BY GraphAssumption, Zenon
    <3>2. /\ pc'[producer[f]] = pc[producer[f]] /\ todo'[producer[f]] = todo[producer[f]]
          /\ cmd'[producer[f]] = cmd[producer[f]]
      BY <2>2, <3>1, LocalFrame, Zenon DEF Step
    <3> QED
      BY <3>2 DEF Sent
  <2> QED
    BY <2>1, <2>2
<1> QED
  BY <1>1, <1>4, <1>5, <1>6, ZenonT(30)

=============================================================================
