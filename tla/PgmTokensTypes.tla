--------------------------- MODULE PgmTokensTypes ---------------------------
(***************************************************************************)
(* Type correctness of PgmTokens, proved for every graph that satisfies    *)
(* GraphAssumption.                                                        *)
(***************************************************************************)
EXTENDS PgmTokens, TLAPS

\* The places a thread can be at.
LEMMA LabelsType ==
  /\ "start" \in Labels /\ "scan" \in Labels /\ "lock" \in Labels
  /\ "rescan" \in Labels /\ "blocked" \in Labels /\ "recv" \in Labels
  /\ "consume" \in Labels /\ "skips" \in Labels /\ "job" \in Labels
  /\ "send" \in Labels /\ "token" \in Labels /\ "wake" \in Labels
  /\ "wakescan" \in Labels /\ "done" \in Labels
BY DEF Labels

\* Inbound and outbound edges are edges.
LEMMA InOutType ==
  ASSUME NEW n \in Node
  PROVE  In(n) \in SUBSET Edge /\ Out(n) \in SUBSET Edge
BY DEF In, Out

\* The return from pgm_wait_for_tokens keeps the thread-local variables in their
\* types.
LEMMA TokenStatusType ==
  ASSUME NEW n \in Node, NEW status \in {"success", "terminate"}, TypeOK,
         TokenStatus(n, status)
  PROVE  /\ pc' \in [Node -> Labels]
         /\ todo' \in [Node -> SUBSET Edge]
         /\ seen' \in [Node -> SUBSET Edge]
         /\ tok' \in [Node -> {"success", "terminate"}]
BY InOutType, LabelsType DEF TokenStatus, TypeOK

\* So does the start of a scan of the inbound edges of a node (pgm_nr_ready_edges).
LEMMA BeginScanType ==
  ASSUME NEW n \in Node, NEW c \in Node, NEW label \in Labels,
         pc \in [Node -> Labels],
         todo \in [Node -> SUBSET Edge],
         seen \in [Node -> SUBSET Edge],
         BeginScan(n, c, label)
  PROVE  /\ pc' \in [Node -> Labels]
         /\ todo' \in [Node -> SUBSET Edge]
         /\ seen' \in [Node -> SUBSET Edge]
BY InOutType DEF BeginScan

\* So do pgm_produce, pgm_consume_skips and the return from pgm_wait.
LEMMA LeaveWaitType ==
  ASSUME NEW n \in Node, NEW command \in {"normal", "terminate"},
         cmd \in [Node -> {"normal", "terminate"}],
         todo \in [Node -> SUBSET Edge],
         pc \in [Node -> Labels],
         Produce(n, command) \/ LeaveWait(n, command) \/ BeginSkips(n, command)
  PROVE  /\ cmd' \in [Node -> {"normal", "terminate"}]
         /\ todo' \in [Node -> SUBSET Edge]
         /\ pc' \in [Node -> Labels]
<1>1. /\ Targets(n, "normal") \in SUBSET Edge
      /\ Targets(n, "terminate") \in SUBSET Edge
      /\ Targets(n, command) \in SUBSET Edge
      /\ Skipped(n) \in SUBSET Edge
  BY DEF Targets, Skipped, In, Out
<1>2. {"wake", "send", "skips", "job"} \subseteq Labels
  BY DEF Labels
<1>3. ASSUME NEW k \in {"normal", "terminate"}, Produce(n, k)
      PROVE  /\ cmd' \in [Node -> {"normal", "terminate"}]
             /\ todo' \in [Node -> SUBSET Edge]
             /\ pc' \in [Node -> Labels]
  <2>1. Targets(n, k) \in SUBSET Edge
    BY <1>1
  <2> QED
    BY <1>2, <1>3, <2>1 DEF Produce
<1>4. ASSUME LeaveWait(n, command)
      PROVE  /\ cmd' \in [Node -> {"normal", "terminate"}]
             /\ todo' \in [Node -> SUBSET Edge]
             /\ pc' \in [Node -> Labels]
  BY <1>2, <1>3, <1>4, SMTT(30) DEF LeaveWait
<1> QED
  BY <1>1, <1>2, <1>3, <1>4 DEF BeginSkips

\* Every step of a thread keeps all variables of the model in their types.
LEMMA TypeStep ==
  ASSUME TypeOK, [Next]_vars
  PROVE  TypeOK'
<1> USE DEF TypeOK
<1>1. ASSUME NEW n \in Node, CallWait(n)
      PROVE  TypeOK'
  <2>1. UNCHANGED <<edgeVars, nodeVars, wake, cmd, tok, jobs>>
    BY <1>1 DEF CallWait
  <2>2. /\ pc' \in [Node -> Labels]
        /\ todo' \in [Node -> SUBSET Edge]
        /\ seen' \in [Node -> SUBSET Edge]
    <3>1. CASE In(n) # {}
      <4>1. BeginScan(n, n, "scan")
        BY <1>1, <3>1 DEF CallWait
      <4> QED
        BY <4>1, BeginScanType, LabelsType, Zenon
    <3>2. CASE In(n) = {}
      <4>1. pc' = [pc EXCEPT ![n] = "job"] /\ todo' = todo /\ seen' = seen
        BY <1>1, <3>2 DEF CallWait
      <4>2. pc' \in [Node -> Labels]
        BY <4>1, LabelsType
      <4> QED
        BY <4>1, <4>2
    <3> QED
      BY <3>1, <3>2
  <2> QED
    BY <2>1, <2>2 DEF edgeVars, nodeVars
<1>2. ASSUME NEW n \in Node, ScanEdge(n)
      PROVE  TypeOK'
  BY <1>2 DEF ScanEdge, edgeVars, nodeVars
<1>3. ASSUME NEW n \in Node, QuickPath(n)
      PROVE  TypeOK'
  <2>1. UNCHANGED <<edgeVars, nodeVars, wake, cmd, jobs>>
    BY <1>3 DEF QuickPath
  <2>2. /\ pc' \in [Node -> Labels]
        /\ todo' \in [Node -> SUBSET Edge]
        /\ seen' \in [Node -> SUBSET Edge]
        /\ tok' \in [Node -> {"success", "terminate"}]
    <3>1. CASE TokenStatus(n, "success") \/ TokenStatus(n, "terminate")
      BY <3>1, TokenStatusType
    <3>2. CASE /\ pc' = [pc EXCEPT ![n] = "lock"] /\ seen' = [seen EXCEPT ![n] = {}]
               /\ UNCHANGED <<todo, tok>>
      BY <3>2, LabelsType
    <3> QED
      BY <1>3, <3>1, <3>2, Zenon DEF QuickPath
  <2> QED
    BY <2>1, <2>2 DEF edgeVars, nodeVars
<1>4. ASSUME NEW n \in Node, LockNode(n)
      PROVE  TypeOK'
  BY <1>4 DEF LockNode, BeginScan, In, Labels, edgeVars, nodeVars
<1>5. ASSUME NEW n \in Node, SlowPath(n)
      PROVE  TypeOK'
  <2>1. UNCHANGED <<edgeVars, nr_terminate_signals, nr_terminate_msgs, woken, wake,
                   cmd, jobs>>
    BY <1>5 DEF SlowPath
  <2>2. /\ pc' \in [Node -> Labels]
        /\ todo' \in [Node -> SUBSET Edge]
        /\ seen' \in [Node -> SUBSET Edge]
        /\ tok' \in [Node -> {"success", "terminate"}]
    <3>1. CASE TokenStatus(n, "success") \/ TokenStatus(n, "terminate")
      BY <3>1, TokenStatusType
    <3>2. CASE /\ pc' = [pc EXCEPT ![n] = "blocked"] /\ seen' = [seen EXCEPT ![n] = {}]
               /\ UNCHANGED <<todo, tok>>
      BY <3>2, LabelsType
    <3> QED
      BY <1>5, <3>1, <3>2, Zenon DEF SlowPath
  <2>3. lock' \in [Node -> Node \cup {NoOne}]
    BY <1>5 DEF SlowPath
  <2> QED
    BY <2>1, <2>2, <2>3 DEF edgeVars
<1>6. ASSUME NEW n \in Node, WakeUp(n)
      PROVE  TypeOK'
  BY <1>6 DEF WakeUp, BeginScan, In, Labels, edgeVars, nodeVars
<1>7. ASSUME NEW n \in Node, SpuriousWakeUp(n)
      PROVE  TypeOK'
  BY <1>7 DEF SpuriousWakeUp, edgeVars, nodeVars
<1>8. ASSUME NEW n \in Node, RecvEdge(n)
      PROVE  TypeOK'
  <2>1. PICK e \in todo[n] :
          /\ todo' = [todo EXCEPT ![n] = @ \ {e}]
          /\ \/ UNCHANGED <<ring, nr_terminate_msgs>>
             \/ /\ nr_terminate_msgs' = [nr_terminate_msgs EXCEPT ![n] = @ + 1]
                /\ UNCHANGED ring
             \/ /\ ring[e] > 0 /\ ring' = [ring EXCEPT ![e] = @ - 1]
                /\ UNCHANGED nr_terminate_msgs
    BY <1>8, Zenon DEF RecvEdge
  <2>2. UNCHANGED <<nr_pending, nr_skips, ring_cmd, nr_terminate_signals, lock,
                   woken, pc, seen, wake, cmd, tok, jobs>>
    BY <1>8 DEF RecvEdge
  <2>3. todo' \in [Node -> SUBSET Edge] /\ nr_terminate_msgs' \in [Node -> Nat]
    BY <2>1
  <2>4. ring' \in [Edge -> Nat]
    BY <2>1
  <2> QED
    BY <2>2, <2>3, <2>4
<1>9. ASSUME NEW n \in Node, WaitResult(n)
      PROVE  TypeOK'
  <2>1. UNCHANGED <<edgeVars, nodeVars, seen, wake, jobs>>
    BY <1>9 DEF WaitResult
  <2>2. tok' \in [Node -> {"success", "terminate"}]
    BY <1>9 DEF WaitResult
  <2>3. CASE BeginSkips(n, "terminate")
    <3>1. /\ cmd' \in [Node -> {"normal", "terminate"}]
          /\ todo' \in [Node -> SUBSET Edge]
          /\ pc' \in [Node -> Labels]
      BY <2>3, LeaveWaitType
    <3> QED
      BY <2>1, <2>2, <3>1 DEF edgeVars, nodeVars
  <2>4. CASE /\ cmd' = [cmd EXCEPT ![n] = "normal"]
             /\ todo' = [todo EXCEPT ![n] = In(n)]
             /\ pc' = [pc EXCEPT ![n] = "consume"]
    <3>1. /\ cmd' \in [Node -> {"normal", "terminate"}]
          /\ todo' \in [Node -> SUBSET Edge]
          /\ pc' \in [Node -> Labels]
      BY <2>4, InOutType, LabelsType
    <3> QED
      BY <2>1, <2>2, <3>1 DEF edgeVars, nodeVars
  <2> QED
    BY <1>9, <2>3, <2>4 DEF WaitResult
<1>10. ASSUME NEW n \in Node, ConsumeTokens(n)
       PROVE  TypeOK'
  <2> PICK e \in todo[n] :
        /\ nr_pending' = IF nr_skips[e] > 0 THEN nr_pending
                         ELSE [nr_pending EXCEPT ![e] = @ - nr_consume[e]]
        /\ \/ BeginSkips(n, "normal")
           \/ todo' = [todo EXCEPT ![n] = @ \ {e}] /\ UNCHANGED <<pc, cmd>>
    BY <1>10, Zenon DEF ConsumeTokens
  <2>1. UNCHANGED <<nr_skips, ring, ring_cmd, nodeVars, seen, wake, tok, jobs>>
    BY <1>10 DEF ConsumeTokens
  <2>2. e \in Edge /\ nr_consume[e] \in Int
    BY GraphAssumption
  <2>3. nr_pending' \in [Edge -> Int]
    BY <2>2
  <2>4. /\ cmd' \in [Node -> {"normal", "terminate"}]
        /\ todo' \in [Node -> SUBSET Edge]
        /\ pc' \in [Node -> Labels]
    <3>1. CASE BeginSkips(n, "normal")
      BY <3>1, LeaveWaitType
    <3>2. CASE todo' = [todo EXCEPT ![n] = @ \ {e}] /\ UNCHANGED <<pc, cmd>>
      BY <3>2
    <3> QED
      BY <3>1, <3>2
  <2> QED
    BY <2>1, <2>3, <2>4 DEF nodeVars
<1>11. ASSUME NEW n \in Node, ConsumeSkips(n)
       PROVE  TypeOK'
  <2>1. PICK e \in todo[n] :
          /\ nr_skips' = [nr_skips EXCEPT ![e] = IF @ > 0 THEN @ - 1 ELSE @]
          /\ \/ LeaveWait(n, cmd[n])
             \/ todo' = [todo EXCEPT ![n] = @ \ {e}] /\ UNCHANGED <<pc, cmd>>
    BY <1>11, Zenon DEF ConsumeSkips
  <2>2. UNCHANGED <<nr_pending, ring, ring_cmd, nodeVars, seen, wake, tok, jobs>>
    BY <1>11 DEF ConsumeSkips
  <2>3. nr_skips' \in [Edge -> Nat]
    BY <2>1
  <2>4. /\ cmd' \in [Node -> {"normal", "terminate"}]
        /\ todo' \in [Node -> SUBSET Edge]
        /\ pc' \in [Node -> Labels]
    <3>1. CASE LeaveWait(n, cmd[n])
      BY <3>1, LeaveWaitType
    <3>2. CASE todo' = [todo EXCEPT ![n] = @ \ {e}] /\ UNCHANGED <<pc, cmd>>
      BY <3>2
    <3> QED
      BY <2>1, <3>1, <3>2
  <2> QED
    BY <2>2, <2>3, <2>4 DEF nodeVars
<1>12. ASSUME NEW n \in Node, CallComplete(n)
       PROVE  TypeOK'
  BY <1>12, LeaveWaitType DEF CallComplete, edgeVars, nodeVars
<1>13. ASSUME NEW n \in Node, CallTerminate(n)
       PROVE  TypeOK'
  BY <1>13, LeaveWaitType DEF CallTerminate, edgeVars, nodeVars
<1>14. ASSUME NEW n \in Node, SendData(n)
       PROVE  TypeOK'
  <2>1. UNCHANGED <<nr_pending, nr_skips, nodeVars, todo, seen, wake, cmd, tok, jobs>>
    BY <1>14 DEF SendData
  <2>2. pc' \in [Node -> Labels]
    BY <1>14, LabelsType DEF SendData
  <2>3. ring' \in [Edge -> Nat] /\ ring_cmd' \in [Edge -> BOOLEAN]
    <3> PICK e \in todo[n] \cap RingEdge :
          IF cmd[n] = "terminate"
            THEN ring_cmd' = [ring_cmd EXCEPT ![e] = TRUE] /\ UNCHANGED ring
            ELSE ring' = [ring EXCEPT ![e] = @ + 1] /\ UNCHANGED ring_cmd
      BY <1>14 DEF SendData
    <3>1. CASE cmd[n] = "terminate"
      BY <3>1, Zenon
    <3>2. CASE cmd[n] # "terminate"
      BY <3>2
    <3> QED
      BY <3>1, <3>2
  <2> QED
    BY <2>1, <2>2, <2>3 DEF nodeVars
<1>15. ASSUME NEW n \in Node, SendTokens(n)
       PROVE  TypeOK'
  <2> PICK e \in todo[n] :
        /\ todo' = [todo EXCEPT ![n] = @ \ {e}]
        /\ IF cmd[n] = "terminate"
             THEN /\ nr_terminate_signals' =
                       [nr_terminate_signals EXCEPT ![consumer[e]] = @ + 1]
                  /\ wake' = [wake EXCEPT ![n] = @ \cup {e}]
                  /\ UNCHANGED nr_pending
             ELSE /\ nr_pending' = [nr_pending EXCEPT ![e] = @ + nr_produce[e]]
                  /\ wake' = [wake EXCEPT ![n] = IF Fulfils(e) THEN @ \cup {e} ELSE @]
                  /\ UNCHANGED nr_terminate_signals
    BY <1>15, Zenon DEF SendTokens
  <2>1. UNCHANGED <<nr_skips, ring, ring_cmd, nr_terminate_msgs, lock, woken, seen,
                   cmd, tok, jobs>>
    BY <1>15 DEF SendTokens
  <2>2. e \in Edge /\ nr_produce[e] \in Int /\ consumer[e] \in Node
    BY GraphAssumption
  <2>3. /\ nr_terminate_signals' \in [Node -> Nat]
        /\ nr_pending' \in [Edge -> Int]
        /\ wake' \in [Node -> SUBSET Edge]
    BY <2>2
  <2>4. todo' \in [Node -> SUBSET Edge]
    OBVIOUS
  <2>5. pc' \in [Node -> Labels]
    BY <1>15, LabelsType DEF SendTokens
  <2> QED
    BY <2>1, <2>3, <2>4, <2>5
<1>16. ASSUME NEW n \in Node, LockConsumer(n)
       PROVE  TypeOK'
  <2> PICK e \in wake[n] :
        /\ lock' = [lock EXCEPT ![consumer[e]] = n]
        /\ todo' = [todo EXCEPT ![n] = IF cmd[n] = "terminate" THEN {}
                                       ELSE In(consumer[e])]
    BY <1>16, Zenon DEF LockConsumer
  <2>1. UNCHANGED <<edgeVars, nr_terminate_signals, nr_terminate_msgs, woken, wake,
                   cmd, tok, jobs>>
    BY <1>16 DEF LockConsumer
  <2>2. consumer[e] \in Node
    BY GraphAssumption
  <2>3. lock' \in [Node -> Node \cup {NoOne}] /\ todo' \in [Node -> SUBSET Edge]
    BY <2>2, InOutType
  <2>4. pc' \in [Node -> Labels] /\ seen' \in [Node -> SUBSET Edge]
    BY <1>16, LabelsType DEF LockConsumer
  <2> QED
    BY <2>1, <2>3, <2>4 DEF edgeVars
<1>17. ASSUME NEW n \in Node, SignalConsumer(n)
       PROVE  TypeOK'
  <2> PICK e \in wake[n] :
        /\ woken' = [woken EXCEPT ![consumer[e]] =
                       @ \/ (/\ cmd[n] = "terminate" \/ seen[n] = In(consumer[e])
                             /\ pc[consumer[e]] = "blocked")]
        /\ lock' = [lock EXCEPT ![consumer[e]] = NoOne]
        /\ wake' = [wake EXCEPT ![n] = @ \ {e}]
    BY <1>17, Zenon DEF SignalConsumer
  <2>1. UNCHANGED <<edgeVars, nr_terminate_signals, nr_terminate_msgs, todo, cmd, tok,
                   jobs>>
    BY <1>17 DEF SignalConsumer
  <2>2. lock' \in [Node -> Node \cup {NoOne}] /\ wake' \in [Node -> SUBSET Edge]
    BY Zenon
  <2>3. woken' \in [Node -> BOOLEAN]
    BY Zenon
  <2>4. pc' \in [Node -> Labels] /\ seen' \in [Node -> SUBSET Edge]
    BY <1>17, LabelsType DEF SignalConsumer
  <2> QED
    BY <2>1, <2>2, <2>3, <2>4 DEF edgeVars
<1>18. ASSUME NEW n \in Node, ProduceDone(n)
       PROVE  TypeOK'
  BY <1>18 DEF ProduceDone, Labels, edgeVars, nodeVars
<1>19. CASE UNCHANGED vars
  BY <1>19 DEF vars, edgeVars, nodeVars
<1> QED
  BY <1>1, <1>2, <1>3, <1>4, <1>5, <1>6, <1>7, <1>8, <1>9, <1>10, <1>11, <1>12,
     <1>13, <1>14, <1>15, <1>16, <1>17, <1>18, <1>19, ZenonT(30) DEF Next, Step

\* The variables of the token protocol keep their types, in every graph.
THEOREM TypeCorrect == Spec => []TypeOK
<1>1. Init => TypeOK
  BY GraphAssumption, LabelsType DEF Init, TypeOK
<1> QED
  BY <1>1, TypeStep, PTL DEF Spec
=============================================================================
