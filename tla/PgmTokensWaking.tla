-------------------------- MODULE PgmTokensWaking ---------------------------
(***************************************************************************)
(* What each step of PgmTokens does to to_wake[] and to the threads that are *)
(* bound to signal a node: lemmas for every graph that satisfies           *)
(* GraphAssumption, on which PgmTokensWakeups rests.                       *)
(***************************************************************************)
EXTENDS PgmTokensLocks

\* to_wake[] is filled by pgm_produce, with outbound edges, and empty elsewhere.
WakeLocal(m) ==
  /\ pc[m] \notin {"send", "token", "wake", "wakescan"} => wake[m] = {}
  /\ pc[m] \in {"send", "token"} => todo[m] \subseteq Out(m)
  /\ wake[m] \subseteq Out(m)

\* Thread m will signal n because it has terminated.
WillTerminate(m, n) == cmd[m] = "terminate" /\ \E e \in wake[m] : consumer[e] = n
-----------------------------------------------------------------------------
\* The two forms of a step of pgm_send_tokens.
LEMMA SendForms ==
  ASSUME TypeOK, NEW m \in Node, SendTokens(m)
  PROVE  \E e \in todo[m] :
           /\ pc[m] \in {"send", "token"} /\ pc'[m] \in {"send", "wake"}
           /\ cmd' = cmd /\ nr_skips' = nr_skips /\ woken' = woken
           /\ todo' = [todo EXCEPT ![m] = @ \ {e}]
           /\ \/ /\ cmd[m] = "terminate"
                 /\ nr_terminate_signals' =
                      [nr_terminate_signals EXCEPT ![consumer[e]] = @ + 1]
                 /\ wake' = [wake EXCEPT ![m] = @ \cup {e}]
                 /\ nr_pending' = nr_pending
              \/ /\ cmd[m] # "terminate"
                 /\ nr_pending' = [nr_pending EXCEPT ![e] = @ + nr_produce[e]]
                 /\ wake' = [wake EXCEPT ![m] = IF Fulfils(e) THEN @ \cup {e} ELSE @]
                 /\ nr_terminate_signals' = nr_terminate_signals
<1>1. pc'[m] \in {"send", "wake"}
  BY DEF SendTokens, TypeOK
<1>2. cmd' = cmd /\ nr_skips' = nr_skips /\ woken' = woken
  BY DEF SendTokens
<1> QED
  BY <1>1, <1>2, ZenonT(30) DEF SendTokens

\* Within pgm_produce wake[m] only grows until the consumers are signalled, and
\* its command stays the same; a new command finds it empty.
LEMMA WakeLocalStep ==
  ASSUME TypeOK, NEW m \in Node, WakeLocal(m), Step(m) \/ SpuriousWakeUp(m)
  PROVE  /\ WakeLocal(m)'
         /\ ~SignalConsumer(m) => wake[m] \subseteq wake'[m]
         /\ wake[m] # {} => cmd'[m] = cmd[m]
<1>0. Out(m)' = Out(m) /\ Out(m) \subseteq Edge
  BY DEF Out
<1>a. ASSUME pc[m] \notin {"send", "token", "wake", "wakescan"}, wake' = wake,
             pc'[m] \in {"send", "token"} => todo'[m] \subseteq Out(m)
      PROVE  wake[m] = {} /\ WakeLocal(m)'
  BY <1>0, <1>a DEF WakeLocal
<1>b. ASSUME NEW command \in {"normal", "terminate"},
             BeginSkips(m, command) \/ LeaveWait(m, command) \/ Produce(m, command)
      PROVE  pc'[m] \in {"send", "token"} => todo'[m] \subseteq Out(m)
  BY <1>b DEF BeginSkips, LeaveWait, Produce, Targets, TypeOK
<1>1. CASE CallWait(m)
  BY <1>1, <1>a DEF CallWait, BeginScan, TypeOK
<1>2. CASE ScanEdge(m)
  BY <1>2, <1>0 DEF ScanEdge, WakeLocal, TypeOK
<1>3. CASE QuickPath(m)
  BY <1>3, <1>a DEF QuickPath, TokenStatus, TypeOK
<1>4. CASE LockNode(m)
  BY <1>4, <1>a DEF LockNode, BeginScan, TypeOK
<1>5. CASE SlowPath(m)
  BY <1>5, <1>a DEF SlowPath, TokenStatus, TypeOK
<1>6. CASE WakeUp(m)
  BY <1>6, <1>a DEF WakeUp, BeginScan, TypeOK
<1>7. CASE SpuriousWakeUp(m)
  BY <1>7, <1>a DEF SpuriousWakeUp, TypeOK
<1>8. CASE RecvEdge(m)
  BY <1>8, <1>a DEF RecvEdge, TypeOK
<1>9. CASE WaitResult(m)
  BY <1>9, <1>a, <1>b DEF WaitResult, TypeOK
<1>10. CASE ConsumeTokens(m)
  BY <1>10, <1>a, <1>b DEF ConsumeTokens, TypeOK
<1>11. CASE ConsumeSkips(m)
  <2>1. cmd[m] \in {"normal", "terminate"}
    BY DEF TypeOK
  <2> QED
    BY <1>11, <1>a, <1>b, <2>1 DEF ConsumeSkips, TypeOK
<1>12. CASE CallComplete(m) \/ CallTerminate(m)
  BY <1>12, <1>a, <1>b DEF CallComplete, CallTerminate, TypeOK
<1>13. CASE SendData(m)
  BY <1>13, <1>0 DEF SendData, WakeLocal, TypeOK
<1>14. CASE SendTokens(m)
  <2>1. PICK e \in todo[m] :
          /\ pc[m] \in {"send", "token"} /\ pc'[m] \in {"send", "wake"} /\ cmd' = cmd
          /\ todo' = [todo EXCEPT ![m] = @ \ {e}]
          /\ wake' = [wake EXCEPT ![m] = @ \cup {e}]
             \/ wake' = [wake EXCEPT ![m] = IF Fulfils(e) THEN @ \cup {e} ELSE @]
    BY <1>14, SendForms
  <2> QED
    BY <2>1, <1>0 DEF WakeLocal, TypeOK
<1>15. CASE LockConsumer(m)
  BY <1>15, <1>0 DEF LockConsumer, WakeLocal, TypeOK
<1>16. CASE SignalConsumer(m)
  <2>1. /\ wake[m] \subseteq Edge
        /\ \E e \in wake[m] : wake' = [wake EXCEPT ![m] = @ \ {e}]
    BY <1>16, ZenonT(30) DEF SignalConsumer, TypeOK
  <2>2. pc'[m] = "wake" /\ cmd' = cmd
    BY <1>16 DEF SignalConsumer, TypeOK
  <2>3. wake'[m] \subseteq wake[m]
    BY <2>1 DEF TypeOK
  <2> QED
    BY <1>16, <1>0, <2>2, <2>3 DEF WakeLocal
<1>17. CASE ProduceDone(m)
  BY <1>17, <1>0 DEF ProduceDone, WakeLocal, TypeOK
<1> QED
  BY <1>1, <1>2, <1>3, <1>4, <1>5, <1>6, <1>7, <1>8, <1>9, <1>10, <1>11, <1>12, <1>13,
     <1>14, <1>15, <1>16, <1>17 DEF Step

\* Apart from pgm_send_tokens no step of another thread changes what an edge holds.
LEMMA CounterFrame ==
  ASSUME TypeOK, NEW m \in Node, Step(m) \/ SpuriousWakeUp(m), ~SendTokens(m),
         NEW e \in Edge, pc[m] \in {"consume", "skips"} => e \notin todo[m]
  PROVE  nr_pending'[e] = nr_pending[e] /\ nr_skips'[e] = nr_skips[e]
<1>1. CASE ConsumeTokens(m)
  <2>1. /\ pc[m] = "consume" /\ nr_skips' = nr_skips
        /\ \E f \in todo[m] : \/ nr_pending' = nr_pending
                              \/ nr_pending' = [nr_pending EXCEPT ![f] = @ - nr_consume[f]]
    BY <1>1 DEF ConsumeTokens
  <2> QED
    BY <2>1 DEF TypeOK
<1>2. CASE ConsumeSkips(m)
  <2>1. pc[m] = "skips" /\ nr_pending' = nr_pending
    BY <1>2 DEF ConsumeSkips
  <2>2. \E f \in todo[m] :
          nr_skips' = [nr_skips EXCEPT ![f] = IF @ > 0 THEN @ - 1 ELSE @]
    BY <1>2, Zenon DEF ConsumeSkips
  <2> QED
    BY <2>1, <2>2 DEF TypeOK
<1>3. CASE ~ConsumeTokens(m) /\ ~ConsumeSkips(m)
  BY <1>3, Zenon DEF Step, SpuriousWakeUp, CallWait, ScanEdge, QuickPath, LockNode,
     SlowPath, WakeUp, RecvEdge, WaitResult, CallComplete, CallTerminate, SendData,
     LockConsumer, SignalConsumer, ProduceDone, edgeVars
<1> QED
  BY <1>1, <1>2, <1>3

\* An edge of a node that scans under its lock or sleeps becomes ready only by the
\* tokens of its producer, who then puts it into to_wake[].
LEMMA ReadyCause ==
  ASSUME TypeOK, FireInv, NEW m \in Node, WakeLocal(m), Step(m) \/ SpuriousWakeUp(m),
         NEW e \in Edge, ~Ready(e), Ready(e)', pc[consumer[e]] \in {"rescan", "blocked"}
  PROVE  /\ producer[e] = m /\ e \in wake'[m] /\ cmd[m] = "normal"
         /\ pc[m] \in {"send", "token"} /\ pc'[m] \in {"send", "wake"} /\ cmd' = cmd
<1>1. /\ nr_pending[e] \in Int /\ nr_pending[e] >= 0 /\ nr_skips[e] \in Nat
      /\ nr_threshold[e] \in Nat /\ nr_produce[e] \in Nat
  BY GraphAssumption DEF TypeOK, FireInv
<1>2. nr_pending'[e] # nr_pending[e] \/ nr_skips'[e] # nr_skips[e]
  BY DEF Ready, Enough
<1>3. pc[m] \in {"consume", "skips"} => e \notin todo[m]
  BY DEF FireInv, ThreadInv, In
<1>4. SendTokens(m)
  BY <1>2, <1>3, CounterFrame
<1>5. PICK f \in todo[m] :
        /\ pc[m] \in {"send", "token"} /\ pc'[m] \in {"send", "wake"} /\ cmd' = cmd
        /\ nr_skips' = nr_skips
        /\ \/ nr_pending' = nr_pending
           \/ /\ cmd[m] # "terminate"
              /\ nr_pending' = [nr_pending EXCEPT ![f] = @ + nr_produce[f]]
              /\ wake' = [wake EXCEPT ![m] = IF Fulfils(f) THEN @ \cup {f} ELSE @]
  BY <1>4, SendForms
<1>6. /\ f = e /\ nr_pending'[e] = nr_pending[e] + nr_produce[e]
      /\ nr_skips'[e] = nr_skips[e] /\ cmd[m] # "terminate"
      /\ wake' = [wake EXCEPT ![m] = IF Fulfils(f) THEN @ \cup {f} ELSE @]
  BY <1>2, <1>5 DEF TypeOK
<1>7. Fulfils(e)
  BY <1>1, <1>6 DEF Ready, Enough, Fulfils
<1>8. e \in wake'[m] /\ cmd[m] = "normal"
  BY <1>6, <1>7 DEF TypeOK
<1>9. producer[e] = m
  BY <1>5, <1>6 DEF WakeLocal, Out
<1> QED
  BY <1>5, <1>8, <1>9

\* A thread that is bound to signal a node whose edges are all ready remains so
\* until it does.
LEMMA WillStep ==
  ASSUME TypeOK, NEW m \in Node, NEW n \in Node, WakeLocal(m),
         Step(m) \/ SpuriousWakeUp(m), WillSignal(m, n), pc[n] = "blocked",
         \A e \in In(n) : Ready(e)
  PROVE  WillSignal(m, n)' \/ woken'[n]
<1>1. PICK e \in wake[m] :
        /\ consumer[e] = n
        /\ (pc[m] = "wakescan" /\ IsFirst(e, wake[m]) /\ cmd[m] = "normal")
             => In(n) = seen[m] \cup todo[m]
  BY DEF WillSignal
<1>2. /\ pc[m] \in {"send", "token", "wake", "wakescan"} /\ wake[m] # {}
      /\ wake[m] \in SUBSET Edge /\ In(n)' = In(n)
  BY <1>1 DEF WakeLocal, TypeOK, In
<1>a. ASSUME e \in wake'[m], pc'[m] # "wakescan"
      PROVE  WillSignal(m, n)'
  BY <1>1, <1>a DEF WillSignal
<1>3. CASE ScanEdge(m)
  <2>1. pc' = pc /\ wake' = wake /\ cmd' = cmd
    BY <1>3 DEF ScanEdge
  <2>2. PICK f \in todo[m] :
          /\ todo'[m] = todo[m] \ {f}
          /\ seen'[m] = IF Ready(f) THEN seen[m] \cup {f} ELSE seen[m]
    BY <1>3, ZenonT(30) DEF ScanEdge, TypeOK
  <2>3. ASSUME In(n) = seen[m] \cup todo[m]
        PROVE  In(n) = seen'[m] \cup todo'[m]
    BY <2>2, <2>3
  <2> QED
    BY <1>1, <1>2, <2>1, <2>3 DEF WillSignal, IsFirst
<1>4. CASE SendData(m)
  BY <1>1, <1>4, <1>a DEF SendData, TypeOK
<1>5. CASE SendTokens(m)
  <2>1. pc'[m] # "wakescan"
    BY <1>5 DEF SendTokens, TypeOK
  <2>2. ~SignalConsumer(m)
    BY <1>5, SendForms DEF SignalConsumer
  <2> QED
    BY <1>1, <1>a, <2>1, <2>2, WakeLocalStep
<1>6. CASE LockConsumer(m)
  <2>1. PICK f \in wake[m] :
          /\ IsFirst(f, wake[m])
          /\ todo' = [todo EXCEPT ![m] = IF cmd[m] = "terminate" THEN {} ELSE In(consumer[f])]
    BY <1>6, ZenonT(30) DEF LockConsumer
  <2>2. wake' = wake /\ cmd' = cmd
    BY <1>6 DEF LockConsumer
  <2>3. seen'[m] = {}
    BY <1>6 DEF LockConsumer, TypeOK
  <2>4. ASSUME IsFirst(e, wake[m]), cmd[m] = "normal"
        PROVE  In(n) = seen'[m] \cup todo'[m]
    <3>1. e = f
      BY <1>2, <2>1, <2>4, FirstUnique
    <3> QED
      BY <1>1, <2>1, <2>3, <2>4, <3>1 DEF TypeOK
  <2> QED
    BY <1>1, <1>2, <2>2, <2>4 DEF WillSignal, IsFirst
<1>7. CASE SignalConsumer(m)
  <2>1. PICK f \in wake[m] :
          /\ IsFirst(f, wake[m])
          /\ woken' = [woken EXCEPT ![consumer[f]] =
                         @ \/ (/\ cmd[m] = "terminate" \/ seen[m] = In(consumer[f])
                               /\ pc[consumer[f]] = "blocked")]
          /\ wake' = [wake EXCEPT ![m] = @ \ {f}]
    BY <1>7, ZenonT(30) DEF SignalConsumer
  <2>2. pc[m] = "wakescan" /\ todo[m] = {} /\ pc'[m] = "wake"
    BY <1>7 DEF SignalConsumer, TypeOK
  <2>3. CASE f = e
    <3>1. cmd[m] = "terminate" \/ seen[m] = In(n)
      BY <1>1, <2>1, <2>2, <2>3 DEF TypeOK
    <3> QED
      BY <1>1, <2>1, <2>3, <3>1, ZenonT(30) DEF TypeOK
  <2>4. CASE f # e
    BY <1>1, <1>a, <2>1, <2>2, <2>4 DEF TypeOK
  <2> QED
    BY <2>3, <2>4
<1>8. CASE ProduceDone(m)
  BY <1>2, <1>8 DEF ProduceDone
<1> QED
  BY <1>2, <1>3, <1>4, <1>5, <1>6, <1>7, <1>8, ZenonT(30) DEF Step, SpuriousWakeUp,
     CallWait, QuickPath, LockNode, SlowPath, WakeUp, RecvEdge, WaitResult,
     ConsumeTokens, ConsumeSkips, CallComplete, CallTerminate

\* A thread bound to pass its termination on to a sleeping node remains so until it
\* has signalled it.
LEMMA TerminateStep ==
  ASSUME TypeOK, NEW m \in Node, NEW n \in Node, WakeLocal(m),
         Step(m) \/ SpuriousWakeUp(m), WillTerminate(m, n), pc[n] = "blocked"
  PROVE  WillTerminate(m, n)' \/ woken'[n]
<1>1. PICK e \in wake[m] : consumer[e] = n
  BY DEF WillTerminate
<1>2. cmd[m] = "terminate" /\ cmd'[m] = "terminate"
  BY <1>1, WakeLocalStep, SMTT(30) DEF WillTerminate
<1>3. CASE ~SignalConsumer(m)
  BY <1>1, <1>2, <1>3, WakeLocalStep DEF WillTerminate
<1>4. CASE SignalConsumer(m)
  <2>1. PICK f \in wake[m] :
          /\ woken' = [woken EXCEPT ![consumer[f]] =
                         @ \/ (/\ cmd[m] = "terminate" \/ seen[m] = In(consumer[f])
                               /\ pc[consumer[f]] = "blocked")]
          /\ wake' = [wake EXCEPT ![m] = @ \ {f}]
    BY <1>4, Zenon DEF SignalConsumer
  <2>2. CASE f = e
    BY <1>1, <1>2, <2>1, <2>2, ZenonT(30) DEF TypeOK
  <2>3. CASE f # e
    BY <1>1, <1>2, <2>1, <2>3 DEF WillTerminate, TypeOK
  <2> QED
    BY <2>2, <2>3
<1> QED
  BY <1>3, <1>4

\* No other thread takes a wake-up back, and only pgm_produce counts terminations.
LEMMA SignalFrame ==
  ASSUME TypeOK, NEW m \in Node, Step(m) \/ SpuriousWakeUp(m), NEW n \in Node, n # m
  PROVE  /\ woken[n] => woken'[n]
         /\ nr_terminate_signals'[n] # nr_terminate_signals[n] => WillTerminate(m, n)'
<1>1. CASE SendTokens(m)
  <2>1. PICK e \in todo[m] :
          /\ cmd' = cmd /\ woken' = woken
          /\ \/ /\ cmd[m] = "terminate"
                /\ nr_terminate_signals' =
                     [nr_terminate_signals EXCEPT ![consumer[e]] = @ + 1]
                /\ wake' = [wake EXCEPT ![m] = @ \cup {e}]
             \/ nr_terminate_signals' = nr_terminate_signals
    BY <1>1, SendForms
  <2> QED
    BY <2>1 DEF WillTerminate, TypeOK
<1>2. CASE SignalConsumer(m)
  <2>1. nr_terminate_signals' = nr_terminate_signals
    BY <1>2 DEF SignalConsumer
  <2>2. \E c, signal : woken' = [woken EXCEPT ![c] = @ \/ signal]
    BY <1>2, Zenon DEF SignalConsumer
  <2> QED
    BY <2>1, <2>2 DEF TypeOK
<1>3. CASE WakeUp(m) \/ SpuriousWakeUp(m)
  BY <1>3, SMTT(30) DEF WakeUp, SpuriousWakeUp, TypeOK
<1>4. CASE ~SendTokens(m) /\ ~SignalConsumer(m) /\ ~WakeUp(m) /\ ~SpuriousWakeUp(m)
  BY <1>4, ZenonT(30) DEF Step, CallWait, ScanEdge, QuickPath, LockNode, SlowPath,
     RecvEdge, WaitResult, ConsumeTokens, ConsumeSkips, CallComplete, CallTerminate,
     SendData, LockConsumer, ProduceDone, nodeVars
<1> QED
  BY <1>1, <1>2, <1>3, <1>4
=============================================================================
