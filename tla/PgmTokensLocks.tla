--------------------------- MODULE PgmTokensLocks ---------------------------
(***************************************************************************)
(* Who holds which lock in PgmTokens, proved for every graph that satisfies *)
(* GraphAssumption, ring edges and backedges included.                     *)
(***************************************************************************)
EXTENDS PgmTokensProofs

-----------------------------------------------------------------------------
(***************************************************************************)
(* Locks. A thread holds the lock of its own node while it scans again in  *)
(* pgm_wait_for_tokens, that of the first consumer in to_wake[] while it   *)
(* scans or signals in pgm_produce, and no lock at any other place.        *)
(***************************************************************************)
HoldsLock(m, n) ==
  \/ pc[m] = "rescan" /\ n = m
  \/ pc[m] = "wakescan" /\ \E e \in wake[m] : IsFirst(e, wake[m]) /\ consumer[e] = n

LockInv == \A m, n \in Node : lock[n] = m <=> HoldsLock(m, n)

\* There is one first edge in to_wake[].
LEMMA FirstUnique ==
  ASSUME NEW S \in SUBSET Edge, NEW e, NEW f, IsFirst(e, S), IsFirst(f, S)
  PROVE  e = f
<1>1. e \in Nat /\ f \in Nat
  BY GraphAssumption DEF IsFirst
<1> QED
  BY <1>1 DEF IsFirst

\* So a thread holds at most one lock.
LEMMA HoldsOne ==
  ASSUME TypeOK, NEW m \in Node, NEW n1, NEW n2, HoldsLock(m, n1), HoldsLock(m, n2)
  PROVE  n1 = n2
<1>1. wake[m] \in SUBSET Edge
  BY DEF TypeOK
<1>2. CASE pc[m] = "rescan"
  BY <1>2 DEF HoldsLock
<1>3. CASE pc[m] = "wakescan"
  <2>1. PICK e \in wake[m] : IsFirst(e, wake[m]) /\ consumer[e] = n1
    BY <1>3 DEF HoldsLock
  <2>2. PICK f \in wake[m] : IsFirst(f, wake[m]) /\ consumer[f] = n2
    BY <1>3 DEF HoldsLock
  <2> QED
    BY <1>1, <2>1, <2>2, FirstUnique
<1> QED
  BY <1>2, <1>3 DEF HoldsLock

\* Only the steps that lock or unlock change who holds a lock.
LEMMA LockFrame ==
  ASSUME TypeOK, NEW m \in Node, Step(m) \/ SpuriousWakeUp(m),
         ~LockNode(m), ~SlowPath(m), ~WakeUp(m), ~LockConsumer(m), ~SignalConsumer(m)
  PROVE  /\ lock' = lock
         /\ \A n \in Node : HoldsLock(m, n)' <=> HoldsLock(m, n)
<1> USE DEF TypeOK
<1>a. ASSUME pc[m] \notin {"rescan", "wakescan"}, pc'[m] \notin {"rescan", "wakescan"}
      PROVE  \A n \in Node : HoldsLock(m, n)' <=> HoldsLock(m, n)
  BY <1>a DEF HoldsLock
<1>1. CASE CallWait(m)
  BY <1>1, <1>a DEF CallWait, BeginScan, nodeVars
<1>2. CASE ScanEdge(m)
  BY <1>2 DEF ScanEdge, nodeVars, HoldsLock, IsFirst
<1>3. CASE QuickPath(m)
  BY <1>3, <1>a DEF QuickPath, TokenStatus, nodeVars
<1>4. CASE SpuriousWakeUp(m)
  BY <1>4, <1>a DEF SpuriousWakeUp
<1>5. CASE RecvEdge(m)
  BY <1>5, <1>a DEF RecvEdge
<1>6. CASE WaitResult(m)
  BY <1>6, <1>a DEF WaitResult, BeginSkips, LeaveWait, Produce, nodeVars
<1>7. CASE ConsumeTokens(m)
  BY <1>7, <1>a DEF ConsumeTokens, BeginSkips, LeaveWait, Produce, nodeVars
<1>8. CASE ConsumeSkips(m)
  BY <1>8, <1>a DEF ConsumeSkips, LeaveWait, Produce, nodeVars
<1>9. CASE CallComplete(m) \/ CallTerminate(m)
  BY <1>9, <1>a DEF CallComplete, CallTerminate, Produce, nodeVars
<1>10. CASE SendData(m)
  BY <1>10, <1>a DEF SendData, nodeVars
<1>11. CASE SendTokens(m)
  BY <1>11, <1>a DEF SendTokens
<1>12. CASE ProduceDone(m)
  BY <1>12, <1>a DEF ProduceDone, nodeVars
<1> QED
  BY <1>1, <1>2, <1>3, <1>4, <1>5, <1>6, <1>7, <1>8, <1>9, <1>10, <1>11, <1>12 DEF Step

\* A thread m that takes the free lock of c, and is then where it holds that lock
\* and no other, keeps the invariant; so does one that releases the one it holds.
LEMMA LockChange ==
  ASSUME TypeOK, LockInv, NEW m \in Node, Step(m) \/ SpuriousWakeUp(m), NEW c \in Node,
         \/ /\ lock[c] = NoOne /\ lock' = [lock EXCEPT ![c] = m]
            /\ \A n \in Node : ~HoldsLock(m, n)
            /\ \A n \in Node : HoldsLock(m, n)' <=> n = c
         \/ /\ HoldsLock(m, c) /\ lock' = [lock EXCEPT ![c] = NoOne]
            /\ \A n \in Node : ~HoldsLock(m, n)'
  PROVE  LockInv'
<1> SUFFICES ASSUME NEW k \in Node, NEW n \in Node
             PROVE  lock'[n] = k <=> HoldsLock(k, n)'
  BY DEF LockInv
<1>1. (lock[n] = k <=> HoldsLock(k, n)) /\ (lock[n] = m <=> HoldsLock(m, n))
      /\ (lock[c] = m <=> HoldsLock(m, c)) /\ (lock[c] = k <=> HoldsLock(k, c))
  BY DEF LockInv
<1>2. k # NoOne /\ m # NoOne
  BY GraphAssumption
<1>3. lock \in [Node -> Node \cup {NoOne}]
  BY DEF TypeOK
<1>4. ASSUME k # m PROVE HoldsLock(k, n)' <=> HoldsLock(k, n)
  <2>1. pc'[k] = pc[k] /\ wake'[k] = wake[k]
    BY <1>4, LocalFrame
  <2> QED
    BY <2>1 DEF HoldsLock, IsFirst
<1>5. CASE k # m
  BY <1>1, <1>2, <1>3, <1>4, <1>5
<1>6. CASE k = m
  <2>1. HoldsLock(m, c) /\ HoldsLock(m, n) => n = c
    BY HoldsOne
  <2> QED
    BY <1>1, <1>2, <1>3, <1>6, <2>1
<1> QED
  BY <1>5, <1>6

\* Every step of a thread keeps the correspondence of places and locks.
LEMMA LockInvStep ==
  ASSUME TypeOK, LockInv, [Next]_vars
  PROVE  LockInv'
<1>1. ASSUME NEW m \in Node, Step(m) \/ SpuriousWakeUp(m)
      PROVE  LockInv'
  <2>1. CASE LockNode(m) \/ WakeUp(m)
    <3>1. /\ lock[m] = NoOne /\ lock' = [lock EXCEPT ![m] = m]
          /\ pc[m] \in {"lock", "blocked"} /\ pc'[m] = "rescan"
      BY <2>1 DEF LockNode, WakeUp, BeginScan, TypeOK
    <3>2. \A n \in Node : ~HoldsLock(m, n) /\ (HoldsLock(m, n)' <=> n = m)
      BY <3>1 DEF HoldsLock
    <3> QED
      BY <1>1, <3>1, <3>2, LockChange, Zenon
  <2>2. CASE SlowPath(m)
    <3>1. /\ lock' = [lock EXCEPT ![m] = NoOne]
          /\ pc[m] = "rescan" /\ pc'[m] \in {"recv", "blocked"}
      BY <2>2 DEF SlowPath, TokenStatus, TypeOK
    <3>2. HoldsLock(m, m) /\ \A n \in Node : ~HoldsLock(m, n)'
      BY <3>1 DEF HoldsLock
    <3> QED
      BY <1>1, <3>1, <3>2, LockChange, Zenon
  <2>3. CASE LockConsumer(m)
    <3>1. PICK e \in wake[m] : /\ IsFirst(e, wake[m]) /\ lock[consumer[e]] = NoOne
                               /\ lock' = [lock EXCEPT ![consumer[e]] = m]
      BY <2>3, Zenon DEF LockConsumer
    <3>2. pc[m] = "wake" /\ pc'[m] = "wakescan" /\ wake' = wake
      BY <2>3 DEF LockConsumer, TypeOK
    <3>3. consumer[e] \in Node
      BY GraphAssumption DEF TypeOK
    <3>4. HoldsLock(m, consumer[e])'
      BY <3>1, <3>2 DEF HoldsLock, IsFirst
    <3>5. \A n \in Node : HoldsLock(m, n)' => n = consumer[e]
      <4> SUFFICES ASSUME NEW n \in Node, HoldsLock(m, n)' PROVE n = consumer[e]
        OBVIOUS
      <4>1. PICK f \in wake[m] : IsFirst(f, wake[m]) /\ consumer[f] = n
        BY <3>2 DEF HoldsLock, IsFirst
      <4>2. wake[m] \in SUBSET Edge
        BY DEF TypeOK
      <4> QED
        BY <3>1, <4>1, <4>2, FirstUnique
    <3>6. \A n \in Node : ~HoldsLock(m, n)
      BY <3>2 DEF HoldsLock
    <3> QED
      BY <1>1, <3>1, <3>3, <3>4, <3>5, <3>6, LockChange, Zenon
  <2>4. CASE SignalConsumer(m)
    <3>1. PICK e \in wake[m] : /\ IsFirst(e, wake[m])
                               /\ lock' = [lock EXCEPT ![consumer[e]] = NoOne]
      BY <2>4, Zenon DEF SignalConsumer
    <3>2. pc[m] = "wakescan" /\ pc'[m] = "wake"
      BY <2>4 DEF SignalConsumer, TypeOK
    <3>3. consumer[e] \in Node
      BY GraphAssumption DEF TypeOK
    <3>4. HoldsLock(m, consumer[e]) /\ \A n \in Node : ~HoldsLock(m, n)'
      BY <3>1, <3>2 DEF HoldsLock
    <3> QED
      BY <1>1, <3>1, <3>3, <3>4, LockChange, Zenon
  <2>5. CASE ~LockNode(m) /\ ~SlowPath(m) /\ ~WakeUp(m) /\ ~LockConsumer(m) /\ ~SignalConsumer(m)
    <3>1. lock' = lock /\ \A n \in Node : HoldsLock(m, n)' <=> HoldsLock(m, n)
      BY <1>1, <2>5, LockFrame
    <3>2. ASSUME NEW k \in Node, k # m, NEW n \in Node
          PROVE  HoldsLock(k, n)' <=> HoldsLock(k, n)
      <4>1. pc'[k] = pc[k] /\ wake'[k] = wake[k]
        BY <1>1, <3>2, LocalFrame
      <4> QED
        BY <4>1 DEF HoldsLock, IsFirst
    <3> QED
      BY <3>1, <3>2 DEF LockInv
  <2> QED
    BY <2>1, <2>2, <2>3, <2>4, <2>5
<1>2. CASE UNCHANGED vars
  BY <1>2 DEF vars, nodeVars, LockInv, HoldsLock, IsFirst
<1> QED
  BY <1>1, <1>2 DEF Next

\* So the locks are held where LockInv says, in every reachable state.
LEMMA LockInvariance == Spec => []LockInv
<1>1. Init => LockInv
  BY GraphAssumption DEF Init, LockInv, HoldsLock
<1> QED
  BY <1>1, LockInvStep, TypeCorrect, PTL DEF Spec

\* In pgm_wait_for_tokens and pgm_produce no thread ever holds two node locks, or
\* one outside the places where it scans or signals, in any graph: nothing can
\* wait in a circle, and thread_qnode serves one lock at a time.
THEOREM LocksNeverNest == Spec => []OneLockPerThread
<1>1. TypeOK /\ LockInv => OneLockPerThread
  <2> SUFFICES ASSUME TypeOK, LockInv, NEW m \in Node, NEW n1 \in Node, NEW n2 \in Node,
                      lock[n1] = m, lock[n2] = m
               PROVE  n1 = n2 /\ pc[m] \in {"rescan", "wakescan"}
    BY DEF OneLockPerThread
  <2>1. HoldsLock(m, n1) /\ HoldsLock(m, n2)
    BY DEF LockInv
  <2> QED
    BY <2>1, HoldsOne DEF HoldsLock
<1> QED
  BY <1>1, LockInvariance, TypeCorrect, PTL
=============================================================================
