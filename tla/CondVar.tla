------------------------------ MODULE CondVar ------------------------------
(***************************************************************************)
(* cv_wait and cv_signal of src/include/condvar.h over a futex, used as    *)
(* pgm_wait_for_tokens and pgm_produce use them: a waiter looks for work   *)
(* under the lock and waits when there is none; a signaller adds work      *)
(* without the lock and then signals under it.                             *)
(***************************************************************************)
EXTENDS SpinLock

CONSTANTS
  Waiters,     \* sets of threads that may be the waiters; the others signal
  Seqs,        \* number of values of a seq_t (2^32)
  MaxSignals   \* bound: pieces of work added

ASSUME CondVarAssumption ==
  /\ Waiters \subseteq SUBSET Thread
  /\ Seqs \in Nat \ {0} /\ MaxSignals \in Nat

VARIABLES
  Waiter,   \* the threads that wait
  seq,      \* cv->seq, which wraps
  waiters,  \* cv->waiters
  asleep,   \* the threads asleep in the futex (kernel)
  work,     \* work to be done, what the waiters wait for
  pc,       \* where each thread is
  myseq,    \* per waiter, the local copy of seq in cv_wait
  given     \* pieces of work added

cvVars == <<seq, waiters, asleep, work, myseq, given>>
vars == <<Waiter, lockVars, cvVars, pc>>

Signaller == Thread \ Waiter

TypeOK ==
  /\ LockTypeOK
  /\ Waiter \in Waiters
  /\ seq \in 0 .. Seqs - 1 /\ waiters \in Nat /\ work \in Nat
  /\ asleep \subseteq Waiter
  /\ pc \in [Thread -> {"idle", "unlock", "cv_unlock", "futex", "relock",  \* a waiter
                        "lock", "wake"}]                                   \* a signaller
  /\ myseq \in [Thread -> 0 .. Seqs - 1] /\ given \in 0 .. MaxSignals

Init ==
  /\ LockInit
  /\ Waiter \in Waiters
  /\ seq = 0 /\ waiters = 0 /\ asleep = {} /\ work = 0
  /\ pc = [t \in Thread |-> "idle"]
  /\ myseq = [t \in Thread |-> 0] /\ given = 0

Goto(t, label) == pc' = [pc EXCEPT ![t] = label]
-----------------------------------------------------------------------------
(***************************************************************************)
(* The spinlock around the condition variable.                             *)
(***************************************************************************)

\* At these places a thread calls spin_lock, or spin_unlock.
Locks(t) == pc[t] \in {"relock", "lock"} \/ (t \in Waiter /\ pc[t] = "idle")
Unlocks(t) == pc[t] \in {"unlock", "cv_unlock"}

Lock(t) ==
  /\ Locks(t) /\ ~Holds(t)
  /\ spin_lock(t)
  /\ UNCHANGED <<cvVars, pc>>

\* Where a thread goes on when it has unlocked.
UnlockStep(t) ==
  /\ Unlocks(t)
  /\ spin_unlock(t)
  /\ Goto(t, IF ~Free(t)' THEN pc[t] ELSE IF pc[t] = "unlock" THEN "idle" ELSE "futex")
  /\ UNCHANGED cvVars
-----------------------------------------------------------------------------
(***************************************************************************)
(* A waiter: pgm_wait_for_tokens around cv_wait.                           *)
(***************************************************************************)

\* There is work: take it and unlock.
TakeWork(t) ==
  /\ pc[t] = "idle" /\ Holds(t) /\ work > 0
  /\ work' = work - 1 /\ Goto(t, "unlock")
  /\ UNCHANGED <<lockVars, seq, waiters, asleep, myseq, given>>

\* Mutant: waiters is counted up, seq is read when the lock has been released.
BeginWaitLate(t) ==
  \/ /\ pc[t] = "idle" /\ Holds(t) /\ work = 0
     /\ waiters' = waiters + 1 /\ Goto(t, "cv_unlock")
     /\ UNCHANGED <<lockVars, seq, asleep, work, myseq, given>>
  \/ /\ pc[t] = "futex" /\ t \notin asleep
     /\ myseq' = [myseq EXCEPT ![t] = seq]
     /\ asleep' = asleep \cup {t}
     /\ UNCHANGED <<lockVars, seq, waiters, work, given, pc>>

\* cv_wait up to the unlock. cv->waiters and cv->seq change only under the lock.
BeginWait(t) ==
  /\ pc[t] = "idle" /\ Holds(t) /\ work = 0
  /\ myseq' = [myseq EXCEPT ![t] = seq]
  /\ waiters' = waiters + 1
  /\ Goto(t, "cv_unlock")
  /\ UNCHANGED <<lockVars, seq, asleep, work, given>>

\* FUTEX_WAIT sleeps only if seq still has the value that was read.
FutexWait(t) ==
  /\ pc[t] = "futex" /\ t \notin asleep
  /\ IF seq = myseq[t] THEN asleep' = asleep \cup {t} /\ UNCHANGED pc
                       ELSE Goto(t, "relock") /\ UNCHANGED asleep
  /\ UNCHANGED <<lockVars, seq, waiters, work, myseq, given>>

\* A signal handler or the kernel may end the sleep without a FUTEX_WAKE.
Interrupt(t) ==
  /\ t \in asleep
  /\ asleep' = asleep \ {t} /\ Goto(t, "relock")
  /\ UNCHANGED <<lockVars, seq, waiters, work, myseq, given>>

\* The rest of cv_wait.
EndWait(t) ==
  /\ pc[t] = "relock" /\ Holds(t)
  /\ waiters' = waiters - 1 /\ Goto(t, "idle")
  /\ myseq' = [myseq EXCEPT ![t] = 0]
  /\ UNCHANGED <<lockVars, seq, asleep, work, given>>
-----------------------------------------------------------------------------
(***************************************************************************)
(* A signaller: pgm_produce around cv_signal.                              *)
(***************************************************************************)

GiveWork(t) ==
  /\ pc[t] = "idle" /\ given < MaxSignals
  /\ given' = given + 1
  /\ work' = work + 1 /\ Goto(t, "lock")
  /\ UNCHANGED <<lockVars, seq, waiters, asleep, myseq>>

\* Mutant: seq is left alone.
SignalSilently(t) ==
  /\ pc[t] = "lock" /\ Holds(t)
  /\ Goto(t, IF work > 0 /\ waiters > 0 THEN "wake" ELSE "unlock")
  /\ UNCHANGED <<lockVars, cvVars>>

\* If there is still work, cv_signal: look at waiters and count up seq.
BumpSeq(t) ==
  /\ pc[t] = "lock" /\ Holds(t)
  /\ IF work > 0 /\ waiters > 0
       THEN seq' = (seq + 1) % Seqs /\ Goto(t, "wake")
       ELSE Goto(t, "unlock") /\ UNCHANGED seq
  /\ UNCHANGED <<lockVars, waiters, asleep, work, myseq, given>>

\* FUTEX_WAKE of one thread.
FutexWake(t) ==
  /\ pc[t] = "wake"
  /\ \/ /\ asleep = {}
        /\ Goto(t, "unlock") /\ UNCHANGED asleep
     \/ \E w \in asleep :
          /\ asleep' = asleep \ {w}
          /\ pc' = [pc EXCEPT ![t] = "unlock", ![w] = "relock"]
  /\ UNCHANGED <<lockVars, seq, waiters, work, myseq, given>>
-----------------------------------------------------------------------------
Step(t) ==
  /\ \/ Lock(t) \/ UnlockStep(t)
     \/ t \in Waiter /\ (TakeWork(t) \/ BeginWait(t) \/ FutexWait(t) \/ EndWait(t))
     \/ t \in Signaller /\ (GiveWork(t) \/ BumpSeq(t) \/ FutexWake(t))
  /\ UNCHANGED Waiter

Next == \/ \E t \in Thread : Step(t)
        \/ \E t \in Waiter : Interrupt(t) /\ UNCHANGED Waiter

\* Threads keep running; nothing has to interrupt a sleeper. The loop in which a
\* thread enters the queue of the queue lock may lose every race.
\* This is the weak fairness of Step(t), of which CanStep is the guard.
CanStep(t) ==
  /\ t \notin asleep
  /\ ~(tpc[t] = "spin" /\ ticket[t] # owner)
  /\ ~(qpc[t] = "spin" /\ blocked[t])
  /\ ~(qpc[t] = "await" /\ qnext[t] = NULL)
  /\ ~(t \in Signaller /\ pc[t] = "idle" /\ given = MaxSignals)

Fairness == \A t \in Thread : []<>(~CanStep(t)) \/ []<><<Step(t)>>_vars

Spec == Init /\ [][Next]_vars /\ Fairness
-----------------------------------------------------------------------------
\* No signal is lost between the moment a waiter finds no work and the moment it
\* sleeps: when there is work and all waiters are asleep, or about to be for
\* good, some signaller is still on its way to them.
NoLostSignal ==
  (/\ work > 0
   /\ \A t \in Waiter : pc[t] \in {"cv_unlock", "futex"} /\ seq = myseq[t])
  => \E t \in Signaller : pc[t] \in {"lock", "wake"}

\* All work is done in the end, over either lock: cv_wait sleeps only while a
\* signal is still to come, and a woken thread gets the lock again.
AllWorkIsDone == <>[](work = 0)
=============================================================================
