------------------------------ MODULE SpinLock ------------------------------
(***************************************************************************)
(* spinlock_t of src/include/spinlock.h: a build uses the ticket lock or   *)
(* the queue lock. Threads lock and unlock in steps, between which other   *)
(* threads run; a module that uses the lock says when a thread does so.    *)
(***************************************************************************)
EXTENDS Naturals, Sequences, FiniteSets

CONSTANTS
  Thread,
  Tickets,  \* number of values of a ticketid_t (2^32, or 2^16)
  NULL

ASSUME TicketAssumption ==
  /\ IsFiniteSet(Thread)
  /\ Tickets \in Nat \ {0}
  /\ Cardinality(Thread) <= Tickets

ASSUME NullAssumption == NULL \notin Thread

VARIABLES
  kind,                                     \* PGM_SPINLOCK_TYPE
  owner, tnext, tpc, ticket,                \* the ticket lock
  tail, qnext, blocked, qpc, prev, line     \* the queue lock

ticketVars == <<owner, tnext, tpc, ticket>>
queueVars == <<tail, qnext, blocked, qpc, prev, line>>
lockVars == <<kind, ticketVars, queueVars>>

T == INSTANCE TicketLock WITH next <- tnext, pc <- tpc
Q == INSTANCE QueueLock WITH next <- qnext, pc <- qpc

LockTypeOK == kind \in {"ticket", "queue"} /\ T!TypeOK /\ Q!TypeOK

LockInit == kind \in {"ticket", "queue"} /\ T!Init /\ Q!Init

\* A step of spin_lock and one of spin_unlock.
spin_lock(t) ==
  \/ kind = "ticket" /\ T!tl_lock(t) /\ UNCHANGED <<kind, queueVars>>
  \/ kind = "queue" /\ Q!ql_lock(t) /\ UNCHANGED <<kind, ticketVars>>

spin_unlock(t) ==
  \/ kind = "ticket" /\ T!tl_unlock(t) /\ UNCHANGED <<kind, queueVars>>
  \/ kind = "queue" /\ Q!ql_unlock(t) /\ UNCHANGED <<kind, ticketVars>>

\* Has spin_lock, or spin_unlock, returned?
Holds(t) == "inside" \in {tpc[t], qpc[t]}
Free(t) == tpc[t] = "idle" /\ qpc[t] = "idle"
-----------------------------------------------------------------------------
Fifo == INSTANCE FifoLock
  WITH line <- IF kind = "ticket" THEN T!Line ELSE line,
       inside <- IF kind = "ticket" THEN T!Inside ELSE Q!Inside

\* lock and unlock of either kind admit one thread at a time, first come first
\* served: by ticket although the tickets wrap (tl_lock), or in the order in
\* which the threads swapped themselves into the tail although every thread uses
\* its queue node again and again (ql_lock).
ImplementsFifoLock == Fifo!Spec

\* A thread that has taken a ticket in __tl_lock, or that __ql_lock has put into
\* the queue, gets the lock: no ticket is passed over, and no hand-over is lost
\* between a leaving thread and the one that is just linking itself.
EveryWaiterEnters ==
  \A t \in Thread : tpc[t] = "spin" \/ qpc[t] = "link" ~> Holds(t)
=============================================================================
