------------------------------ MODULE QueueLock ------------------------------
(***************************************************************************)
(* The queue lock (MCS lock) of src/include/queuelock.h, the other         *)
(* spinlock_t of PGM. Every thread has one queue node, its thread_qnode,   *)
(* which it uses again for every acquisition.                              *)
(***************************************************************************)
EXTENDS Sequences

CONSTANTS Thread, NULL

VARIABLES
  tail,     \* q->tail: the thread whose node it points to, or NULL
  next,     \* self->next of every node
  blocked,  \* self->blocked of every node
  pc,       \* where each thread is
  prev,     \* the local variable of __ql_lock
  line      \* history: the threads in the queue, in the order they entered it

vars == <<tail, next, blocked, pc, prev, line>>

TypeOK ==
  /\ tail \in Thread \cup {NULL}
  /\ next \in [Thread -> Thread \cup {NULL}]
  /\ blocked \in [Thread -> BOOLEAN]
  /\ pc \in [Thread -> {"idle", "read", "swap", "link", "spin", "inside", "swing",
                        "await", "hand"}]
  /\ prev \in [Thread -> Thread \cup {NULL}]
  /\ line \in Seq(Thread)

Init ==
  /\ tail = NULL
  /\ next = [t \in Thread |-> NULL] /\ blocked = [t \in Thread |-> FALSE]
  /\ pc = [t \in Thread |-> "idle"] /\ prev = [t \in Thread |-> NULL]
  /\ line = <<>>

Goto(t, label) == pc' = [pc EXCEPT ![t] = label]
-----------------------------------------------------------------------------
(***************************************************************************)
(* __ql_lock.                                                              *)
(***************************************************************************)

\* Sets up the node, which no other thread can reach yet, and reads the tail.
Prepare(t) ==
  /\ pc[t] = "idle" /\ Goto(t, "swap")
  /\ next' = [next EXCEPT ![t] = NULL]
  /\ blocked' = [blocked EXCEPT ![t] = TRUE]
  /\ prev' = [prev EXCEPT ![t] = tail]
  /\ UNCHANGED <<tail, line>>

\* Another turn of the enqueue loop.
ReadTail(t) ==
  /\ pc[t] = "read" /\ Goto(t, "swap")
  /\ prev' = [prev EXCEPT ![t] = tail]
  /\ UNCHANGED <<tail, next, blocked, line>>

\* The compare-and-swap of the enqueue loop.
SwapTail(t) ==
  /\ pc[t] = "swap"
  /\ \/ /\ tail = prev[t]
        /\ tail' = t /\ line' = Append(line, t)
        /\ Goto(t, IF prev[t] = NULL THEN "inside" ELSE "link")
     \/ /\ tail # prev[t]
        /\ Goto(t, "read") /\ UNCHANGED <<tail, line>>
  /\ UNCHANGED <<next, blocked, prev>>

\* "tell the one ahead of us about ourselves"; the last use of prev.
Link(t) ==
  /\ pc[t] = "link" /\ Goto(t, "spin")
  /\ next' = [next EXCEPT ![prev[t]] = t]
  /\ prev' = [prev EXCEPT ![t] = NULL]
  /\ UNCHANGED <<tail, blocked, line>>

EndSpin(t) ==
  /\ pc[t] = "spin" /\ ~blocked[t] /\ Goto(t, "inside")
  /\ UNCHANGED <<tail, next, blocked, prev, line>>
-----------------------------------------------------------------------------
(***************************************************************************)
(* __ql_unlock.                                                            *)
(***************************************************************************)

\* The first look at self->next.
Unlock(t) ==
  /\ pc[t] = "inside"
  /\ Goto(t, IF next[t] = NULL THEN "swing" ELSE "hand")
  /\ UNCHANGED <<tail, next, blocked, prev, line>>

\* Mutant: a thread that is no longer last leaves without a successor.
SwingAndGo(t) ==
  /\ pc[t] = "swing" /\ Goto(t, "idle") /\ line' = Tail(line)
  /\ tail' = IF tail = t THEN NULL ELSE tail
  /\ UNCHANGED <<next, blocked, prev>>

\* "try to dequeue from the end of the line"
Swing(t) ==
  /\ pc[t] = "swing"
  /\ \/ /\ tail = t
        /\ tail' = NULL /\ line' = Tail(line) /\ Goto(t, "idle")
     \/ /\ tail # t
        /\ Goto(t, "await") /\ UNCHANGED <<tail, line>>
  /\ UNCHANGED <<next, blocked, prev>>

\* "wait until the one behind us tells us where they are"
Await(t) ==
  /\ pc[t] = "await" /\ next[t] # NULL /\ Goto(t, "hand")
  /\ UNCHANGED <<tail, next, blocked, prev, line>>

\* "tell the next one behind us that they may go"
HandOver(t) ==
  /\ pc[t] = "hand" /\ Goto(t, "idle")
  /\ blocked' = [blocked EXCEPT ![next[t]] = FALSE]
  /\ line' = Tail(line)
  /\ UNCHANGED <<tail, next, prev>>
-----------------------------------------------------------------------------
ql_lock(t) == Prepare(t) \/ ReadTail(t) \/ SwapTail(t) \/ Link(t) \/ EndSpin(t)
ql_unlock(t) == Unlock(t) \/ Swing(t) \/ Await(t) \/ HandOver(t)
-----------------------------------------------------------------------------
Inside == {t \in Thread : pc[t] \in {"inside", "swing", "await", "hand"}}
=============================================================================
