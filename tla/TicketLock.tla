----------------------------- MODULE TicketLock -----------------------------
(***************************************************************************)
(* The ticket lock of src/include/ticketlock.h, a spinlock_t of PGM. The   *)
(* two halves of the lock word wrap independently.                         *)
(***************************************************************************)
EXTENDS Naturals, FiniteSets

CONSTANTS
  Thread,
  Tickets  \* number of values of a ticketid_t (2^32, or 2^16)

VARIABLES
  owner, next,  \* t->owner and t->next
  pc,           \* where each thread is
  ticket        \* updated.next of each thread's __tl_lock

vars == <<owner, next, pc, ticket>>

TypeOK ==
  /\ owner \in 0 .. Tickets - 1 /\ next \in 0 .. Tickets - 1
  /\ pc \in [Thread -> {"idle", "spin", "inside"}]
  /\ ticket \in [Thread -> 0 .. Tickets - 1]

Init ==
  /\ owner = 0 /\ next = 0
  /\ pc = [t \in Thread |-> "idle"] /\ ticket = [t \in Thread |-> 0]

\* The fetch-and-add of __tl_lock returns both halves at one moment.
TakeTicket(t) ==
  /\ pc[t] = "idle"
  /\ ticket' = [ticket EXCEPT ![t] = next]
  /\ next' = (next + 1) % Tickets
  /\ pc' = [pc EXCEPT ![t] = IF next = owner THEN "inside" ELSE "spin"]
  /\ UNCHANGED owner

\* Mutant: waits until owner has reached the ticket or passed it.
EnterPassed(t) ==
  /\ pc[t] = "spin" /\ ticket[t] <= owner
  /\ pc' = [pc EXCEPT ![t] = "inside"]
  /\ UNCHANGED <<owner, next, ticket>>

\* The spinning loop ends.
Enter(t) ==
  /\ pc[t] = "spin" /\ ticket[t] = owner
  /\ pc' = [pc EXCEPT ![t] = "inside"]
  /\ UNCHANGED <<owner, next, ticket>>

\* __tl_unlock adds to the owner half alone, so no carry reaches next. The
\* ticket was a local variable.
Leave(t) ==
  /\ pc[t] = "inside"
  /\ owner' = (owner + 1) % Tickets
  /\ pc' = [pc EXCEPT ![t] = "idle"]
  /\ ticket' = [ticket EXCEPT ![t] = 0]
  /\ UNCHANGED next

tl_lock(t) == TakeTicket(t) \/ Enter(t)
tl_unlock(t) == Leave(t)
-----------------------------------------------------------------------------
\* The threads in line, by ticket.
InLine == {t \in Thread : pc[t] # "idle"}

Line ==
  [k \in 1 .. Cardinality(InLine) |->
     CHOOSE t \in InLine : ticket[t] = (owner + k - 1) % Tickets]

Inside == {t \in Thread : pc[t] = "inside"}
=============================================================================
