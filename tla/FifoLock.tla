------------------------------ MODULE FifoLock ------------------------------
(***************************************************************************)
(* What a spinlock of PGM promises: threads stand in line and only the one *)
(* at the head of the line is in the critical section.                     *)
(***************************************************************************)
EXTENDS Sequences

CONSTANT Thread

VARIABLES
  line,   \* the threads that hold or wait for the lock, in order of arrival
  inside  \* the threads in the critical section

vars == <<line, inside>>

Init == line = <<>> /\ inside = {}

Arrive(t) == line' = Append(line, t) /\ UNCHANGED inside

Enter(t) ==
  /\ line # <<>> /\ Head(line) = t /\ inside = {}
  /\ inside' = {t}
  /\ UNCHANGED line

\* A thread that finds nobody in line enters at once.
EnterFree(t) == line = <<>> /\ line' = <<t>> /\ inside' = {t}

Leave(t) ==
  /\ inside = {t}
  /\ inside' = {}
  /\ line' = Tail(line)

Next == \E t \in Thread : Arrive(t) \/ Enter(t) \/ EnterFree(t) \/ Leave(t)

Spec == Init /\ [][Next]_vars
=============================================================================
