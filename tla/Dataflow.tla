------------------------------ MODULE Dataflow ------------------------------
(***************************************************************************)
(* What PGM promises about tokens, without threads, locks or signals: a    *)
(* node fires in one step, only when every inbound edge holds its          *)
(* threshold or is being skipped; each firing then adds tokens once to     *)
(* every outbound edge; and a node stops after the producers of its        *)
(* forward edges have stopped, and never produces again.                   *)
(***************************************************************************)
EXTENDS Integers

CONSTANTS Node, Edge, producer, consumer, nr_produce, nr_consume, nr_threshold,
          nr_init, BackEdge, init_skips

VARIABLES
  tokens,  \* tokens on each edge
  skips,   \* firings for which the edge is still skipped
  phase,   \* "idle", "running" or "stopped", per node
  owed     \* outbound edges a running node has yet to produce on

vars == <<tokens, skips, phase, owed>>

In(n) == {e \in Edge : consumer[e] = n}
Out(n) == {e \in Edge : producer[e] = n}
Forward(n) == In(n) \ BackEdge

Init ==
  /\ tokens = nr_init
  /\ skips = init_skips
  /\ phase = [n \in Node |-> "idle"]
  /\ owed = [n \in Node |-> {}]

\* Skips of the inbound edges are used up by every firing and by stopping.
UseSkips(n) ==
  [e \in Edge |-> IF e \in In(n) /\ skips[e] > 0 THEN skips[e] - 1 ELSE skips[e]]

Fire(n) ==
  /\ phase[n] = "idle"
  /\ \A e \in In(n) : skips[e] > 0 \/ tokens[e] >= nr_threshold[e]
  /\ tokens' = [e \in Edge |-> IF e \in In(n) /\ skips[e] = 0
                                 THEN tokens[e] - nr_consume[e] ELSE tokens[e]]
  /\ skips' = UseSkips(n)
  /\ phase' = [phase EXCEPT ![n] = "running"]
  /\ owed' = [owed EXCEPT ![n] = Out(n)]

Produce(n) ==
  /\ phase[n] = "running"
  /\ \E e \in owed[n] :
       /\ tokens' = [tokens EXCEPT ![e] = @ + nr_produce[e]]
       /\ owed' = [owed EXCEPT ![n] = @ \ {e}]
  /\ UNCHANGED <<skips, phase>>

Finish(n) ==
  /\ phase[n] = "running" /\ owed[n] = {}
  /\ phase' = [phase EXCEPT ![n] = "idle"]
  /\ UNCHANGED <<tokens, skips, owed>>

\* Only a node without forward inbound edges stops of its own accord, in place
\* of producing.
StopSource(n) ==
  /\ phase[n] = "running" /\ Forward(n) = {} /\ owed[n] = Out(n)
  /\ phase' = [phase EXCEPT ![n] = "stopped"]
  /\ owed' = [owed EXCEPT ![n] = {}]
  /\ UNCHANGED <<tokens, skips>>

StopAfterProducers(n) ==
  /\ phase[n] = "idle" /\ Forward(n) # {}
  /\ \A e \in Forward(n) : phase[producer[e]] = "stopped"
  /\ phase' = [phase EXCEPT ![n] = "stopped"]
  /\ skips' = UseSkips(n)
  /\ UNCHANGED <<tokens, owed>>

Next == \E n \in Node : Fire(n) \/ Produce(n) \/ Finish(n) \/ StopSource(n)
                          \/ StopAfterProducers(n)

Spec == Init /\ [][Next]_vars
=============================================================================
