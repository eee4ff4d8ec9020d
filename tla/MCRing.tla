------------------------------- MODULE MCRing -------------------------------
(***************************************************************************)
(* A small ring, and the rounding of init_ring over all its arguments.     *)
(***************************************************************************)
EXTENDS PgmRing

\* "value is rounded UP to nearest power of two": whatever min_count init_ring is
\* asked for, up to the largest power of two that a size_t holds, it makes the
\* next power of two. The slots then divide the range of a size_t, so that the
\* indices wrap without leaving a gap.
ASSUME RoundsUp ==
  \A n \in 1 .. 2 ^ (Bits - 1) : \A count \in RingSizes(n) :
    /\ \E k \in 0 .. Bits - 1 : count = 2 ^ k
    /\ n <= count /\ count < 2 * n
=============================================================================
