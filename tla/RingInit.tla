------------------------------ MODULE RingInit ------------------------------
(***************************************************************************)
(* init_ring of src/include/ring.h: how many slots a ring of at least      *)
(* min_count elements gets. A size_t has Bits bits.                        *)
(***************************************************************************)
EXTENDS Naturals, FiniteSetsExt

CONSTANT Bits  \* width of a size_t (64)

ASSUME BitsAssumption == Bits \in Nat \ {0, 1}

Word == 2 ^ Bits

\* __builtin_clzl; only asked of numbers above 0.
nleading_unset_bits(x) == Bits - 1 - Max({k \in 0 .. Bits - 1 : 2 ^ k <= x})

\* The values the expression for count may have. With the top bit of min_count - 1
\* set it shifts right by -1, which is undefined: the shift instruction masks
\* the amount to Bits - 1, a compiler that evaluates it may produce 0.
Count(n) ==
  IF n <= 2 THEN {n}
  ELSE LET lead == nleading_unset_bits(n - 1)
       IN  IF lead >= 1 THEN {2 ^ (Bits - 1) \div 2 ^ (lead - 1)} ELSE {0, 1}

\* What init_ring makes of min_count: a number of slots, or 0 where it fails.
RingSizes(n) == IF n = 0 THEN {0} ELSE Count(n)
=============================================================================
