CONSTANTS
  e1 = e1
  e2 = e2
  b1 = b1
  b2 = b2
  b3 = b3
  b4 = b4
  b5 = b5
  Edge = {e1, e2}
  nr_produce <- Produce
  nr_consume <- Consume
  Block <- Blocks
  None = None
SYMMETRY Sym
SPECIFICATION Spec
INVARIANTS AssignmentsAgree BuffersFit
