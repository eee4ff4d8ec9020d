----------------------------- MODULE PgmBuffers -----------------------------
(***************************************************************************)
(* The buffers of data-passing edges (memory management routines of        *)
(* src/src/pgm.cpp). Each end of an edge, buf_out at the producer and      *)
(* buf_in at the consumer, has a buffer while the edge is open there, and  *)
(* the header of a buffer names the edge it is assigned to and whether it  *)
(* is the producer's. The client allocates more buffers, exchanges them    *)
(* with those of edges, exchanges those of two edges, and frees the ones   *)
(* it has. malloc does not fail.                                           *)
(***************************************************************************)
EXTENDS Naturals, FiniteSets

CONSTANTS
  Edge,
  nr_produce, nr_consume,  \* sizes of the two buffers of an edge
  Block,                   \* blocks of memory that malloc returns
  None                     \* a null pointer, or BAD_EDGE

Side == {"p", "c"}
End == Edge \X Side

VARIABLES
  buf,    \* the buffer at an end of an edge
  hdr,    \* headers of buffers; None where the block is free
  held    \* buffers that the client has and no edge uses

vars == <<buf, hdr, held>>

usersize(end) == IF end[2] = "p" THEN nr_produce[end[1]] ELSE nr_consume[end[1]]
Sizes == {usersize(end) : end \in End}

\* producer_flag is written "p" where it is set and "c" where it is not.
Header == [usersize : Sizes, assigned_edge : Edge \cup {None}, producer_flag : Side]

ASSUME BufferAssumption ==
  /\ nr_produce \in [Edge -> Nat] /\ nr_consume \in [Edge -> Nat]
  /\ None \notin Block /\ None \notin Edge /\ None \notin Header

TypeOK ==
  /\ buf \in [End -> Block \cup {None}]
  /\ hdr \in [Block -> Header \cup {None}]
  /\ held \subseteq Block

Init ==
  /\ buf = [end \in End |-> None]
  /\ hdr = [b \in Block |-> None]
  /\ held = {}
-----------------------------------------------------------------------------
IsFree(b) == hdr[b] = None

is_buf_assigned(b) == hdr[b].assigned_edge # None

\* The end of an edge to which a header says the buffer is assigned.
Assignment(b) == <<hdr[b].assigned_edge, hdr[b].producer_flag>>

\* __pgm_malloc_edge_buf, as the edge is opened at one end.
Open(end) ==
  /\ buf[end] = None
  /\ \E b \in Block :
       /\ IsFree(b)
       /\ hdr' = [hdr EXCEPT ![b] = [usersize |-> usersize(end), assigned_edge |-> end[1],
                                     producer_flag |-> end[2]]]
       /\ buf' = [buf EXCEPT ![end] = b]
  /\ UNCHANGED held

\* The edge is closed at one end, and the buffer that it has there is freed.
Close(end) ==
  /\ buf[end] # None
  /\ hdr' = [hdr EXCEPT ![buf[end]] = None]
  /\ buf' = [buf EXCEPT ![end] = None]
  /\ UNCHANGED held

\* pgm_malloc_edge_buf_p, pgm_malloc_edge_buf_c; the flag has no value yet.
Malloc(end) ==
  /\ \E b \in Block, flag \in Side :
       /\ IsFree(b)
       /\ hdr' = [hdr EXCEPT ![b] = [usersize |-> usersize(end), assigned_edge |-> None,
                                     producer_flag |-> flag]]
       /\ held' = held \cup {b}
  /\ UNCHANGED buf

\* pgm_free of a buffer that the client has. Freeing one that an edge uses only
\* draws a warning; that the client does not is its side of the contract.
Free(b) ==
  /\ b \in held
  /\ hdr' = [hdr EXCEPT ![b] = None]
  /\ held' = held \ {b}
  /\ UNCHANGED buf

\* Mutants: the flag of the new buffer is left as it is; the sizes are not
\* compared.
SwapKeepFlag(end, b) ==
  LET old == buf[end]
  IN  /\ old # None /\ b \in held /\ ~is_buf_assigned(b)
      /\ hdr[b].usersize = hdr[old].usersize
      /\ hdr' = [hdr EXCEPT ![b].assigned_edge = end[1], ![old].assigned_edge = None]
      /\ buf' = [buf EXCEPT ![end] = b]
      /\ held' = (held \ {b}) \cup {old}
SwapAnySize(end, b) ==
  LET old == buf[end]
  IN  /\ old # None /\ b \in held /\ ~is_buf_assigned(b)
      /\ hdr' = [hdr EXCEPT ![b].assigned_edge = end[1],
                            ![b].producer_flag = hdr[old].producer_flag,
                            ![old].assigned_edge = None]
      /\ buf' = [buf EXCEPT ![end] = b]
      /\ held' = (held \ {b}) \cup {old}

\* __pgm_swap_edge_buf; the client gets the old buffer. It does so only while the
\* end is open: the code reads the header of the old buffer without a test, which
\* at an end that is not open is behind a null pointer.
SwapEdgeBuf(end, b) ==
  LET old == buf[end]
  IN  /\ old # None /\ b \in held /\ ~is_buf_assigned(b)
      /\ hdr[b].usersize = hdr[old].usersize
      /\ hdr' = [hdr EXCEPT ![b].assigned_edge = end[1],
                            ![b].producer_flag = hdr[old].producer_flag,
                            ![old].assigned_edge = None]
      /\ buf' = [buf EXCEPT ![end] = b]
      /\ held' = (held \ {b}) \cup {old}

\* pgm_swap_edge_bufs: the edges find each other's buffers through the headers,
\* then the headers change places.
SwapEdgeBufs(a, b) ==
  /\ a # b /\ ~IsFree(a) /\ ~IsFree(b)
  /\ is_buf_assigned(a) /\ is_buf_assigned(b)
  /\ hdr[a].usersize = hdr[b].usersize
  /\ buf' = [buf EXCEPT ![Assignment(a)] = buf[Assignment(b)],
                        ![Assignment(b)] = buf[Assignment(a)]]
  /\ hdr' = [hdr EXCEPT ![a] = hdr[b], ![b] = hdr[a]]
  /\ UNCHANGED held

Next ==
  \/ \E end \in End : Open(end) \/ Close(end) \/ Malloc(end)
                      \/ \E b \in Block : SwapEdgeBuf(end, b)
  \/ \E b \in Block : Free(b)
  \/ \E a, b \in Block : SwapEdgeBufs(a, b)

Spec == Init /\ [][Next]_vars
-----------------------------------------------------------------------------
\* The edges and the headers agree on who has which buffer, no buffer is at two
\* ends, and none is lost: a block in use is at an end or with the client. So
\* closing an edge frees its own buffer, once, however buffers were exchanged.
AssignmentsAgree ==
  /\ \A end \in End : buf[end] # None => /\ ~IsFree(buf[end])
                                         /\ Assignment(buf[end]) = end
  /\ \A b \in Block : ~IsFree(b) => (b \in held) # (\E end \in End : buf[end] = b)

\* A buffer at an end has the size that a message written or read there needs.
BuffersFit == \A end \in End : buf[end] # None => hdr[buf[end]].usersize = usersize(end)

\* The inductive invariant that both follow from: what a buffer is like that is
\* at an end, that is with the client, and that is in use at all.
EndOK(end) ==
  buf[end] # None => /\ ~IsFree(buf[end])
                     /\ hdr[buf[end]].assigned_edge = end[1]
                     /\ hdr[buf[end]].producer_flag = end[2]
                     /\ hdr[buf[end]].usersize = usersize(end)
HeldOK(b) == b \in held => ~IsFree(b) /\ ~is_buf_assigned(b)
UsedOK(b) == ~IsFree(b) /\ b \notin held => \E end \in End : buf[end] = b
BufferInv ==
  /\ TypeOK
  /\ \A end \in End : EndOK(end)
  /\ \A b \in Block : HeldOK(b) /\ UsedOK(b)
=============================================================================
