-------------------------- MODULE PgmBuffersProofs --------------------------
(***************************************************************************)
(* Proofs about PgmBuffers, for any edges, sizes and blocks of memory.     *)
(***************************************************************************)
EXTENDS PgmBuffers, TLAPS

USE BufferAssumption DEF Side, End

\* A header made for an end is a header, and so not a null pointer.
LEMMA HeaderType ==
  ASSUME NEW end \in End, NEW a \in Edge \cup {None}, NEW f \in Side
  PROVE  /\ [usersize |-> usersize(end), assigned_edge |-> a, producer_flag |-> f] \in Header
         /\ [usersize |-> usersize(end), assigned_edge |-> a, producer_flag |-> f] # None
<1>1. usersize(end) \in Sizes BY DEF Sizes
<1>2. [usersize |-> usersize(end), assigned_edge |-> a, producer_flag |-> f] \in Header
  BY <1>1 DEF Header
<1> QED BY <1>2

\* The buffer at an end is in use, names the end and is not the client's.
LEMMA AtEnd ==
  ASSUME BufferInv, NEW x \in End, buf[x] # None
  PROVE  /\ buf[x] \in Block /\ buf[x] \notin held
         /\ hdr[buf[x]] \in Header /\ hdr[buf[x]] # None
         /\ hdr[buf[x]].assigned_edge = x[1] /\ hdr[buf[x]].producer_flag = x[2]
         /\ hdr[buf[x]].usersize = usersize(x) /\ Assignment(buf[x]) = x
<1>1. EndOK(x) /\ buf[x] \in Block BY DEF BufferInv, TypeOK
<1>2. /\ hdr[buf[x]] # None
      /\ hdr[buf[x]].assigned_edge = x[1] /\ hdr[buf[x]].producer_flag = x[2]
      /\ hdr[buf[x]].usersize = usersize(x)
  BY <1>1 DEF EndOK, IsFree
<1>3. hdr[buf[x]] \in Header BY <1>1, <1>2 DEF BufferInv, TypeOK
<1>4. x[1] # None OBVIOUS
<1>5. HeldOK(buf[x]) BY <1>1 DEF BufferInv
<1>6. buf[x] \notin held BY <1>2, <1>4, <1>5 DEF HeldOK, is_buf_assigned
<1>7. Assignment(buf[x]) = x BY <1>2 DEF Assignment
<1> QED BY <1>1, <1>2, <1>3, <1>6, <1>7

\* Two ends never share a buffer, since its header names one of them.
LEMMA OneEnd ==
  ASSUME BufferInv, NEW x \in End, NEW y \in End, buf[x] # None, buf[x] = buf[y]
  PROVE  x = y
BY AtEnd

\* A buffer that its header calls assigned is at the end that the header names.
LEMMA AssignedAtEnd ==
  ASSUME BufferInv, NEW b \in Block, ~IsFree(b), is_buf_assigned(b)
  PROVE  Assignment(b) \in End /\ buf[Assignment(b)] = b
<1>1. HeldOK(b) /\ UsedOK(b) BY DEF BufferInv
<1>2. PICK x \in End : buf[x] = b BY <1>1 DEF HeldOK, UsedOK
<1>3. Assignment(b) = x BY <1>2, AtEnd
<1> QED BY <1>2, <1>3

\* An operation preserves what is said of an end when it changes neither the
\* buffer there nor the header of that buffer.
LEMMA EndFrame ==
  ASSUME NEW x \in End, EndOK(x), buf'[x] = buf[x],
         buf[x] # None => hdr'[buf[x]] = hdr[buf[x]]
  PROVE  EndOK(x)'
BY DEF EndOK, IsFree

\* No block is in use in the initial state.
LEMMA BufferInit == Init => BufferInv
BY DEF Init, BufferInv, TypeOK, IsFree, EndOK, HeldOK, UsedOK

\* Opening an edge puts a block at one end that was free.
LEMMA OpenStep ==
  ASSUME BufferInv, NEW end \in End, Open(end) PROVE BufferInv'
<1> DEFINE h == [usersize |-> usersize(end), assigned_edge |-> end[1], producer_flag |-> end[2]]
<1>1. PICK b \in Block : hdr[b] = None /\ hdr' = [hdr EXCEPT ![b] = h]
                         /\ buf' = [buf EXCEPT ![end] = b]
  BY DEF Open, IsFree
<1>2. held' = held /\ buf[end] = None BY DEF Open
<1>3. h \in Header /\ h # None BY HeaderType
<1>4. b \notin held BY <1>1 DEF BufferInv, HeldOK, IsFree
<1>5. \A x \in End : buf[x] # b BY <1>1, AtEnd
<1>6. buf \in [End -> Block \cup {None}] /\ hdr \in [Block -> Header \cup {None}]
  BY DEF BufferInv, TypeOK
<1>7. TypeOK' BY <1>1, <1>2, <1>3, <1>6 DEF BufferInv, TypeOK
<1>8. ASSUME NEW x \in End PROVE EndOK(x)'
  <2>1. CASE x = end
    <3>1. buf'[x] = b /\ hdr'[b] = h BY <1>1, <1>6, <2>1
    <3> QED BY <3>1, <1>3, <2>1 DEF EndOK, IsFree
  <2>2. CASE x # end
    <3>1. buf'[x] = buf[x] /\ buf[x] # b BY <1>1, <1>5, <1>6, <2>2
    <3>2. buf[x] # None => hdr'[buf[x]] = hdr[buf[x]] BY <1>1, <1>6, <3>1
    <3>3. EndOK(x) BY DEF BufferInv
    <3> QED BY <3>1, <3>2, <3>3, EndFrame
  <2> QED BY <2>1, <2>2
<1>9. ASSUME NEW c \in Block PROVE HeldOK(c)' /\ UsedOK(c)'
  <2>1. HeldOK(c) /\ UsedOK(c) BY DEF BufferInv
  <2>2. CASE c = b
    <3>1. buf'[end] = b BY <1>1, <1>6
    <3> QED BY <1>2, <1>4, <2>2, <3>1 DEF HeldOK, UsedOK
  <2>3. CASE c # b
    <3>1. hdr'[c] = hdr[c] BY <1>1, <1>6, <2>3
    <3>2. \A x \in End : buf[x] = c => buf'[x] = c BY <1>1, <1>2, <1>6
    <3> QED BY <1>2, <2>1, <3>1, <3>2 DEF HeldOK, UsedOK, IsFree, is_buf_assigned
  <2> QED BY <2>2, <2>3
<1> QED BY <1>7, <1>8, <1>9 DEF BufferInv

\* Closing an edge frees the block at that end and no other.
LEMMA CloseStep ==
  ASSUME BufferInv, NEW end \in End, Close(end) PROVE BufferInv'
<1> DEFINE b == buf[end]
<1>1. b # None /\ hdr' = [hdr EXCEPT ![b] = None] /\ buf' = [buf EXCEPT ![end] = None]
      /\ held' = held
  BY DEF Close
<1>2. b \in Block /\ b \notin held BY <1>1, AtEnd
<1>3. buf \in [End -> Block \cup {None}] /\ hdr \in [Block -> Header \cup {None}]
  BY DEF BufferInv, TypeOK
<1>4. TypeOK' BY <1>1, <1>2, <1>3 DEF BufferInv, TypeOK
<1>5. ASSUME NEW x \in End PROVE EndOK(x)'
  <2>1. CASE x = end
    BY <1>1, <1>3, <2>1 DEF EndOK
  <2>2. CASE x # end
    <3>1. buf'[x] = buf[x] BY <1>1, <1>3, <2>2
    <3>2. buf[x] # None => buf[x] # b BY <1>1, <2>2, OneEnd
    <3>3. buf[x] # None => hdr'[buf[x]] = hdr[buf[x]] BY <1>1, <1>3, <3>2
    <3>4. EndOK(x) BY DEF BufferInv
    <3> QED BY <3>1, <3>3, <3>4, EndFrame
  <2> QED BY <2>1, <2>2
<1>6. ASSUME NEW c \in Block PROVE HeldOK(c)' /\ UsedOK(c)'
  <2>1. HeldOK(c) /\ UsedOK(c) BY DEF BufferInv
  <2>2. CASE c = b
    <3>1. hdr'[c] = None BY <1>1, <1>2, <1>3, <2>2
    <3> QED BY <1>1, <1>2, <2>2, <3>1 DEF HeldOK, UsedOK, IsFree
  <2>3. CASE c # b
    <3>1. hdr'[c] = hdr[c] BY <1>1, <1>3, <2>3
    <3>2. \A x \in End : buf[x] = c => buf'[x] = c BY <1>1, <1>3, <2>3
    <3> QED BY <1>1, <2>1, <3>1, <3>2 DEF HeldOK, UsedOK, IsFree, is_buf_assigned
  <2> QED BY <2>2, <2>3
<1> QED BY <1>4, <1>5, <1>6 DEF BufferInv

\* A new buffer is the client's.
LEMMA MallocStep ==
  ASSUME BufferInv, NEW end \in End, Malloc(end) PROVE BufferInv'
<1>1. PICK b \in Block, flag \in Side :
        /\ hdr[b] = None
        /\ hdr' = [hdr EXCEPT ![b] = [usersize |-> usersize(end), assigned_edge |-> None,
                                      producer_flag |-> flag]]
        /\ held' = held \cup {b}
  BY DEF Malloc, IsFree
<1> DEFINE h == [usersize |-> usersize(end), assigned_edge |-> None, producer_flag |-> flag]
<1>2. buf' = buf BY DEF Malloc
<1>3. h \in Header /\ h # None BY HeaderType
<1>4. \A x \in End : buf[x] # b BY <1>1, AtEnd
<1>5. hdr \in [Block -> Header \cup {None}] BY DEF BufferInv, TypeOK
<1>6. TypeOK' BY <1>1, <1>2, <1>3, <1>5 DEF BufferInv, TypeOK
<1>7. ASSUME NEW x \in End PROVE EndOK(x)'
  <2>1. buf[x] # None => hdr'[buf[x]] = hdr[buf[x]] BY <1>1, <1>4, <1>5, AtEnd
  <2>2. EndOK(x) BY DEF BufferInv
  <2> QED BY <1>2, <2>1, <2>2, EndFrame
<1>8. ASSUME NEW c \in Block PROVE HeldOK(c)' /\ UsedOK(c)'
  <2>1. HeldOK(c) /\ UsedOK(c) BY DEF BufferInv
  <2>2. CASE c = b
    <3>1. hdr'[c] = h /\ c \in held' BY <1>1, <1>5, <2>2
    <3>2. h.assigned_edge = None OBVIOUS
    <3> QED BY <1>3, <3>1, <3>2 DEF HeldOK, UsedOK, IsFree, is_buf_assigned
  <2>3. CASE c # b
    <3>1. hdr'[c] = hdr[c] /\ (c \in held' <=> c \in held) BY <1>1, <1>5, <2>3
    <3> QED BY <1>2, <2>1, <3>1 DEF HeldOK, UsedOK, IsFree, is_buf_assigned
  <2> QED BY <2>2, <2>3
<1> QED BY <1>6, <1>7, <1>8 DEF BufferInv

\* The client frees a buffer that is at no end.
LEMMA FreeStep ==
  ASSUME BufferInv, NEW b \in Block, Free(b) PROVE BufferInv'
<1>1. b \in held /\ hdr' = [hdr EXCEPT ![b] = None] /\ held' = held \ {b} /\ buf' = buf
  BY DEF Free
<1>2. hdr \in [Block -> Header \cup {None}] BY DEF BufferInv, TypeOK
<1>3. TypeOK' BY <1>1, <1>2 DEF BufferInv, TypeOK
<1>4. ASSUME NEW x \in End PROVE EndOK(x)'
  <2>1. buf[x] # None => buf[x] # b BY <1>1, AtEnd
  <2>2. buf[x] # None => hdr'[buf[x]] = hdr[buf[x]] BY <1>1, <1>2, <2>1, AtEnd
  <2>3. EndOK(x) BY DEF BufferInv
  <2> QED BY <1>1, <2>2, <2>3, EndFrame
<1>5. ASSUME NEW c \in Block PROVE HeldOK(c)' /\ UsedOK(c)'
  <2>1. HeldOK(c) /\ UsedOK(c) BY DEF BufferInv
  <2>2. CASE c = b
    <3>1. hdr'[c] = None /\ c \notin held' BY <1>1, <1>2, <2>2
    <3> QED BY <3>1 DEF HeldOK, UsedOK, IsFree
  <2>3. CASE c # b
    <3>1. hdr'[c] = hdr[c] /\ (c \in held' <=> c \in held) BY <1>1, <1>2, <2>3
    <3> QED BY <1>1, <2>1, <3>1 DEF HeldOK, UsedOK, IsFree, is_buf_assigned
  <2> QED BY <2>2, <2>3
<1> QED BY <1>3, <1>4, <1>5 DEF BufferInv

\* Exchanging the buffer of an edge for one of the client's.
LEMMA SwapEdgeBufStep ==
  ASSUME BufferInv, NEW end \in End, NEW b \in Block, SwapEdgeBuf(end, b) PROVE BufferInv'
<1> DEFINE old == buf[end]
<1>1. /\ old # None /\ b \in held /\ hdr[b].usersize = hdr[old].usersize
      /\ hdr' = [hdr EXCEPT ![b].assigned_edge = end[1],
                            ![b].producer_flag = hdr[old].producer_flag,
                            ![old].assigned_edge = None]
      /\ buf' = [buf EXCEPT ![end] = b]
      /\ held' = (held \ {b}) \cup {old}
  BY DEF SwapEdgeBuf
<1>2. /\ old \in Block /\ old \notin held /\ hdr[old] \in Header
      /\ hdr[old].producer_flag = end[2] /\ hdr[old].usersize = usersize(end)
  BY <1>1, AtEnd
<1>3. buf \in [End -> Block \cup {None}] /\ hdr \in [Block -> Header \cup {None}]
  BY DEF BufferInv, TypeOK
<1>4. b # old /\ hdr[b] \in Header
  BY <1>1, <1>2, <1>3 DEF BufferInv, HeldOK, IsFree
<1>5. /\ hdr'[b] = [hdr[b] EXCEPT !.assigned_edge = end[1], !.producer_flag = end[2]]
      /\ hdr'[old] = [hdr[old] EXCEPT !.assigned_edge = None]
      /\ \A c \in Block : c # b /\ c # old => hdr'[c] = hdr[c]
      /\ DOMAIN hdr' = Block
  BY <1>1, <1>2, <1>3, <1>4
<1>6. /\ hdr'[b] \in Header /\ hdr'[b].assigned_edge = end[1]
      /\ hdr'[b].producer_flag = end[2] /\ hdr'[b].usersize = usersize(end)
  BY <1>1, <1>2, <1>4, <1>5 DEF Header
<1>7. hdr'[old] \in Header /\ hdr'[old].assigned_edge = None
  BY <1>2, <1>5 DEF Header
<1>8. TypeOK'
  <2>1. hdr' \in [Block -> Header \cup {None}]
    <3>1. \A c \in Block : hdr'[c] \in Header \cup {None} BY <1>3, <1>5, <1>6, <1>7
    <3>2. hdr' = [c \in Block |-> hdr'[c]] BY <1>1, <1>3
    <3> QED BY <3>1, <3>2
  <2>2. buf' \in [End -> Block \cup {None}] BY <1>1, <1>3
  <2>3. held' \subseteq Block BY <1>1, <1>2 DEF BufferInv, TypeOK
  <2> QED BY <2>1, <2>2, <2>3 DEF TypeOK
<1>9. ASSUME NEW x \in End PROVE EndOK(x)'
  <2>1. CASE x = end
    <3>1. buf'[x] = b BY <1>1, <1>3, <2>1
    <3>2. hdr'[b] # None BY <1>6
    <3> QED BY <1>6, <2>1, <3>1, <3>2 DEF EndOK, IsFree
  <2>2. CASE x # end
    <3>1. buf'[x] = buf[x] BY <1>1, <1>3, <2>2
    <3>2. buf[x] # None => buf[x] # old /\ buf[x] # b /\ buf[x] \in Block
      BY <1>1, <2>2, OneEnd, AtEnd
    <3>3. buf[x] # None => hdr'[buf[x]] = hdr[buf[x]] BY <1>5, <3>2
    <3>4. EndOK(x) BY DEF BufferInv
    <3> QED BY <3>1, <3>3, <3>4, EndFrame
  <2> QED BY <2>1, <2>2
<1>10. ASSUME NEW c \in Block PROVE HeldOK(c)' /\ UsedOK(c)'
  <2>1. HeldOK(c) /\ UsedOK(c) BY DEF BufferInv
  <2>2. CASE c = b
    <3>1. c \notin held' /\ buf'[end] = c BY <1>1, <1>3, <1>4, <2>2
    <3> QED BY <3>1 DEF HeldOK, UsedOK
  <2>3. CASE c = old
    <3>1. c \in held' BY <1>1, <2>3
    <3>2. hdr'[c] # None BY <1>7, <2>3
    <3> QED BY <1>7, <2>3, <3>1, <3>2 DEF HeldOK, UsedOK, IsFree, is_buf_assigned
  <2>4. CASE c # b /\ c # old
    <3>1. hdr'[c] = hdr[c] /\ (c \in held' <=> c \in held) BY <1>1, <1>5, <2>4
    <3>2. \A x \in End : buf[x] = c => buf'[x] = c BY <1>1, <1>3, <2>4
    <3> QED BY <2>1, <3>1, <3>2 DEF HeldOK, UsedOK, IsFree, is_buf_assigned
  <2> QED BY <2>2, <2>3, <2>4
<1> QED BY <1>8, <1>9, <1>10 DEF BufferInv

\* Exchanging the buffers of two ends: the headers name the right ends, so the
\* buffers change places.
LEMMA SwapEdgeBufsStep ==
  ASSUME BufferInv, NEW a \in Block, NEW b \in Block, SwapEdgeBufs(a, b) PROVE BufferInv'
<1> DEFINE x == Assignment(a)
           y == Assignment(b)
<1>1. a # b /\ hdr[a] # None /\ hdr[b] # None /\ hdr[a].usersize = hdr[b].usersize
      /\ hdr' = [hdr EXCEPT ![a] = hdr[b], ![b] = hdr[a]] /\ held' = held
  BY DEF SwapEdgeBufs, IsFree
<1>2. x \in End /\ buf[x] = a /\ y \in End /\ buf[y] = b
  BY AssignedAtEnd DEF SwapEdgeBufs
<1>3. buf \in [End -> Block \cup {None}] /\ hdr \in [Block -> Header \cup {None}]
  BY DEF BufferInv, TypeOK
<1>4. buf' = [buf EXCEPT ![x] = b, ![y] = a]
  BY <1>2 DEF SwapEdgeBufs
<1>5. x # y /\ a # None /\ b # None BY <1>1, <1>2
<1>6. buf'[x] = b /\ buf'[y] = a /\ hdr'[a] = hdr[b] /\ hdr'[b] = hdr[a]
  BY <1>1, <1>2, <1>3, <1>4, <1>5
<1>7. TypeOK' BY <1>1, <1>3, <1>4 DEF BufferInv, TypeOK
<1>8. /\ a \notin held /\ b \notin held
      /\ hdr[a].assigned_edge = x[1] /\ hdr[a].producer_flag = x[2]
      /\ hdr[a].usersize = usersize(x)
      /\ hdr[b].assigned_edge = y[1] /\ hdr[b].producer_flag = y[2]
      /\ hdr[b].usersize = usersize(y)
  BY <1>2, <1>5, AtEnd
<1>9. ASSUME NEW z \in End PROVE EndOK(z)'
  <2>1. CASE z = x
    BY <1>1, <1>6, <1>8, <2>1 DEF EndOK, IsFree
  <2>2. CASE z = y
    BY <1>1, <1>6, <1>8, <2>2 DEF EndOK, IsFree
  <2>3. CASE z # x /\ z # y
    <3>1. buf'[z] = buf[z] BY <1>3, <1>4, <2>3
    <3>2. buf[z] # None => buf[z] # a /\ buf[z] # b BY <1>2, <1>5, <2>3, OneEnd
    <3>3. buf[z] # None => hdr'[buf[z]] = hdr[buf[z]] BY <1>1, <1>3, <3>2
    <3>4. EndOK(z) BY DEF BufferInv
    <3> QED BY <3>1, <3>3, <3>4, EndFrame
  <2> QED BY <2>1, <2>2, <2>3
<1>10. ASSUME NEW c \in Block PROVE HeldOK(c)' /\ UsedOK(c)'
  <2>1. HeldOK(c) /\ UsedOK(c) BY DEF BufferInv
  <2>2. CASE c = a
    BY <1>1, <1>2, <1>6, <1>8, <2>2 DEF HeldOK, UsedOK
  <2>3. CASE c = b
    BY <1>1, <1>2, <1>6, <1>8, <2>3 DEF HeldOK, UsedOK
  <2>4. CASE c # a /\ c # b
    <3>1. hdr'[c] = hdr[c] BY <1>1, <1>3, <2>4
    <3>2. \A z \in End : buf[z] = c => buf'[z] = c BY <1>2, <1>3, <1>4, <2>4
    <3> QED BY <1>1, <2>1, <3>1, <3>2 DEF HeldOK, UsedOK, IsFree, is_buf_assigned
  <2> QED BY <2>2, <2>3, <2>4
<1> QED BY <1>7, <1>9, <1>10 DEF BufferInv

\* BufferInv is an invariant of every sequence of operations on buffers.
THEOREM BufferInvariance == Spec => []BufferInv
<1>1. BufferInv /\ [Next]_vars => BufferInv'
  <2> SUFFICES ASSUME BufferInv, [Next]_vars PROVE BufferInv'
    OBVIOUS
  <2>1. CASE UNCHANGED vars
    BY <2>1 DEF vars, BufferInv, TypeOK, EndOK, HeldOK, UsedOK, IsFree, is_buf_assigned
  <2>2. ASSUME NEW end \in End, Open(end) PROVE BufferInv' BY <2>2, OpenStep
  <2>3. ASSUME NEW end \in End, Close(end) PROVE BufferInv' BY <2>3, CloseStep
  <2>4. ASSUME NEW end \in End, Malloc(end) PROVE BufferInv' BY <2>4, MallocStep
  <2>5. ASSUME NEW b \in Block, Free(b) PROVE BufferInv' BY <2>5, FreeStep
  <2>6. ASSUME NEW end \in End, NEW b \in Block, SwapEdgeBuf(end, b) PROVE BufferInv'
    BY <2>6, SwapEdgeBufStep
  <2>7. ASSUME NEW a \in Block, NEW b \in Block, SwapEdgeBufs(a, b) PROVE BufferInv'
    BY <2>7, SwapEdgeBufsStep
  <2> QED BY <2>1, <2>2, <2>3, <2>4, <2>5, <2>6, <2>7 DEF Next
<1> QED BY <1>1, BufferInit, PTL DEF Spec

\* Edges and buffer headers always agree, and no buffer is lost or shared.
THEOREM BuffersAgree == Spec => []AssignmentsAgree
<1>1. ASSUME BufferInv PROVE AssignmentsAgree
  <2>1. ASSUME NEW end \in End, buf[end] # None
        PROVE  ~IsFree(buf[end]) /\ Assignment(buf[end]) = end
    BY <1>1, <2>1, AtEnd DEF IsFree
  <2>2. ASSUME NEW b \in Block, ~IsFree(b)
        PROVE  (b \in held) # (\E end \in End : buf[end] = b)
    <3>1. b \in held => ~\E end \in End : buf[end] = b BY <1>1, AtEnd
    <3>2. b \notin held => \E end \in End : buf[end] = b BY <1>1, <2>2 DEF BufferInv, UsedOK
    <3> QED BY <3>1, <3>2, Zenon
  <2> QED BY <2>1, <2>2 DEF AssignmentsAgree
<1> QED BY <1>1, BufferInvariance, PTL

\* A buffer at an end always has the size that the end needs.
THEOREM BuffersAlwaysFit == Spec => []BuffersFit
<1>1. BufferInv => BuffersFit BY AtEnd DEF BuffersFit
<1> QED BY <1>1, BufferInvariance, PTL
=============================================================================
