------------------------------- MODULE PgmRing -------------------------------
(***************************************************************************)
(* The ring buffer of src/include/ring.h with one reader and either one    *)
(* writer (write_ring) or several (mwrite_ring). Each step makes one       *)
(* access to memory that another thread may change. The spinning loops of  *)
(* the macros are steps that are not enabled, or that return to the start. *)
(***************************************************************************)
EXTENDS RingInit, Sequences

CONSTANTS
  Writer,     \* the writing threads
  min_count,  \* the number of slots that init_ring is asked for
  MaxWrites   \* bound: number of elements written in all

\* r->nmemb
nmemb == CHOOSE count \in RingSizes(min_count) : TRUE

ASSUME RingAssumption ==
  /\ IsFiniteSet(Writer) /\ Writer # {}
  /\ min_count \in 1 .. 2 ^ (Bits - 1)
  /\ Word > 2 * (nmemb + Cardinality(Writer))
  /\ MaxWrites \in Nat

VARIABLES
  multi,    \* do the writers use mwrite_ring? otherwise there is one, with write_ring
  nfree,    \* r->nfree, a size_t
  widx,     \* r->widx
  ridx,     \* r->ridx
  slots,    \* r->slots[i] = SLOT_READY
  buf,      \* r->buf; 0 before the first element is stored
  wpc, idx, val,  \* per writer: program counter, __dst, and src
  rpc, got,       \* of the reader: program counter, and what it has loaded
  written,        \* number of elements for which a slot has been taken
  out             \* the elements read_ring has delivered

writerVars == <<wpc, idx, val, written>>
readerVars == <<rpc, got, out>>
vars == <<multi, nfree, widx, ridx, slots, buf, writerVars, readerVars>>

Slot == 0 .. nmemb - 1

TypeOK ==
  /\ multi \in BOOLEAN
  /\ nfree \in 0 .. Word - 1 /\ widx \in 0 .. Word - 1 /\ ridx \in 0 .. Word - 1
  /\ slots \in [Slot -> BOOLEAN] /\ buf \in [Slot -> 0 .. MaxWrites]
  /\ wpc \in [Writer -> {"idle", "reserve", "undo", "take", "store", "ready", "publish"}]
  /\ idx \in [Writer -> Slot] /\ val \in [Writer -> 0 .. MaxWrites]
  /\ rpc \in {"idle", "look", "load", "free", "release"}
  /\ got \in 0 .. MaxWrites /\ written \in 0 .. MaxWrites
  /\ out \in Seq(1 .. MaxWrites)

\* init_ring, or __init_ring on the caller's buffers.
Init ==
  /\ multi \in BOOLEAN
  /\ nfree = nmemb /\ widx = 0 /\ ridx = 0
  /\ slots = [i \in Slot |-> FALSE] /\ buf = [i \in Slot |-> 0]
  /\ wpc = [w \in Writer |-> "idle"]
  /\ idx = [w \in Writer |-> 0] /\ val = [w \in Writer |-> 0]
  /\ rpc = "idle" /\ got = 0 /\ written = 0 /\ out = <<>>
-----------------------------------------------------------------------------
Inc(x) == (x + 1) % Word
Dec(x) == (x + Word - 1) % Word

\* A size_t read as a ssize_t is at most zero.
NotPositive(x) == x = 0 \/ x >= Word \div 2

\* The writer of a ring that only one thread may write.
SoleWriter == CHOOSE w \in Writer : TRUE

\* A writer takes the next slot for its element.
TakeSlot(w) ==
  /\ written < MaxWrites
  /\ written' = written + 1
  /\ val' = [val EXCEPT ![w] = written']
  /\ idx' = [idx EXCEPT ![w] = widx % nmemb]
  /\ widx' = Inc(widx)
  /\ wpc' = [wpc EXCEPT ![w] = "store"]

\* __begin_write_ring; the loop in write_ring spins while it returns NULL.
Claim(w) ==
  /\ ~multi /\ w = SoleWriter /\ wpc[w] = "idle"
  /\ nfree > 0
  /\ TakeSlot(w)
  /\ UNCHANGED <<multi, nfree, ridx, slots, buf, readerVars>>

\* __begin_mwrite_ring: the first look at nfree.
Check(w) ==
  /\ multi /\ wpc[w] = "idle" /\ written < MaxWrites
  /\ nfree > 0
  /\ wpc' = [wpc EXCEPT ![w] = "reserve"]
  /\ UNCHANGED <<multi, nfree, widx, ridx, slots, buf, idx, val, written, readerVars>>

\* Mutant: trusts the first look at nfree.
ReserveUnchecked(w) ==
  /\ wpc[w] = "reserve"
  /\ nfree' = Dec(nfree)
  /\ wpc' = [wpc EXCEPT ![w] = "take"]
  /\ UNCHANGED <<multi, widx, ridx, slots, buf, idx, val, written, readerVars>>

Reserve(w) ==
  /\ wpc[w] = "reserve"
  /\ nfree' = Dec(nfree)
  /\ wpc' = [wpc EXCEPT ![w] = IF NotPositive(nfree) THEN "undo" ELSE "take"]
  /\ UNCHANGED <<multi, widx, ridx, slots, buf, idx, val, written, readerVars>>

\* Mutant: gives up without returning what it has reserved.
Forget(w) ==
  /\ wpc[w] = "undo"
  /\ wpc' = [wpc EXCEPT ![w] = "idle"]
  /\ UNCHANGED <<multi, nfree, widx, ridx, slots, buf, idx, val, written, readerVars>>

Undo(w) ==
  /\ wpc[w] = "undo"
  /\ nfree' = Inc(nfree)
  /\ wpc' = [wpc EXCEPT ![w] = "idle"]
  /\ UNCHANGED <<multi, widx, ridx, slots, buf, idx, val, written, readerVars>>

\* The fetch-and-add of widx.
TakeIndex(w) ==
  /\ wpc[w] = "take"
  /\ TakeSlot(w)
  /\ UNCHANGED <<multi, nfree, ridx, slots, buf, readerVars>>

\* *__dst = (src), or the memcpy of the vector variants.
Store(w) ==
  /\ wpc[w] = "store"
  /\ buf' = [buf EXCEPT ![idx[w]] = val[w]]
  /\ wpc' = [wpc EXCEPT ![w] = "ready"]
  /\ UNCHANGED <<multi, nfree, widx, ridx, slots, idx, val, written, readerVars>>

\* __end_mwrite_ring, or the first half of __end_write_ring.
MarkReady(w) ==
  /\ wpc[w] = "ready"
  /\ slots' = [slots EXCEPT ![idx[w]] = TRUE]
  /\ wpc' = [wpc EXCEPT ![w] = IF multi THEN "idle" ELSE "publish"]
  /\ UNCHANGED <<multi, nfree, widx, ridx, buf, idx, val, written, readerVars>>

\* The rest of __end_write_ring.
Publish(w) ==
  /\ wpc[w] = "publish"
  /\ nfree' = Dec(nfree)
  /\ wpc' = [wpc EXCEPT ![w] = "idle"]
  /\ UNCHANGED <<multi, widx, ridx, slots, buf, idx, val, written, readerVars>>
-----------------------------------------------------------------------------
\* __begin_read_ring: the look at nfree (is_ring_empty makes the same one).
Poll ==
  /\ rpc = "idle"
  /\ nfree # nmemb
  /\ rpc' = "look"
  /\ UNCHANGED <<multi, nfree, widx, ridx, slots, buf, writerVars, got, out>>

\* Mutant: nfree alone decides whether there is an element.
LookAway ==
  /\ rpc = "look" /\ rpc' = "load"
  /\ UNCHANGED <<multi, nfree, widx, ridx, slots, buf, writerVars, got, out>>

\* The look at the slot; read_ring starts again if it is not ready.
Look ==
  /\ rpc = "look"
  /\ rpc' = IF slots[ridx % nmemb] THEN "load" ELSE "idle"
  /\ UNCHANGED <<multi, nfree, widx, ridx, slots, buf, writerVars, got, out>>

\* *(dst_ptr) = *__src, or the memcpy of the vector variant.
Load ==
  /\ rpc = "load"
  /\ got' = buf[ridx % nmemb]
  /\ rpc' = "free"
  /\ UNCHANGED <<multi, nfree, widx, ridx, slots, buf, writerVars, out>>

\* __end_read_ring: ridx is the reader's own.
FreeSlot ==
  /\ rpc = "free"
  /\ slots' = [slots EXCEPT ![ridx % nmemb] = FALSE]
  /\ ridx' = Inc(ridx)
  /\ out' = Append(out, got)
  /\ rpc' = "release"
  /\ UNCHANGED <<multi, nfree, widx, buf, writerVars, got>>

Release ==
  /\ rpc = "release"
  /\ nfree' = Inc(nfree)
  /\ rpc' = "idle"
  /\ UNCHANGED <<multi, widx, ridx, slots, buf, writerVars, got, out>>

-----------------------------------------------------------------------------
WriterStep(w) ==
  Claim(w) \/ Check(w) \/ Reserve(w) \/ Undo(w) \/ TakeIndex(w) \/ Store(w)
    \/ MarkReady(w) \/ Publish(w)

ReaderStep == Poll \/ Look \/ Load \/ FreeSlot \/ Release

Next == ReaderStep \/ \E w \in Writer : WriterStep(w)

\* Every thread keeps running; nothing makes a spinning writer win its race.
Fairness == WF_vars(ReaderStep) /\ \A w \in Writer : WF_vars(WriterStep(w))

Spec == Init /\ [][Next]_vars /\ Fairness
-----------------------------------------------------------------------------
\* No data race on an element: a writer that is storing into a slot has it to
\* itself, against the other writers and against the reader.
SlotExclusive ==
  \A w \in Writer : wpc[w] \in {"store", "ready"} =>
    /\ \A v \in Writer \ {w} : wpc[v] \in {"store", "ready"} => idx[v] # idx[w]
    /\ rpc \in {"load", "free"} => idx[w] # ridx % nmemb

\* Whatever is written is eventually read: neither the reader nor a writer can
\* spin for ever, and no slot is lost.
AllDelivered == <>(Len(out) = MaxWrites)

\* The elements with a slot but not yet read, oldest first; some of them are
\* still being stored.
Contents ==
  [k \in 1 .. (widx + Word - ridx) % Word |->
     LET i == (ridx + k - 1) % nmemb
         storing == {w \in Writer : wpc[w] = "store" /\ idx[w] = i}
     IN  IF storing = {} THEN buf[i] ELSE val[CHOOSE w \in storing : TRUE]]

Fifo == INSTANCE BoundedFifo
  WITH Value <- 1 .. MaxWrites, Capacity <- nmemb, queue <- Contents,
       delivered <- out

\* The ring is a bounded queue: read_ring delivers the elements in the order in
\* which the writers took their slots, each once and as it was written, and
\* the ring holds at most nmemb of them.
ImplementsFifo == Fifo!Spec
=============================================================================
