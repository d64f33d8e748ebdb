--------------------------- MODULE CircularBuffer ---------------------------
(***************************************************************************)
(* circular_buffer.c: the queue between the two threads of the injector,   *)
(* one thread calling put_circ and the other get_circ, without a lock.     *)
(*                                                                         *)
(* A step is one access to memory that both threads touch.  The plain int  *)
(* fields readPos and writePos are each written by one thread and read by  *)
(* the other; x86 keeps the order of the stores, so a step is a step of    *)
(* the machine code.  get_circ advances readPos with                       *)
(*                                                                         *)
(*     if (++(cb->readPos) == cb->size)  cb->readPos = 0;                  *)
(*                                                                         *)
(* which the build may compile to two stores (gcc does, with the flags of  *)
(* the Makefile): the producer can then see readPos = size.  SplitWrap     *)
(* says whether this build does.                                           *)
(*                                                                         *)
(* The injector passes client numbers through the queue, there are no more *)
(* of them than the queue has room for, and a number that was put is put   *)
(* again only after get_circ has returned it.  TokenBounded says whether   *)
(* the producer keeps to that; without it, it calls put_circ at any time.  *)
(***************************************************************************)
EXTENDS Integers, Sequences

CONSTANTS Cap,           \* open_circ's size: the elements the queue can hold
          Values,        \* the elements callers store
          SplitWrap,     \* does get_circ store readPos twice when it wraps?
          TokenBounded   \* are at most Cap elements in circulation?

ASSUME CapAssumption == Cap \in Nat \ {0}
ASSUME ValuesAssumption == Values \subseteq Nat
ASSUME FlagsAssumption == SplitWrap \in BOOLEAN /\ TokenBounded \in BOOLEAN

VARIABLES
  buffer,       \* cb->buffer
  readPos,      \* cb->readPos, written by the consumer only
  writePos,     \* cb->writePos, written by the producer only
  put,          \* the put_circ call in progress: where it is, its argument
  get,          \* the get_circ call in progress: where it is, its retValue
  lastPut,      \* what the latest put_circ answered
  lastGet,      \* what the latest get_circ answers
  outstanding   \* elements put and not yet returned by get_circ

vars == <<buffer, readPos, writePos, put, get, lastPut, lastGet, outstanding>>

CIRC_BUF_ERROR == -1

\* Mutant: no slot kept empty.
size_NoSpareSlot == Cap

size == Cap + 1       \* cb->size: one slot always stays empty

Slots == 0 .. Cap

\* bzero of the array at creation.
Empty == 0

-----------------------------------------------------------------------------
(***************************************************************************)
(* open_circ                                                               *)
(***************************************************************************)
Init == /\ buffer = [s \in Slots |-> Empty]
        /\ readPos = 0
        /\ writePos = 0
        /\ put = [at |-> "idle", e |-> Empty]
        /\ get = [at |-> "idle", retValue |-> Empty]
        /\ lastPut = CIRC_BUF_ERROR
        /\ lastGet = CIRC_BUF_ERROR
        /\ outstanding = 0

-----------------------------------------------------------------------------
(***************************************************************************)
(* put_circ(cb, e), the producer                                           *)
(***************************************************************************)

\* Mutant: the end of the array is not noticed.
NextWritePos_NoWrap == writePos + 1

\* "get where we will write": the position writePos moves to.
NextWritePos == IF writePos + 1 = size THEN 0 ELSE writePos + 1

\* Mutant: no check that there is room.
IsFull_Never == FALSE

\* "check if it's a valid position to write to": reads the consumer's readPos.
IsFull == NextWritePos = readPos

PutCheck(e) ==
  /\ put.at = "idle"
  /\ TokenBounded => outstanding < Cap
  /\ IF IsFull
       THEN lastPut' = CIRC_BUF_ERROR /\ UNCHANGED put
       ELSE put' = [at |-> "store", e |-> e] /\ UNCHANGED lastPut
  /\ UNCHANGED <<buffer, readPos, writePos, get, lastGet, outstanding>>

\* Mutant: writes to the slot writePos moves to, not to the one it leaves.
PutStore_AtNext ==
  /\ put.at = "store"
  /\ buffer' = [buffer EXCEPT ![NextWritePos] = put.e]
  /\ put' = [put EXCEPT !.at = "publish"]
  /\ UNCHANGED <<readPos, writePos, get, lastPut, lastGet, outstanding>>

PutStore ==
  /\ put.at = "store"
  /\ buffer' = [buffer EXCEPT ![writePos] = put.e]
  /\ put' = [put EXCEPT !.at = "publish"]
  /\ UNCHANGED <<readPos, writePos, get, lastPut, lastGet, outstanding>>

PutPublish ==
  /\ put.at = "publish"
  /\ writePos' = NextWritePos
  /\ lastPut' = put.e
  /\ put' = [put EXCEPT !.at = "idle"]
  /\ outstanding' = outstanding + 1
  /\ UNCHANGED <<buffer, readPos, get, lastGet>>

-----------------------------------------------------------------------------
(***************************************************************************)
(* get_circ(cb), the consumer                                              *)
(***************************************************************************)

\* Mutant: the empty queue is not noticed.
GetCheck_NoEmptyTest ==
  /\ get.at = "idle"
  /\ get' = [get EXCEPT !.at = "load"]
  /\ UNCHANGED <<buffer, readPos, writePos, put, lastPut, lastGet, outstanding>>

\* "empty buffer": reads the producer's writePos.
GetCheck ==
  /\ get.at = "idle"
  /\ IF readPos = writePos
       THEN lastGet' = CIRC_BUF_ERROR /\ UNCHANGED get
       ELSE get' = [get EXCEPT !.at = "load"] /\ UNCHANGED lastGet
  /\ UNCHANGED <<buffer, readPos, writePos, put, lastPut, outstanding>>

GetLoad ==
  /\ get.at = "load"
  /\ get' = [at |-> "advance", retValue |-> buffer[readPos]]
  /\ UNCHANGED <<buffer, readPos, writePos, put, lastPut, lastGet, outstanding>>

\* get_circ returns: its caller owns the element again.
Return == /\ get' = [get EXCEPT !.at = "idle"]
          /\ outstanding' = outstanding - 1

\* The first store to readPos.  It may leave readPos = size for a while.
GetAdvance ==
  /\ get.at = "advance"
  /\ lastGet' = get.retValue
  /\ IF readPos + 1 = size /\ SplitWrap
       THEN /\ readPos' = size
            /\ get' = [get EXCEPT !.at = "wrap"]
            /\ UNCHANGED outstanding
       ELSE /\ readPos' = IF readPos + 1 = size THEN 0 ELSE readPos + 1
            /\ Return
  /\ UNCHANGED <<buffer, writePos, put, lastPut>>

\* Mutant: readPos restarts one slot too far.
GetWrap_SkipsSlot ==
  /\ get.at = "wrap"
  /\ readPos' = 1
  /\ Return
  /\ UNCHANGED <<buffer, writePos, put, lastPut, lastGet>>

\* The second store, when the first one reached the end of the array.
GetWrap ==
  /\ get.at = "wrap"
  /\ readPos' = 0
  /\ Return
  /\ UNCHANGED <<buffer, writePos, put, lastPut, lastGet>>

-----------------------------------------------------------------------------
Producer == (\E e \in Values : PutCheck(e)) \/ PutStore \/ PutPublish
Consumer == GetCheck \/ GetLoad \/ GetAdvance \/ GetWrap

Next == Producer \/ Consumer

Spec == Init /\ [][Next]_vars

-----------------------------------------------------------------------------
\* The types of the fields and locals of circular_buffer.c: readPos leaves the
\* array only to equal size, and writePos never does.
TypeOK ==
  /\ buffer \in [Slots -> Values \cup {Empty}]
  /\ readPos \in 0 .. size
  /\ writePos \in Slots
  /\ put \in [at : {"idle", "store", "publish"}, e : Values \cup {Empty}]
  /\ get \in [at : {"idle", "load", "advance", "wrap"},
              retValue : Values \cup {Empty}]
  /\ lastPut \in Values \cup {CIRC_BUF_ERROR}
  /\ lastGet \in Values \cup {Empty, CIRC_BUF_ERROR}
  /\ outstanding \in Int

-----------------------------------------------------------------------------
(***************************************************************************)
(* The queue the two positions stand for, and what is true of it.          *)
(***************************************************************************)

\* The slot of the oldest element: a consumer between its two stores to
\* readPos is already past the end of the array.
Oldest == IF readPos = size THEN 0 ELSE readPos

\* How many slots from Oldest up to writePos hold an element.
Used == IF writePos >= Oldest THEN writePos - Oldest
                              ELSE writePos - Oldest + size

\* The slot n places after Oldest.
SlotAt(n) == IF Oldest + n >= size THEN Oldest + n - size ELSE Oldest + n

Fifo == INSTANCE BoundedFifo
          WITH queue <- [k \in 1 .. Used |-> buffer[SlotAt(k - 1)]]

\* The lock-free ring is the bounded queue of circular_buffer.h: every call
\* has the answer and the effect it would have if it happened in one instant.
ImplementsFifo == Fifo!Spec

\* Elements in circulation are the ones in the array and the one get_circ has
\* freed the slot of without having returned.  This is what the injector's
\* token discipline bounds, and what keeps the split store of readPos harmless.
InTransit == IF get.at = "wrap" THEN 1 ELSE 0
Accounted == outstanding = Used + InTransit

\* A caller that holds one of the Cap elements never finds the queue full,
\* whatever the other thread is doing: slg.c exits the process otherwise
\* (PANIC "put_circ error. should be impossible").
PutNeverFails == put.at = "idle" /\ outstanding < Cap => ~ IsFull

\* The two threads never touch the same slot of the array at the same time.
NoSlotRace == put.at = "store" /\ get.at = "load" => writePos # readPos
=============================================================================
