----------------------- MODULE CircularBufferProofs -----------------------
(***************************************************************************)
(* Proofs about CircularBuffer.tla, for every capacity and every set of    *)
(* elements: under the use the injector makes of it, or in a build that    *)
(* stores readPos once, the ring implements the bounded queue.             *)
(***************************************************************************)
EXTENDS CircularBuffer, SequenceTheorems, TLAPS

\* The uses under which the ring is a queue.
SafeUse == TokenBounded \/ ~ SplitWrap

(***************************************************************************)
(* The inductive invariant.  TypeOK, Accounted and PutNeverFails are not   *)
(* inductive: they need to know how far each call in progress has come.    *)
(***************************************************************************)

\* readPos is past the array exactly between get_circ's two stores.
WrapInv == /\ readPos = size <=> get.at = "wrap"
           /\ get.at = "wrap" => SplitWrap

\* The queue has room for everything in circulation, and one more element
\* once put_circ has decided that it is not full.
RoomInv == /\ Used + InTransit <= Cap
           /\ put.at # "idle" => Used + InTransit < Cap

\* put_circ carries an element, and has it in the slot it is about to publish.
PutInv == /\ put.at # "idle" => put.e \in Values
          /\ put.at = "publish" => buffer[writePos] = put.e

\* get_circ works on a queue that is not empty and answers its oldest element.
GetInv == /\ get.at \in {"load", "advance"} => Used > 0
          /\ get.at = "advance" => get.retValue = buffer[readPos]

IInv == TypeOK /\ Accounted /\ WrapInv /\ RoomInv /\ PutInv /\ GetInv

-----------------------------------------------------------------------------
(***************************************************************************)
(* What the two positions determine.                                       *)
(***************************************************************************)
\* The slots the two positions determine, and their ranges.
LEMMA Positions ==
  ASSUME TypeOK
  PROVE  /\ Oldest \in Slots
         /\ Used \in 0 .. Cap
         /\ NextWritePos \in Slots
         /\ IsFull => Used = Cap
         /\ readPos # size /\ ~ IsFull => Used < Cap
         /\ \A n \in 0 .. Cap : SlotAt(n) \in Slots
         /\ \A n \in 0 .. Used - 1 : SlotAt(n) # writePos
         /\ SlotAt(Used) = writePos
         /\ SlotAt(0) = Oldest
  BY CapAssumption DEF TypeOK, Oldest, Used, NextWritePos, IsFull, SlotAt,
                       Slots, size

\* open_circ establishes the invariant.
LEMMA InitIInv == Init => IInv
  BY CapAssumption, ValuesAssumption
  DEF Init, IInv, TypeOK, Accounted, WrapInv, RoomInv, PutInv, GetInv, Slots,
      Oldest, Used, InTransit, size

\* Every step of put_circ and get_circ keeps it.
LEMMA NextIInv ==
  ASSUME SafeUse, IInv, [Next]_vars
  PROVE  IInv'
<1> USE CapAssumption, ValuesAssumption, FlagsAssumption
<1>pos. /\ Used \in 0 .. Cap
        /\ NextWritePos \in Slots
        /\ readPos # size /\ ~ IsFull => Used < Cap
  BY Positions DEF IInv
<1>1. ASSUME NEW e \in Values, PutCheck(e) PROVE IInv'
  <2>1. put' = put \/ (put' = [at |-> "store", e |-> e] /\ ~ IsFull)
    BY <1>1 DEF PutCheck
  <2>2. put' # put => Used + InTransit < Cap
    BY <1>1, <1>pos, <2>1
    DEF PutCheck, SafeUse, IInv, WrapInv, Accounted, InTransit
  <2> QED
    BY <1>1, <2>1, <2>2
    DEF PutCheck, IInv, TypeOK, Accounted, WrapInv, RoomInv, PutInv, GetInv,
        Oldest, Used, InTransit
<1>2. CASE PutStore
  <2>1. writePos # readPos \/ get.at # "advance"
    BY <1>2 DEF IInv, GetInv, Used, Oldest, WrapInv, size, TypeOK
  <2>2. /\ put.at = "store" /\ buffer' = [buffer EXCEPT ![writePos] = put.e]
        /\ put' = [put EXCEPT !.at = "publish"]
        /\ UNCHANGED <<readPos, writePos, get, lastPut, lastGet, outstanding>>
    BY <1>2 DEF PutStore
  <2>3. put'.at = "publish" /\ put'.e = put.e /\ put.e \in Values
    BY <2>2 DEF IInv, TypeOK, PutInv
  <2>4. Used' = Used /\ InTransit' = InTransit
    BY <2>2 DEF Used, Oldest, InTransit
  <2>5. TypeOK'
    BY <2>2, <2>3 DEF IInv, TypeOK
  <2>6. PutInv'
    BY <2>2, <2>3 DEF IInv, TypeOK, PutInv
  <2>7. GetInv'
    BY <2>1, <2>2, <2>4 DEF IInv, TypeOK, GetInv
  <2>8. Accounted' /\ WrapInv' /\ RoomInv'
    BY <2>2, <2>4 DEF IInv, Accounted, WrapInv, RoomInv
  <2> QED
    BY <2>5, <2>6, <2>7, <2>8 DEF IInv
<1>3. CASE PutPublish
  <2>1. Used < Cap
    BY <1>3, <1>pos DEF PutPublish, IInv, RoomInv, InTransit
  <2>2. /\ writePos \in Slots /\ Oldest \in Slots
        /\ writePos' = NextWritePos /\ Oldest' = Oldest
    BY <1>3, Positions DEF PutPublish, IInv, TypeOK, Oldest
  <2>3. Used' = Used + 1
    BY <2>1, <2>2 DEF Used, NextWritePos, Slots, size
  <2> QED
    BY <1>3, <1>pos, <2>3
    DEF PutPublish, IInv, TypeOK, Accounted, WrapInv, RoomInv, PutInv, GetInv,
        InTransit
<1>4. CASE GetCheck
  <2>1. readPos # writePos /\ get.at = "idle" => Used > 0
    BY DEF IInv, WrapInv, TypeOK, Used, Oldest, Slots, size
  <2> QED
    BY <1>4, <1>pos, <2>1
    DEF GetCheck, IInv, TypeOK, Accounted, WrapInv, RoomInv, PutInv, GetInv,
        Oldest, Used, InTransit
<1>5. CASE GetLoad
  <2>1. readPos \in Slots
    BY <1>5 DEF GetLoad, IInv, TypeOK, WrapInv, Slots, size
  <2> QED
    BY <1>5, <2>1
    DEF GetLoad, IInv, TypeOK, Accounted, WrapInv, RoomInv, PutInv, GetInv,
        Oldest, Used, InTransit
<1>6. CASE GetAdvance
  <2>1. Used' = Used - 1
    BY <1>6
    DEF GetAdvance, IInv, TypeOK, WrapInv, GetInv, Oldest, Used, Slots, size
  <2>2. TypeOK' /\ WrapInv'
    BY <1>6 DEF GetAdvance, Return, IInv, TypeOK, WrapInv, Slots, size
  <2>3. Accounted' /\ RoomInv'
    BY <1>6, <1>pos, <2>1
    DEF GetAdvance, Return, IInv, TypeOK, Accounted, RoomInv, InTransit, size
  <2>4. PutInv' /\ GetInv'
    BY <1>6 DEF GetAdvance, Return, IInv, TypeOK, PutInv, GetInv
  <2> QED
    BY <2>2, <2>3, <2>4 DEF IInv
<1>7. CASE GetWrap
  <2>1. Used' = Used
    BY <1>7 DEF GetWrap, IInv, TypeOK, WrapInv, Oldest, Used, Slots, size
  <2>2. TypeOK' /\ WrapInv'
    BY <1>7 DEF GetWrap, Return, IInv, TypeOK, WrapInv, Slots, size
  <2>3. Accounted' /\ RoomInv'
    BY <1>7, <1>pos, <2>1
    DEF GetWrap, Return, IInv, TypeOK, Accounted, RoomInv, InTransit, size
  <2>4. PutInv' /\ GetInv'
    BY <1>7 DEF GetWrap, Return, IInv, TypeOK, PutInv, GetInv
  <2> QED
    BY <2>2, <2>3, <2>4 DEF IInv
<1>8. CASE UNCHANGED vars
  BY <1>8
  DEF vars, IInv, TypeOK, Accounted, WrapInv, RoomInv, PutInv, GetInv, Oldest,
      Used, InTransit
<1> QED
  BY <1>1, <1>2, <1>3, <1>4, <1>5, <1>6, <1>7, <1>8 DEF Next, Producer, Consumer

\* Every reachable state of the ring satisfies the inductive invariant.
THEOREM Invariance ==
  ASSUME SafeUse
  PROVE  Spec => []IInv
<1>1. IInv /\ [Next]_vars => IInv'
  BY NextIInv
<1> QED
  BY <1>1, InitIInv, PTL DEF Spec

\* The fields and locals of circular_buffer.c keep to their ranges; readPos
\* leaves the array only to equal size.
THEOREM TypeCorrect ==
  ASSUME SafeUse
  PROVE  Spec => []TypeOK
<1>1. IInv => TypeOK
  BY DEF IInv
<1> QED
  BY <1>1, Invariance, PTL

\* Elements in circulation are the stored ones and the one being returned.
THEOREM AccountedCorrect ==
  ASSUME SafeUse
  PROVE  Spec => []Accounted
<1>1. IInv => Accounted
  BY DEF IInv
<1> QED
  BY <1>1, Invariance, PTL

\* put_circ never answers CIRC_BUF_ERROR to a caller that holds one of the
\* Cap elements: the injector's PANIC after it is unreachable.
THEOREM PutNeverFailsCorrect ==
  ASSUME SafeUse
  PROVE  Spec => []PutNeverFails
<1>1. IInv => PutNeverFails
  BY Positions, CapAssumption DEF IInv, Accounted, PutNeverFails, InTransit
<1> QED
  BY <1>1, Invariance, PTL

\* The two threads never access one slot of the array at the same time.
THEOREM NoSlotRaceCorrect ==
  ASSUME SafeUse
  PROVE  Spec => []NoSlotRace
<1>1. IInv => NoSlotRace
  BY CapAssumption
  DEF IInv, NoSlotRace, GetInv, WrapInv, TypeOK, Used, Oldest, Slots, size
<1> QED
  BY <1>1, Invariance, PTL

-----------------------------------------------------------------------------
(***************************************************************************)
(* The ring implements the queue.                                          *)
(***************************************************************************)

\* The value the refinement mapping gives BoundedFifo's variable queue.
queue == [k \in 1 .. Used |-> buffer[SlotAt(k - 1)]]

\* The queue is a sequence of elements, and its length is Used.
LEMMA QueueIsSeq ==
  ASSUME TypeOK
  PROVE  queue \in Seq(Values \cup {Empty}) /\ Len(queue) = Used
<1>1. Used \in Nat /\ \A k \in 1 .. Used : SlotAt(k - 1) \in Slots
  BY Positions, CapAssumption
<1>2. \A k \in 1 .. Used : buffer[SlotAt(k - 1)] \in Values \cup {Empty}
  BY <1>1 DEF TypeOK
<1> QED
  BY <1>1, <1>2 DEF queue

\* Storing next to the last element appends to the queue.
LEMMA Appending ==
  ASSUME TypeOK, TypeOK', Oldest' = Oldest, Used' = Used + 1, buffer' = buffer
  PROVE  queue' = Append(queue, buffer[writePos])
<1>1. queue \in Seq(Values \cup {Empty}) /\ Len(queue) = Used /\ Used \in Nat
  BY QueueIsSeq, Positions, CapAssumption
<1>2. \A n \in Int : SlotAt(n)' = SlotAt(n)
  BY DEF SlotAt, size
<1>3. SlotAt(Used) = writePos
  BY Positions
<1>4. queue' = [k \in 1 .. Used + 1 |-> buffer[SlotAt(k - 1)]]
  BY <1>1, <1>2 DEF queue
<1>5. Append(queue, buffer[writePos])
        = [k \in 1 .. Used + 1 |-> IF k = Used + 1 THEN buffer[writePos]
                                                   ELSE queue[k]]
  BY <1>1
<1> QED
  BY <1>1, <1>3, <1>4, <1>5 DEF queue

\* Moving readPos on by one slot removes the oldest element.
LEMMA Removing ==
  ASSUME TypeOK, TypeOK', Used > 0, Used' = Used - 1, buffer' = buffer,
         Oldest' = IF Oldest + 1 = size THEN 0 ELSE Oldest + 1
  PROVE  /\ queue # <<>>
         /\ Head(queue) = buffer[Oldest]
         /\ queue' = Tail(queue)
<1>1. queue \in Seq(Values \cup {Empty}) /\ Len(queue) = Used /\ Used \in 0 .. Cap
  BY QueueIsSeq, Positions
<1>2. \A n \in 0 .. Cap - 1 : SlotAt(n)' = SlotAt(n + 1)
  <2>1. Oldest \in 0 .. Cap
    BY Positions DEF Slots
  <2> SUFFICES ASSUME NEW n \in 0 .. Cap - 1 PROVE SlotAt(n)' = SlotAt(n + 1)
    OBVIOUS
  <2>2. SlotAt(n)' = IF Oldest' + n >= Cap + 1 THEN Oldest' + n - (Cap + 1)
                                               ELSE Oldest' + n
    BY DEF SlotAt, size
  <2>3. SlotAt(n + 1) = IF Oldest + n + 1 >= Cap + 1
                          THEN Oldest + n + 1 - (Cap + 1) ELSE Oldest + n + 1
    BY <2>1, CapAssumption DEF SlotAt, size
  <2>4. Oldest' = IF Oldest + 1 = Cap + 1 THEN 0 ELSE Oldest + 1
    BY DEF size
  <2> QED
    BY <2>1, <2>2, <2>3, <2>4, CapAssumption
<1>3. queue # <<>> /\ Head(queue) = queue[1]
  BY <1>1
<1>4. queue[1] = buffer[Oldest]
  BY <1>1, Positions DEF queue
<1>5. Tail(queue) = [k \in 1 .. Used - 1 |-> queue[k + 1]]
  <2>1. /\ Tail(queue) \in Seq(Values \cup {Empty})
        /\ Len(Tail(queue)) = Used - 1
        /\ \A k \in 1 .. Used - 1 : Tail(queue)[k] = queue[k + 1]
    BY <1>1, <1>3, HeadTailProperties
  <2>2. Tail(queue) = [k \in 1 .. Used - 1 |-> Tail(queue)[k]]
    BY <2>1, LenProperties
  <2> QED
    BY <2>1, <2>2
<1>6. queue' = [k \in 1 .. Used - 1 |-> buffer[SlotAt(k)]]
  <2>1. queue' = [k \in 1 .. Used - 1 |-> buffer[SlotAt(k - 1)']]
    BY DEF queue
  <2>2. \A k \in 1 .. Used - 1 : SlotAt(k - 1)' = SlotAt(k)
    BY <1>1, <1>2, CapAssumption
  <2> QED
    BY <2>1, <2>2
<1>7. \A k \in 1 .. Used - 1 : queue[k + 1] = buffer[SlotAt(k)]
  BY <1>1, CapAssumption DEF queue
<1> QED
  BY <1>3, <1>4, <1>5, <1>6, <1>7

\* Changing a slot that holds no element leaves the queue as it is.
LEMMA Keeping ==
  ASSUME TypeOK, Oldest' = Oldest, Used' = Used,
         \A n \in 0 .. Used - 1 : buffer'[SlotAt(n)] = buffer[SlotAt(n)]
  PROVE  queue' = queue
<1>1. \A k \in 1 .. Used : SlotAt(k - 1)' = SlotAt(k - 1)
  BY DEF SlotAt, size
<1>2. \A k \in 1 .. Used : k - 1 \in 0 .. Used - 1
  BY Positions, CapAssumption
<1> QED
  BY <1>1, <1>2 DEF queue

\* An empty ring is an empty queue.
LEMMA InitRefines == Init => Fifo!Init
<1> SUFFICES ASSUME Init PROVE Fifo!Init
  OBVIOUS
<1>1. Used = 0
  BY DEF Init, Used, Oldest, size
<1>2. queue = <<>>
  BY <1>1 DEF queue
<1> QED
  BY <1>2 DEF Init, Fifo!Init, queue, CIRC_BUF_ERROR, Fifo!CIRC_BUF_ERROR

\* Each step of the ring is a step of the queue or leaves it as it is.
LEMMA NextRefines == IInv /\ IInv' /\ [Next]_vars => [Fifo!Next]_Fifo!vars
<1> SUFFICES ASSUME IInv, IInv', [Next]_vars PROVE [Fifo!Next]_Fifo!vars
  OBVIOUS
<1>t. TypeOK /\ TypeOK'
  BY DEF IInv
<1>q. queue \in Seq(Values \cup {Empty}) /\ Len(queue) = Used
  BY <1>t, QueueIsSeq
<1>s. ASSUME queue' = queue, lastPut' = lastPut, lastGet' = lastGet
      PROVE  [Fifo!Next]_Fifo!vars
  BY <1>s DEF queue, Fifo!vars
<1>1. ASSUME NEW e \in Values, PutCheck(e) PROVE [Fifo!Next]_Fifo!vars
  <2>1. queue' = queue
    BY <1>1, <1>t, Keeping DEF PutCheck, Oldest, Used
  <2>2. CASE IsFull
    <3>1. Len(queue) = Cap
      BY <1>q, <1>t, <2>2, Positions
    <3>2. Fifo!PutFull
      BY <1>1, <2>1, <2>2, <3>1
      DEF PutCheck, Fifo!PutFull, queue, CIRC_BUF_ERROR, Fifo!CIRC_BUF_ERROR
    <3> QED
      BY <3>2 DEF Fifo!Next
  <2>3. CASE ~ IsFull
    BY <1>1, <1>s, <2>1, <2>3 DEF PutCheck
  <2> QED
    BY <2>2, <2>3
<1>2. CASE PutStore
  <2>1. \A n \in 0 .. Used - 1 : buffer'[SlotAt(n)] = buffer[SlotAt(n)]
    <3>1. \A n \in 0 .. Used - 1 : SlotAt(n) # writePos /\ SlotAt(n) \in Slots
      BY <1>t, Positions, CapAssumption
    <3> QED
      BY <1>2, <1>t, <3>1 DEF PutStore, TypeOK
  <2>2. queue' = queue
    BY <1>2, <1>t, <2>1, Keeping DEF PutStore, Oldest, Used
  <2> QED
    BY <1>2, <1>s, <2>2 DEF PutStore
<1>3. CASE PutPublish
  <2>1. Used < Cap /\ put.e \in Values /\ buffer[writePos] = put.e
    BY <1>3, <1>t, Positions, CapAssumption
    DEF PutPublish, IInv, RoomInv, PutInv, InTransit
  <2>2. /\ writePos \in Slots /\ Oldest \in Slots
        /\ writePos' = NextWritePos /\ Oldest' = Oldest
    BY <1>3, <1>t, Positions DEF PutPublish, TypeOK, Oldest
  <2>3. Used' = Used + 1
    BY <2>1, <2>2, CapAssumption DEF Used, NextWritePos, Slots, size
  <2>4. queue' = Append(queue, put.e)
    BY <1>3, <1>t, <2>1, <2>2, <2>3, Appending DEF PutPublish
  <2>5. Fifo!Put(put.e)
    BY <1>3, <1>q, <2>1, <2>4 DEF PutPublish, Fifo!Put, queue
  <2> QED
    BY <2>1, <2>5 DEF Fifo!Next
<1>4. CASE GetCheck
  <2>1. queue' = queue
    BY <1>4, <1>t, Keeping DEF GetCheck, Oldest, Used
  <2>2. CASE readPos = writePos
    <3>1. Used = 0
      BY <1>t, <2>2, CapAssumption DEF TypeOK, Used, Oldest, Slots, size
    <3>2. queue = <<>>
      BY <1>q, <3>1
    <3>3. Fifo!GetEmpty
      BY <1>4, <2>1, <2>2, <3>2
      DEF GetCheck, Fifo!GetEmpty, queue, CIRC_BUF_ERROR, Fifo!CIRC_BUF_ERROR
    <3> QED
      BY <3>3 DEF Fifo!Next
  <2>3. CASE readPos # writePos
    BY <1>4, <1>s, <2>1, <2>3 DEF GetCheck
  <2> QED
    BY <2>2, <2>3
<1>5. CASE GetLoad
  <2>1. queue' = queue
    BY <1>5, <1>t, Keeping DEF GetLoad, Oldest, Used
  <2> QED
    BY <1>5, <1>s, <2>1 DEF GetLoad
<1>6. CASE GetAdvance
  <2>1. /\ Used > 0 /\ get.retValue = buffer[readPos]
        /\ readPos \in Slots /\ Oldest = readPos
    BY <1>6, <1>t, CapAssumption
    DEF GetAdvance, IInv, GetInv, WrapInv, TypeOK, Oldest, Slots, size
  <2>2. Oldest' = IF Oldest + 1 = size THEN 0 ELSE Oldest + 1
    BY <1>6, <2>1, CapAssumption DEF GetAdvance, Oldest, Slots, size
  <2>3. Used' = Used - 1
    <3>1. writePos' = writePos /\ writePos \in 0 .. Cap /\ Oldest \in 0 .. Cap
      BY <1>6, <1>t, <2>1 DEF GetAdvance, TypeOK, Slots, size
    <3> QED
      BY <2>1, <2>2, <3>1, CapAssumption DEF Used, size
  <2>4. queue # <<>> /\ Head(queue) = buffer[Oldest] /\ queue' = Tail(queue)
    BY <1>6, <1>t, <2>1, <2>2, <2>3, Removing DEF GetAdvance
  <2>5. Fifo!Get
    BY <1>6, <2>1, <2>4 DEF GetAdvance, Fifo!Get, queue
  <2> QED
    BY <2>5 DEF Fifo!Next
<1>7. CASE GetWrap
  <2>1. Oldest' = Oldest /\ Used' = Used
    BY <1>7, <1>t, CapAssumption
    DEF GetWrap, IInv, WrapInv, TypeOK, Oldest, Used, Slots, size
  <2>2. queue' = queue
    BY <1>7, <1>t, <2>1, Keeping DEF GetWrap
  <2> QED
    BY <1>7, <1>s, <2>2 DEF GetWrap
<1>8. CASE UNCHANGED vars
  <2>1. queue' = queue
    BY <1>8 DEF vars, queue, Used, Oldest, SlotAt
  <2> QED
    BY <1>8, <1>s, <2>1 DEF vars
<1> QED
  BY <1>1, <1>2, <1>3, <1>4, <1>5, <1>6, <1>7, <1>8 DEF Next, Producer, Consumer

\* The lock-free ring implements the bounded queue circular_buffer.h promises:
\* under the injector's use, or in a build with a single store of readPos,
\* every put_circ and get_circ answers as if it happened in one instant.
THEOREM RingImplementsFifo ==
  ASSUME SafeUse
  PROVE  Spec => ImplementsFifo
<1>1. IInv /\ IInv' /\ [Next]_vars => [Fifo!Next]_Fifo!vars
  BY NextRefines
<1>2. Init => Fifo!Init
  BY InitRefines
<1> QED
  BY <1>1, <1>2, Invariance, PTL DEF Spec, ImplementsFifo, Fifo!Spec
=============================================================================
