--------------------------- MODULE InjectorProofs ---------------------------
(***************************************************************************)
(* Proofs about Injector.tla, for every number of clients, every bound and *)
(* every behaviour of the server: a client is in one place at a time, and  *)
(* a thread that hands a client over always finds room in the queue.       *)
(***************************************************************************)
EXTENDS Injector, FiniteSetTheorems, SequenceTheorems, TLAPS

-----------------------------------------------------------------------------
(***************************************************************************)
(* Queues without duplicates.                                              *)
(***************************************************************************)

\* get_circ on a queue without duplicates: what it returns is no longer there.
LEMMA TakenOut ==
  ASSUME NEW S, NEW q \in Seq(S), q # <<>>, NoDuplicates(q)
  PROVE  /\ Tail(q) \in Seq(S)
         /\ Head(q) \in SeqSet(q) /\ Head(q) \in S
         /\ NoDuplicates(Tail(q))
         /\ SeqSet(Tail(q)) = SeqSet(q) \ {Head(q)}
<1>1. /\ Tail(q) \in Seq(S) /\ Len(Tail(q)) = Len(q) - 1 /\ Len(q) \in Nat \ {0}
      /\ \A k \in 1 .. Len(Tail(q)) : Tail(q)[k] = q[k + 1]
      /\ Head(q) = q[1] /\ Head(q) \in S
  BY HeadTailProperties, EmptySeq
<1>2. Head(q) \in SeqSet(q)
  BY <1>1 DEF SeqSet
<1>3. NoDuplicates(Tail(q))
  BY <1>1 DEF NoDuplicates
<1>4. SeqSet(Tail(q)) \subseteq SeqSet(q) \ {Head(q)}
  <2> SUFFICES ASSUME NEW k \in 1 .. Len(Tail(q))
               PROVE  Tail(q)[k] \in SeqSet(q) /\ Tail(q)[k] # Head(q)
    BY DEF SeqSet
  <2>1. k + 1 \in 1 .. Len(q) /\ 1 \in 1 .. Len(q) /\ k + 1 # 1
    BY <1>1
  <2> QED
    BY <1>1, <2>1 DEF SeqSet, NoDuplicates
<1>5. SeqSet(q) \ {Head(q)} \subseteq SeqSet(Tail(q))
  <2> SUFFICES ASSUME NEW k \in 1 .. Len(q), q[k] # Head(q)
               PROVE  q[k] \in SeqSet(Tail(q))
    BY DEF SeqSet
  <2>1. k - 1 \in 1 .. Len(Tail(q)) /\ Tail(q)[k - 1] = q[k]
    BY <1>1
  <2> QED
    BY <2>1 DEF SeqSet
<1> QED
  BY <1>1, <1>2, <1>3, <1>4, <1>5

\* put_circ of a client that is not in the queue.
LEMMA PutIn ==
  ASSUME NEW S, NEW q \in Seq(S), NEW e \in S, NoDuplicates(q), e \notin SeqSet(q)
  PROVE  /\ Append(q, e) \in Seq(S)
         /\ NoDuplicates(Append(q, e))
         /\ SeqSet(Append(q, e)) = SeqSet(q) \cup {e}
<1>1. /\ Append(q, e) \in Seq(S) /\ Len(Append(q, e)) = Len(q) + 1
      /\ Len(q) \in Nat
      /\ \A k \in 1 .. Len(q) : Append(q, e)[k] = q[k]
      /\ Append(q, e)[Len(q) + 1] = e
  BY AppendProperties, LenProperties
<1>2. \A k \in 1 .. Len(q) : q[k] # e
  BY DEF SeqSet
<1>3. \A k \in 1 .. Len(q) + 1 : k \in 1 .. Len(q) \/ k = Len(q) + 1
  BY <1>1
<1>4. NoDuplicates(Append(q, e))
  BY <1>1, <1>2, <1>3 DEF NoDuplicates
<1>5. SeqSet(Append(q, e)) \subseteq SeqSet(q) \cup {e}
  BY <1>1, <1>3 DEF SeqSet
<1>6. SeqSet(q) \cup {e} \subseteq SeqSet(Append(q, e))
  BY <1>1 DEF SeqSet
<1> QED
  BY <1>1, <1>4, <1>5, <1>6

\* A queue of clients that lacks one of them is not full.
LEMMA RoomForOneMore ==
  ASSUME NEW q \in Seq(Clients), NoDuplicates(q),
         NEW i \in Clients, i \notin SeqSet(q)
  PROVE  Len(q) < N
<1> DEFINE Others == Clients \ {i}
<1>1. N \in Nat /\ Len(q) \in Nat /\ DOMAIN q = 1 .. Len(q)
      /\ q \in [1 .. Len(q) -> Clients]
  BY InjectorAssumption, LenProperties
<1>2. IsFiniteSet(Clients) /\ Cardinality(Clients) = N
  <2>1. 0 \in Int /\ N - 1 \in Int /\ (IF 0 > N - 1 THEN 0 ELSE N - 1 - 0 + 1) = N
    BY <1>1
  <2> QED
    BY <2>1, FS_Interval DEF Clients
<1>3. IsFiniteSet(Others) /\ Cardinality(Others) = N - 1
  BY <1>2, FS_RemoveElement
<1>4. q \in Injection(1 .. Len(q), Others)
  <2>1. q \in [1 .. Len(q) -> Others]
    BY <1>1 DEF SeqSet
  <2>2. IsInjective(q)
    BY <1>1 DEF NoDuplicates, IsInjective
  <2> QED
    BY <2>1, <2>2 DEF Injection
<1>5. Cardinality(1 .. Len(q)) <= Cardinality(Others)
  <2> HIDE DEF Others
  <2> QED
    BY <1>3, <1>4, FS_Injection
<1>6. Cardinality(1 .. Len(q)) = Len(q)
  <2>1. (IF 1 > Len(q) THEN 0 ELSE Len(q) - 1 + 1) = Len(q)
    BY <1>1
  <2> QED
    BY <1>1, <2>1, FS_Interval
<1> QED
  BY <1>1, <1>3, <1>5, <1>6

-----------------------------------------------------------------------------
(***************************************************************************)
(* The inductive invariant.  OneOwner is not inductive: what a thread is   *)
(* handing over must be known to be in its hands only.                     *)
(***************************************************************************)
Places == {"fill", "select", "scan", "hand", "done"}

Shape ==
  /\ toWriteBuffer \in Seq(Clients) /\ toReadBuffer \in Seq(Clients)
  /\ internalToWrite \subseteq Clients /\ internalToRead \subseteq Clients
  /\ writer = [at |-> writer.at, i |-> writer.i] /\ writer.at \in Places
  /\ reader = [at |-> reader.at, i |-> reader.i, fd |-> reader.fd]
  /\ reader.at \in Places

\* The writing thread has already unmarked the client it hands over, the
\* reading thread has not.
Hands ==
  phase = "run" =>
    /\ writer.at = "hand" => writer.i \in Clients \ internalToWrite
    /\ reader.at = "hand" => reader.i \in internalToRead

OwnerInv == Shape /\ Hands /\ OneOwner

\* The part of the state the invariant is about.
ownerVars == <<toWriteBuffer, toReadBuffer, internalToWrite, internalToRead>>

\* Before the first order.
LEMMA InitOwner == Init => OwnerInv
  BY InjectorAssumption
  DEF Init, OwnerInv, Shape, Hands, OneOwner, Places

\* At the start of a run all clients are in toWriteBuffer.
LEMMA TakeOrderOwner == ASSUME TakeOrder PROVE OwnerInv'
<1> DEFINE q == [k \in 1 .. N |-> k - 1]
<1>1. /\ toWriteBuffer' = q /\ toReadBuffer' = <<>>
      /\ internalToWrite' = {} /\ internalToRead' = {}
      /\ writer' = [at |-> "fill", i |-> 0]
      /\ reader' = [at |-> "fill", i |-> 0, fd |-> -1]
  BY DEF TakeOrder
<1>2. q \in Seq(Clients) /\ Len(q) = N /\ <<>> \in Seq(Clients) /\ Len(<<>>) = 0
  BY InjectorAssumption DEF Clients
<1>3. NoDuplicates(q) /\ NoDuplicates(<<>>)
  BY <1>2, InjectorAssumption DEF NoDuplicates
<1>4. SeqSet(q) = Clients
  <2>1. \A i \in Clients : i + 1 \in 1 .. N /\ q[i + 1] = i
    BY InjectorAssumption DEF Clients
  <2>2. \A k \in 1 .. N : q[k] \in Clients
    BY InjectorAssumption DEF Clients
  <2> QED
    BY <1>2, <2>1, <2>2 DEF SeqSet
<1>5. SeqSet(<<>>) = {}
  BY <1>2 DEF SeqSet
<1>6. WriterHas' = {} /\ ReaderHas' = {}
  BY <1>1 DEF WriterHas, ReaderHas, WriterHand
<1> HIDE DEF q
<1>7. Shape' /\ Hands'
  BY <1>1, <1>2 DEF Shape, Hands, Places
<1>8. OneOwner'
  BY <1>1, <1>3, <1>4, <1>5, <1>6 DEF OneOwner
<1> QED
  BY <1>7, <1>8 DEF OwnerInv

\* Most steps move no client.
LEMMA NoMove ==
  ASSUME OwnerInv, UNCHANGED ownerVars, phase' = "run" => phase = "run",
         Shape', Hands',
         phase' = "run" => WriterHand' = WriterHand
  PROVE  OwnerInv'
  BY DEF OwnerInv, OneOwner, ownerVars, WriterHas, ReaderHas, WriterHand

\* writingFunc takes a client out of toWriteBuffer.
LEMMA WriterTakesOwner == ASSUME OwnerInv, WriterTakes PROVE OwnerInv'
<1> DEFINE i == Head(toWriteBuffer)
<1>1. /\ phase = "run" /\ writer.at = "fill" /\ toWriteBuffer # <<>>
      /\ internalToWrite' = internalToWrite \cup {i}
      /\ toWriteBuffer' = Tail(toWriteBuffer)
      /\ UNCHANGED <<toReadBuffer, internalToRead, writer, reader, phase>>
  BY DEF WriterTakes, Running, readerVars, mainVars
<1>2. OneOwner /\ toWriteBuffer \in Seq(Clients)
  BY DEF OwnerInv, Shape
<1>3. /\ toWriteBuffer' \in Seq(Clients)
      /\ i \in SeqSet(toWriteBuffer) /\ i \in Clients
      /\ NoDuplicates(toWriteBuffer')
      /\ SeqSet(toWriteBuffer') = SeqSet(toWriteBuffer) \ {i}
  BY <1>1, <1>2, TakenOut DEF OneOwner
<1> HIDE DEF i
<1>4. WriterHas' = WriterHas \cup {i} /\ ReaderHas' = ReaderHas
  BY <1>1 DEF WriterHas, ReaderHas, WriterHand
<1>5. OneOwner'
  BY <1>1, <1>2, <1>3, <1>4 DEF OneOwner
<1>6. Shape' /\ Hands'
  BY <1>1, <1>3 DEF OwnerInv, Shape, Hands
<1> QED
  BY <1>5, <1>6 DEF OwnerInv

\* writingFunc unmarks the client it has sent a request for.
LEMMA SendRequestOwner ==
  ASSUME OwnerInv, NEW i \in Clients, SendRequest(i) PROVE OwnerInv'
<1>1. /\ phase = "run" /\ writer.at = "scan" /\ i \in internalToWrite
      /\ internalToWrite' = internalToWrite \ {i}
      /\ writer' = [at |-> "hand", i |-> i]
      /\ UNCHANGED <<toWriteBuffer, toReadBuffer, internalToRead, reader, phase>>
  BY DEF SendRequest, WriterAt, Running, readerVars, mainVars
<1>2. WriterHas' = WriterHas /\ ReaderHas' = ReaderHas
  BY <1>1 DEF WriterHas, ReaderHas, WriterHand
<1>3. OneOwner'
  BY <1>1, <1>2 DEF OwnerInv, OneOwner
<1>4. Shape' /\ Hands'
  BY <1>1 DEF OwnerInv, Shape, Hands, Places
<1> QED
  BY <1>3, <1>4 DEF OwnerInv

\* writingFunc puts the client it has unmarked into toReadBuffer.
LEMMA WriterHandsOwner == ASSUME OwnerInv, WriterHands PROVE OwnerInv'
<1> DEFINE i == writer.i
<1>1. /\ phase = "run" /\ writer.at = "hand"
      /\ UNCHANGED <<toWriteBuffer, internalToWrite, internalToRead, reader, phase>>
  BY DEF WriterHands, Running, readerVars
<1>2. CASE Len(toReadBuffer) < N
  <2>1. /\ toReadBuffer' = Append(toReadBuffer, i)
        /\ writer' = [at |-> "scan", i |-> i + 1]
    BY <1>2 DEF WriterHands
  <2>2. /\ i \in Clients \ internalToWrite /\ toReadBuffer \in Seq(Clients)
        /\ i \in WriterHas /\ OneOwner
    BY <1>1 DEF OwnerInv, Shape, Hands, WriterHas, WriterHand
  <2>3. /\ toReadBuffer' \in Seq(Clients) /\ NoDuplicates(toReadBuffer')
        /\ SeqSet(toReadBuffer') = SeqSet(toReadBuffer) \cup {i}
    BY <1>1, <2>1, <2>2, PutIn DEF OneOwner
  <2> HIDE DEF i
  <2>4. WriterHas' = WriterHas \ {i} /\ ReaderHas' = ReaderHas
    BY <1>1, <2>1, <2>2 DEF WriterHas, ReaderHas, WriterHand, i
  <2>5. OneOwner'
    BY <1>1, <2>2, <2>3, <2>4 DEF OneOwner
  <2>6. Shape' /\ Hands'
    BY <1>1, <2>1, <2>3 DEF OwnerInv, Shape, Hands, Places
  <2> QED
    BY <2>5, <2>6 DEF OwnerInv
<1>3. CASE ~ (Len(toReadBuffer) < N)
  <2>1. UNCHANGED <<toReadBuffer, writer>>
    BY <1>3 DEF WriterHands
  <2> QED
    BY <1>1, <2>1, NoMove DEF ownerVars, WriterHand, OwnerInv, Shape, Hands
<1> QED
  BY <1>2, <1>3

\* readingFunc takes a client out of toReadBuffer.
LEMMA ReaderTakesOwner == ASSUME OwnerInv, ReaderTakes PROVE OwnerInv'
<1> DEFINE i == Head(toReadBuffer)
<1>1. /\ phase = "run" /\ reader.at = "fill" /\ toReadBuffer # <<>>
      /\ internalToRead' = internalToRead \cup {i}
      /\ toReadBuffer' = Tail(toReadBuffer)
      /\ UNCHANGED <<toWriteBuffer, internalToWrite, writer, reader, phase>>
  BY DEF ReaderTakes, Running, writerVars, mainVars
<1>2. OneOwner /\ toReadBuffer \in Seq(Clients)
  BY DEF OwnerInv, Shape
<1>3. /\ toReadBuffer' \in Seq(Clients)
      /\ i \in SeqSet(toReadBuffer) /\ i \in Clients
      /\ NoDuplicates(toReadBuffer')
      /\ SeqSet(toReadBuffer') = SeqSet(toReadBuffer) \ {i}
  BY <1>1, <1>2, TakenOut DEF OneOwner
<1> HIDE DEF i
<1>4. WriterHas' = WriterHas /\ ReaderHas' = ReaderHas \cup {i}
  BY <1>1 DEF WriterHas, ReaderHas, WriterHand
<1>5. OneOwner'
  BY <1>1, <1>2, <1>3, <1>4 DEF OneOwner
<1>6. Shape' /\ Hands'
  BY <1>1, <1>3 DEF OwnerInv, Shape, Hands
<1> QED
  BY <1>5, <1>6 DEF OwnerInv

\* readingFunc unmarks a client and puts it into toWriteBuffer.
LEMMA ReaderHandsOwner == ASSUME OwnerInv, ReaderHands PROVE OwnerInv'
<1> DEFINE i == reader.i
<1>1. /\ phase = "run" /\ reader.at = "hand"
      /\ internalToRead' = internalToRead \ {i}
      /\ UNCHANGED <<toReadBuffer, internalToWrite, writer, phase>>
  BY DEF ReaderHands, StillToRead, Running, writerVars
<1>2. /\ i \in internalToRead /\ i \in Clients /\ toWriteBuffer \in Seq(Clients)
      /\ i \in ReaderHas /\ i \notin SeqSet(toWriteBuffer) /\ OneOwner
      /\ NoDuplicates(toWriteBuffer)
  BY <1>1 DEF OwnerInv, Shape, Hands, ReaderHas, OneOwner
<1>3. Len(toWriteBuffer) < N
  BY <1>2, RoomForOneMore
<1>4. /\ toWriteBuffer' = Append(toWriteBuffer, i)
      /\ reader' = [at |-> "scan", i |-> i + 1, fd |-> -1]
  BY <1>3 DEF ReaderHands, GivenBack
<1>5. /\ toWriteBuffer' \in Seq(Clients) /\ NoDuplicates(toWriteBuffer')
      /\ SeqSet(toWriteBuffer') = SeqSet(toWriteBuffer) \cup {i}
  BY <1>2, <1>4, PutIn
<1> HIDE DEF i
<1>6. WriterHas' = WriterHas /\ ReaderHas' = ReaderHas \ {i}
  BY <1>1 DEF WriterHas, ReaderHas, WriterHand
<1>7. OneOwner'
  BY <1>1, <1>2, <1>5, <1>6 DEF OneOwner
<1>8. Shape' /\ Hands'
  BY <1>1, <1>4, <1>5 DEF OwnerInv, Shape, Hands, Places
<1> QED
  BY <1>7, <1>8 DEF OwnerInv

\* A step of the writing thread that moves no client.
LEMMA WriterStays ==
  ASSUME OwnerInv, UNCHANGED <<ownerVars, phase, reader>>,
         writer.at # "hand" \/ writer' = writer,
         NEW at \in Places \ {"hand"}, NEW i,
         writer' = writer \/ writer' = [at |-> at, i |-> i]
  PROVE  OwnerInv'
<1>1. WriterHand' = WriterHand
  BY DEF WriterHand
<1>2. Shape' /\ Hands'
  BY DEF OwnerInv, Shape, Hands, ownerVars
<1> QED
  BY <1>1, <1>2, NoMove

\* A step of the reading thread that moves no client.  When it goes on to hand
\* one over, that is a client it has marked.
LEMMA ReaderStays ==
  ASSUME OwnerInv, UNCHANGED <<ownerVars, phase, writer>>,
         NEW at \in Places, NEW i, NEW f,
         at = "hand" => i \in internalToRead,
         reader' = reader \/ reader' = [at |-> at, i |-> i, fd |-> f]
  PROVE  OwnerInv'
<1>1. WriterHand' = WriterHand
  BY DEF WriterHand
<1>2. Shape' /\ Hands'
  BY DEF OwnerInv, Shape, Hands, ownerVars
<1> QED
  BY <1>1, <1>2, NoMove

\* main moves clients only when no thread runs.
LEMMA MainOwner == ASSUME OwnerInv, Main PROVE OwnerInv'
<1>1. CASE TakeOrder
  BY <1>1, TakeOrderOwner
<1>2. ASSUME OrderFails \/ ReportFails PROVE OwnerInv'
  <2>1. UNCHANGED <<ownerVars, phase, writer, reader>>
    BY <1>2 DEF OrderFails, ReportFails, ownerVars, writerVars, readerVars
  <2> QED
    BY <2>1, WriterStays DEF Places
<1>3. ASSUME ComputeStats \/ Report PROVE OwnerInv'
  <2>1. UNCHANGED <<ownerVars, writer, reader>> /\ phase' # "run"
    BY <1>3 DEF ComputeStats, Report, ownerVars, writerVars, readerVars
  <2> QED
    BY <2>1 DEF OwnerInv, Shape, Hands, OneOwner, ownerVars
<1>4. CASE Clean
  <2>1. /\ UNCHANGED <<internalToWrite, internalToRead, writer, reader>>
        /\ toWriteBuffer' = <<>> /\ toReadBuffer' = <<>> /\ phase' = "order"
    BY <1>4 DEF Clean, writerVars, readerVars
  <2> QED
    BY <2>1 DEF OwnerInv, Shape, Hands, OneOwner
<1> QED
  BY <1>1, <1>2, <1>3, <1>4 DEF Main

\* Every step of writingFunc.
LEMMA WriterOwner == ASSUME OwnerInv, WriterStep PROVE OwnerInv'
<1> USE DEF Places
<1>1. CASE WriterTakes
  BY <1>1, WriterTakesOwner
<1>2. CASE WriterHands
  BY <1>2, WriterHandsOwner
<1>3. CASE WriterFilled
  <2>1. /\ UNCHANGED <<ownerVars, phase, reader>> /\ writer.at # "hand"
        /\ writer' = [at |-> "select", i |-> writer.i]
    BY <1>3 DEF WriterFilled, ownerVars, readerVars, mainVars, OwnerInv, Shape
  <2> QED
    BY <2>1, WriterStays
<1>4. CASE WriterSelects
  <2>1. /\ UNCHANGED <<ownerVars, phase, reader>> /\ writer.at # "hand"
        /\ writer' = [at |-> "scan", i |-> 0]
    BY <1>4 DEF WriterSelects, ownerVars, readerVars, mainVars
  <2> QED
    BY <2>1, WriterStays
<1>5. CASE WriterLoops
  <2>1. /\ UNCHANGED <<ownerVars, phase, reader>> /\ writer.at # "hand"
        /\ writer' = [at |-> IF timeUp THEN "done" ELSE "fill", i |-> 0]
    BY <1>5 DEF WriterLoops, ownerVars, readerVars, mainVars
  <2> QED
    BY <2>1, WriterStays
<1>6. ASSUME NEW i \in Clients,
             \/ WriterWaits(i) \/ FinalizeConnect(i)
             \/ InitializeConnect(i) \/ InitializeConnectLater(i)
      PROVE  OwnerInv'
  <2>1. /\ UNCHANGED <<ownerVars, phase, reader>> /\ writer.at = "scan"
        /\ writer' = [writer EXCEPT !.i = i + 1]
    BY <1>6
    DEF WriterWaits, FinalizeConnect, InitializeConnect, InitializeConnectLater,
        WriterAt, ownerVars, readerVars, mainVars
  <2>2. writer' = [at |-> "scan", i |-> i + 1]
    BY <2>1 DEF OwnerInv, Shape
  <2> QED
    BY <2>1, <2>2, WriterStays
<1>7. ASSUME NEW i \in Clients,
             \/ SendRequestError(i) \/ SendRequestShort(i)
             \/ InitializeConnectFails(i)
      PROVE  OwnerInv'
  <2>1. UNCHANGED <<ownerVars, phase, reader, writer>>
    BY <1>7
    DEF SendRequestError, SendRequestShort, InitializeConnectFails, ownerVars,
        writerVars, readerVars
  <2> QED
    BY <2>1, WriterStays
<1>8. ASSUME NEW i \in Clients, SendRequest(i) PROVE OwnerInv'
  BY <1>8, SendRequestOwner
<1> QED
  BY <1>1, <1>2, <1>3, <1>4, <1>5, <1>6, <1>7, <1>8 DEF WriterStep

\* Every step of readingFunc.
LEMMA ReaderOwner == ASSUME OwnerInv, ReaderStep PROVE OwnerInv'
<1> USE DEF Places
<1>1. CASE ReaderTakes
  BY <1>1, ReaderTakesOwner
<1>2. CASE ReaderHands
  BY <1>2, ReaderHandsOwner
<1>3. CASE ReaderFilled
  <2> DEFINE at == IF maxFd > -1 THEN "select"
                   ELSE IF timeUp THEN "done" ELSE "fill"
  <2>1. /\ UNCHANGED <<ownerVars, phase, writer>>
        /\ reader' = [at |-> at, i |-> reader.i, fd |-> reader.fd]
    BY <1>3 DEF ReaderFilled, ownerVars, writerVars, mainVars, OwnerInv, Shape
  <2>2. at \in Places /\ at # "hand"
    OBVIOUS
  <2> HIDE DEF at
  <2> QED
    BY <2>1, <2>2, ReaderStays
<1>4. CASE ReaderSelects
  <2>1. /\ UNCHANGED <<ownerVars, phase, writer>>
        /\ reader' = reader \/ reader' = [reader EXCEPT !.at = "scan", !.i = 0]
    BY <1>4 DEF ReaderSelects, ownerVars, writerVars
  <2>2. reader' = reader
        \/ reader' = [at |-> "scan", i |-> 0, fd |-> reader.fd]
    BY <2>1 DEF OwnerInv, Shape
  <2> QED
    BY <2>1, <2>2, ReaderStays
<1>5. CASE ReaderLoops
  <2>1. /\ UNCHANGED <<ownerVars, phase, writer>>
        /\ reader' = [at |-> IF timeUp THEN "done" ELSE "fill", i |-> 0,
                      fd |-> -1]
    BY <1>5 DEF ReaderLoops, ownerVars, writerVars, mainVars
  <2> QED
    BY <2>1, ReaderStays
<1>6. ASSUME NEW i \in Clients, ReaderWaits(i) PROVE OwnerInv'
  <2>1. /\ UNCHANGED <<ownerVars, phase, writer>> /\ reader.at = "scan"
        /\ reader' = [reader EXCEPT !.i = i + 1]
    BY <1>6 DEF ReaderWaits, ReaderAt, ownerVars, writerVars, mainVars
  <2>2. reader' = [at |-> "scan", i |-> i + 1, fd |-> reader.fd]
    BY <2>1 DEF OwnerInv, Shape
  <2> QED
    BY <2>1, <2>2, ReaderStays
<1>7. ASSUME NEW i \in Clients,
             \/ ReadNothing(i)
             \/ \E n \in 1 .. AnswerLen : ReadHeaders(i, n) \/ ReadContent(i, n)
      PROVE  OwnerInv'
  <2>1. /\ UNCHANGED <<ownerVars, phase, writer>> /\ i \in internalToRead
        /\ AfterRead(i) \/ reader' = reader
    BY <1>7
    DEF ReadNothing, ReadHeaders, ReadContent, UnchangedByRead, ReaderAt,
        ownerVars, writerVars
  <2>2. CASE reader' = reader
    BY <2>1, <2>2, ReaderStays
  <2>3. CASE AfterRead(i)
    <3>1. CASE client'[i].state = "READING"
      <4>1. reader' = [at |-> "scan", i |-> i + 1, fd |-> -1]
        BY <2>3, <3>1 DEF AfterRead
      <4> QED
        BY <2>1, <4>1, ReaderStays
    <3>2. CASE client'[i].state # "READING"
      <4>1. reader' = [at |-> "hand", i |-> i, fd |-> client[i].fd]
        BY <2>3, <3>2 DEF AfterRead
      <4> QED
        BY <2>1, <4>1, ReaderStays
    <3> QED
      BY <3>1, <3>2
  <2> QED
    BY <2>1, <2>2, <2>3
<1> QED
  BY <1>1, <1>2, <1>3, <1>4, <1>5, <1>6, <1>7 DEF ReaderStep

\* The clock, the network and the server move no client.
LEMMA EnvironmentOwner == ASSUME OwnerInv, Environment PROVE OwnerInv'
<1>1. UNCHANGED <<ownerVars, phase, writer, reader>>
  BY DEF Environment, Timeout, Accept, AnswerBad, ServerCloses, ServerResets,
         ConnectError, Answer, UnchangedByServer, ownerVars, writerVars,
         readerVars, mainVars
<1> QED
  BY <1>1, WriterStays DEF Places

\* The invariant is inductive.
LEMMA NextOwner == OwnerInv /\ [Next]_vars => OwnerInv'
<1> SUFFICES ASSUME OwnerInv, [Next]_vars PROVE OwnerInv'
  OBVIOUS
<1>1. CASE UNCHANGED vars
  <2>1. UNCHANGED <<ownerVars, phase, writer, reader>>
    BY <1>1 DEF vars, ownerVars, writerVars, readerVars, mainVars
  <2> QED
    BY <2>1, WriterStays DEF Places
<1>2. CASE Terminated
  BY <1>1, <1>2 DEF Terminated
<1> QED
  BY <1>1, <1>2, MainOwner, WriterOwner, ReaderOwner, EnvironmentOwner DEF Next

-----------------------------------------------------------------------------
(***************************************************************************)
(* The theorems.                                                           *)
(***************************************************************************)
\* Every reachable state satisfies the inductive invariant: each client is in
\* one place, and what a thread is handing over is in its hands only.
THEOREM OwnerInvariance == Spec => []OwnerInv
  BY InitOwner, NextOwner, PTL DEF Spec

\* At any time of a run each client is with one of the threads or once in one
\* of the queues: the records and sockets the threads share without a lock are
\* never used by both, and no client is lost.
THEOREM OneOwnerCorrect == Spec => []OneOwner
<1>1. OwnerInv => OneOwner
  BY DEF OwnerInv
<1> QED
  BY <1>1, OwnerInvariance, PTL

\* A thread that hands a client over always finds room in the queue: the two
\* calls of PANIC after put_circ cannot be reached.
THEOREM HandsHaveRoomCorrect == Spec => []HandsHaveRoom
<1>1. OwnerInv => HandsHaveRoom
  <2> SUFFICES ASSUME OwnerInv, phase = "run"
               PROVE  /\ writer.at = "hand" => Len(toReadBuffer) < N
                      /\ reader.at = "hand" => Len(toWriteBuffer) < N
    BY DEF HandsHaveRoom
  <2>1. /\ toWriteBuffer \in Seq(Clients) /\ toReadBuffer \in Seq(Clients)
        /\ NoDuplicates(toWriteBuffer) /\ NoDuplicates(toReadBuffer)
    BY DEF OwnerInv, Shape, OneOwner
  <2>2. ASSUME writer.at = "hand" PROVE Len(toReadBuffer) < N
    <3>1. writer.i \in Clients /\ writer.i \notin SeqSet(toReadBuffer)
      BY <2>2 DEF OwnerInv, Hands, OneOwner, WriterHas, WriterHand
    <3> QED
      BY <2>1, <3>1, RoomForOneMore
  <2>3. ASSUME reader.at = "hand" PROVE Len(toWriteBuffer) < N
    <3>1. reader.i \in Clients /\ reader.i \notin SeqSet(toWriteBuffer)
      BY <2>3 DEF OwnerInv, Shape, Hands, OneOwner, ReaderHas
    <3> QED
      BY <2>1, <3>1, RoomForOneMore
  <2> QED
    BY <2>2, <2>3
<1> QED
  BY <1>1, OwnerInvariance, PTL
=============================================================================
