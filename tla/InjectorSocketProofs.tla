------------------------ MODULE InjectorSocketProofs ------------------------
(***************************************************************************)
(* More about Injector.tla, for every number of clients, every length of   *)
(* the answers and every behaviour of the server: whose a socket is, what  *)
(* is in the select sets and what select has answered, why the process may *)
(* exit, and the types of the variables.                                   *)
(*                                                                         *)
(* InjectorProofs has shown that a client is in one place.  Here the parts *)
(* of the invariant are one for the sockets and the client records, and    *)
(* one for each thread; a step of a thread is a change of one client and   *)
(* its socket, which the other thread's part does not see.                 *)
(***************************************************************************)
EXTENDS InjectorProofs, SumTheorems

-----------------------------------------------------------------------------
(***************************************************************************)
(* File descriptors                                                        *)
(***************************************************************************)

\* socket and accept return the lowest descriptor that is free.
LEMMA MinFree ==
  ASSUME FreeFds # {}
  PROVE  Min(FreeFds) \in FreeFds
<1>1. FreeFds \subseteq Nat
  BY InjectorAssumption DEF FreeFds, Fds
<1>2. \E x \in FreeFds : \A y \in FreeFds : x <= y
  BY <1>1, SmallestExists
<1> QED
  BY <1>2 DEF Min

\* The highest of a set of descriptors.
LEMMA MaxOfFds ==
  ASSUME NEW S \in SUBSET Fds, S # {}
  PROVE  Max(S) \in S /\ \A f \in S : f <= Max(S)
<1> DEFINE T == {n \in Nat : FirstFd + N - n \in S}
<1>1. FirstFd \in Nat /\ N \in Nat /\ Fds = FirstFd .. FirstFd + N
  BY InjectorAssumption DEF Fds
<1>2. \A f \in S : FirstFd + N - f \in T
  BY <1>1
<1>3. T \subseteq Nat /\ T # {}
  BY <1>2
<1>4. PICK x \in T : \A y \in T : x <= y
  <2> HIDE DEF T
  <2> QED
    BY <1>3, SmallestExists
<1>5. ASSUME NEW f \in S PROVE f <= FirstFd + N - x
  <2>1. FirstFd + N - f \in T /\ x \in Nat /\ f \in Int
    BY <1>1, <1>2
  <2>2. x <= FirstFd + N - f
    BY <1>4, <2>1
  <2> QED
    BY <1>1, <2>1, <2>2
<1>6. FirstFd + N - x \in S
  OBVIOUS
<1>7. \E m \in S : \A f \in S : m >= f
  BY <1>1, <1>5, <1>6
<1>8. Max(S) \in S /\ \A f \in S : Max(S) >= f
  BY <1>7 DEF Max
<1> QED
  BY <1>1, <1>8

\* Fewer clients than descriptors: a client without one finds one, while the
\* others have at most one each and the master has one.
LEMMA FdForEach ==
  ASSUME NEW i \in Clients, client[i].fd = -1,
         {f \in Fds : sock[f].st # "free"}
           \subseteq {client[j].fd : j \in Clients} \cup {masterOrderSocket}
  PROVE  FreeFds # {}
<1> SUFFICES ASSUME FreeFds = {} PROVE FALSE
  OBVIOUS
<1>1. N \in Nat /\ FirstFd \in Nat
  BY InjectorAssumption
<1> DEFINE Owner == [f \in Fds |-> IF f = masterOrderSocket THEN i
                                   ELSE CHOOSE j \in Clients : client[j].fd = f]
<1>2. ASSUME NEW f \in Fds, f # masterOrderSocket
      PROVE  Owner[f] \in Clients /\ client[Owner[f]].fd = f
  <2>1. \E j \in Clients : client[j].fd = f
    BY <1>2 DEF FreeFds
  <2> QED
    BY <1>2, <2>1
<1>3. \A f \in Fds : f # -1
  BY <1>1 DEF Fds
<1>4. Owner \in Injection(Fds, Clients)
  <2>1. Owner \in [Fds -> Clients]
    BY <1>2
  <2>2. ASSUME NEW f \in Fds, NEW g \in Fds, Owner[f] = Owner[g] PROVE f = g
    <3>1. f # masterOrderSocket => client[Owner[f]].fd = f
      BY <1>2
    <3>2. g # masterOrderSocket => client[Owner[g]].fd = g
      BY <1>2
    <3>3. /\ f = masterOrderSocket => Owner[f] = i
          /\ g = masterOrderSocket => Owner[g] = i
      OBVIOUS
    <3> HIDE DEF Owner
    <3> QED
      BY <1>3, <2>2, <3>1, <3>2, <3>3
  <2> HIDE DEF Owner
  <2> QED
    BY <2>1, <2>2 DEF Injection, IsInjective
<1>5. IsFiniteSet(Clients) /\ Cardinality(Clients) = N
  <2>1. 0 \in Int /\ N - 1 \in Int /\ (IF 0 > N - 1 THEN 0 ELSE N - 1 - 0 + 1) = N
    BY <1>1
  <2> QED
    BY <2>1, FS_Interval DEF Clients
<1>6. Cardinality(Fds) = N + 1
  <2> DEFINE last == FirstFd + N
  <2>1. /\ FirstFd \in Int /\ last \in Int /\ ~ (FirstFd > last)
        /\ last - FirstFd + 1 = N + 1
    BY <1>1
  <2> HIDE DEF last
  <2>2. Cardinality(FirstFd .. last) = N + 1
    BY <2>1, FS_Interval
  <2> QED
    BY <2>2 DEF Fds, last
<1>7. Cardinality(Fds) <= Cardinality(Clients)
  <2> HIDE DEF Owner
  <2> QED
    BY <1>4, <1>5, FS_Injection
<1> QED
  BY <1>1, <1>5, <1>6, <1>7
-----------------------------------------------------------------------------
(***************************************************************************)
(* The invariant: sockets and client records                               *)
(***************************************************************************)

\* A client without a connection, c, with socket s if it has one: it has asked
\* for the connection, or will have to ask again.
ConnectOK(c, s) ==
  /\ c.nbRequestsOnIteration = 0 /\ c.bytes_read = 0 /\ c.header_length = 0
  /\ c.fd = -1 => ~ c.connect_in_progress
  /\ c.fd # -1 =>
       /\ s.toSend = 0 /\ s.avail = 0
       /\ s.st \in IF c.connect_in_progress
                     THEN {"connecting", "timedout", "refused", "open", "reset"}
                     ELSE {"fresh"}

\* A client that has a request to send: nothing is left of the answer before.
WritingOK(c, s) ==
  /\ c.fd # -1 /\ ~ c.connect_in_progress
  /\ c.bytes_read = 0 /\ c.header_length = 0
  /\ s.st \in {"open", "reset"} /\ s.toSend = 0 /\ s.avail = 0

\* A client that waits for its answer has not got all of it, and what it has
\* got and what is still to come are one answer at most.
ReadingOK(c, s) ==
  /\ c.fd # -1 /\ ~ c.connect_in_progress
  /\ s.st \in {"open", "reset"}
  /\ IF c.header_length = 0
       THEN /\ c.bytes_read < HdrLen
            /\ c.bytes_read + s.avail + s.toSend <= AnswerLen
       ELSE /\ c.bytes_read < BodyLen
            /\ c.bytes_read + s.avail + s.toSend <= BodyLen

ClientOK(c, s) ==
  /\ c.state = "CONNECT" => ConnectOK(c, s)
  /\ c.state = "WRITING" => WritingOK(c, s)
  /\ c.state = "READING" => ReadingOK(c, s)

\* A socket that only an error of the network or the server makes so.
Faulty(s) == s.st \in {"timedout", "refused", "reset"} \/ s.fin

ClientsOK == \A i \in Clients : ClientOK(client[i], sock[client[i].fd])

OwnFds ==
  /\ \A i, j \in Clients : i # j /\ client[i].fd = client[j].fd => client[i].fd = -1
  /\ \A i \in Clients : client[i].fd = -1 \/ client[i].fd # masterOrderSocket

Idle == phase = "order" => client = [i \in Clients |-> NewClient]

MasterWaits ==
  phase \in {"run", "report"} =>
    masterOrderSocket \in Fds /\ sock[masterOrderSocket].st = "order"

FaultsSeen == \A f \in Fds : Faulty(sock[f]) => faults > 0

KernelTypes ==
  /\ sock \in [Fds -> Sockets] /\ client \in [Clients -> ClientRecords]
  /\ masterOrderSocket \in Fds \cup {-1}
  /\ phase \in {"order", "run", "report", "clean"}

KernelInv ==
  /\ KernelTypes /\ ClientsOK /\ OwnFds /\ Idle /\ MasterWaits /\ NoLeak /\ FaultsSeen

kernelVars == <<sock, client, phase, masterOrderSocket>>

\* The other clients do not see it when something happens to i.
OthersSame(i) ==
  \A j \in Clients \ {i} :
    /\ client'[j] = client[j]
    /\ client[j].fd # -1 => sock'[client[j].fd] = sock[client[j].fd]

\* Descriptors are numbers, and -1 stands for none.
LEMMA FdsAreNumbers == Fds \subseteq Nat /\ -1 \notin Fds
  BY InjectorAssumption DEF Fds

\* What NoLeak says of one descriptor during a run.
LEMMA UsedFds ==
  ASSUME KernelInv, phase = "run", NEW f \in Fds
  PROVE  sock[f].st # "free" <=> (f = masterOrderSocket \/ \E j \in Clients : client[j].fd = f)
<1>1. {g \in Fds : sock[g].st # "free"}
        = ({client[i].fd : i \in Clients} \ {-1}) \cup {masterOrderSocket}
  BY DEF KernelInv, NoLeak
<1> QED
  BY <1>1, FdsAreNumbers

\* Steps that leave sockets and clients alone.
LEMMA KernelStays ==
  ASSUME KernelInv, UNCHANGED kernelVars, faults > 0 => faults' > 0
  PROVE  KernelInv'
<1> USE DEF kernelVars
<1>1. KernelTypes' /\ ClientsOK' /\ OwnFds' /\ Idle' /\ MasterWaits' /\ NoLeak'
  BY DEF KernelInv, KernelTypes, ClientsOK, ClientOK, ConnectOK, WritingOK,
         ReadingOK, OwnFds, Idle, MasterWaits, NoLeak
<1>2. FaultsSeen'
  BY DEF KernelInv, FaultsSeen, Faulty
<1> QED
  BY <1>1, <1>2 DEF KernelInv

\* One client changes, and its socket, which it may get or lose.
LEMMA ClientChange ==
  ASSUME KernelInv, phase = "run",
         NEW i \in Clients, NEW f \in Fds, NEW c \in ClientRecords, NEW s \in Sockets,
         client' = [client EXCEPT ![i] = c], sock' = [sock EXCEPT ![f] = s],
         UNCHANGED <<phase, masterOrderSocket>>,
         client[i].fd = f \/ (client[i].fd = -1 /\ f \in FreeFds),
         (c.fd = f /\ s.st # "free") \/ (c.fd = -1 /\ s.st = "free"),
         ClientOK(c, s),
         faults > 0 => faults' > 0, Faulty(s) => faults' > 0
  PROVE  KernelInv' /\ OthersSame(i)
<1>1. /\ sock \in [Fds -> Sockets] /\ client \in [Clients -> ClientRecords]
      /\ OwnFds /\ MasterWaits /\ -1 \notin Fds
  BY FdsAreNumbers DEF KernelInv, KernelTypes
<1>2. /\ client'[i] = c /\ sock'[f] = s
      /\ \A j \in Clients \ {i} : client'[j] = client[j]
      /\ \A g \in Fds \ {f} : sock'[g] = sock[g]
  BY <1>1
<1>3. /\ \A j \in Clients \ {i} : client[j].fd # f
      /\ f # masterOrderSocket
  <2>1. CASE client[i].fd = f
    BY <1>1, <2>1 DEF OwnFds
  <2>2. CASE f \in FreeFds
    BY <2>2, UsedFds DEF FreeFds
  <2> QED
    BY <2>1, <2>2
<1>4. \A j \in Clients : client[j].fd \in Fds \cup {-1}
  BY <1>1 DEF ClientRecords
<1>5. OthersSame(i)
  BY <1>2, <1>3, <1>4 DEF OthersSame
<1>6. KernelTypes'
  BY <1>1 DEF KernelInv, KernelTypes
<1>7. ClientsOK'
  <2> SUFFICES ASSUME NEW j \in Clients
               PROVE  ClientOK(client'[j], sock'[client'[j].fd])
    BY DEF ClientsOK, ClientOK, ConnectOK, WritingOK, ReadingOK
  <2>1. CASE j # i /\ client[j].fd # -1
    BY <1>5, <2>1 DEF OthersSame, KernelInv, ClientsOK
  <2>2. CASE j # i /\ client[j].fd = -1
    <3>1. ClientOK(client[j], sock[client[j].fd])
      BY DEF KernelInv, ClientsOK
    <3> QED
      BY <1>5, <2>2, <3>1
      DEF OthersSame, ClientOK, ConnectOK, WritingOK, ReadingOK
  <2>3. CASE j = i /\ c.fd = f
    BY <1>2, <2>3
  <2>4. CASE j = i /\ c.fd = -1
    BY <1>2, <2>4 DEF ClientOK, ConnectOK, WritingOK, ReadingOK
  <2> QED
    BY <2>1, <2>2, <2>3, <2>4
<1>8. OwnFds'
  <2>1. ASSUME NEW j \in Clients, NEW k \in Clients, j # k, client'[j].fd = client'[k].fd
        PROVE  client'[j].fd = -1
    BY <1>1, <1>2, <1>3, <2>1 DEF OwnFds
  <2>2. ASSUME NEW j \in Clients
        PROVE  client'[j].fd = -1 \/ client'[j].fd # masterOrderSocket
    BY <1>1, <1>2, <1>3 DEF OwnFds
  <2> QED
    BY <2>1, <2>2 DEF OwnFds
<1>9. Idle' /\ MasterWaits'
  BY <1>1, <1>2, <1>3 DEF Idle, MasterWaits
<1>10. NoLeak'
  <2> SUFFICES ASSUME NEW g \in Fds
               PROVE  sock'[g].st # "free"
                        <=> g = masterOrderSocket \/ \E j \in Clients : client'[j].fd = g
    <3>1. \A j \in Clients : client'[j].fd \in Fds \cup {-1}
      BY <1>6 DEF KernelTypes, ClientRecords
    <3>2. masterOrderSocket \in Fds
      BY <1>1 DEF MasterWaits
    <3> QED
      BY <1>1, <3>1, <3>2 DEF NoLeak
  <2>1. CASE g = f
    <3>1. \A j \in Clients : client'[j].fd = f => j = i
      BY <1>2, <1>3
    <3> QED
      BY <1>1, <1>2, <1>3, <2>1, <3>1
  <2>2. CASE g # f
    <3>1. \A j \in Clients : client'[j].fd = g <=> client[j].fd = g
      BY <1>1, <1>2, <2>2
    <3> QED
      BY <1>2, <2>2, <3>1, UsedFds
  <2> QED
    BY <2>1, <2>2
<1>11. FaultsSeen'
  <2> SUFFICES ASSUME NEW g \in Fds, Faulty(sock'[g]) PROVE faults' > 0
    BY DEF FaultsSeen, Faulty
  <2> QED
    BY <1>2 DEF KernelInv, FaultsSeen
<1> QED
  BY <1>5, <1>6, <1>7, <1>8, <1>9, <1>10, <1>11 DEF KernelInv
-----------------------------------------------------------------------------
(***************************************************************************)
(* The invariant: the threads                                              *)
(***************************************************************************)

\* The client whose answer the reading thread has dealt with.  It is still
\* marked.
ReaderHand == IF reader.at = "hand" THEN {reader.i} ELSE {}
ToBeRead == internalToRead \ ReaderHand

\* The writing thread waits for i to become writable.
Awaited(i) == client[i].state = "WRITING" \/ client[i].connect_in_progress

WriterTypes ==
  /\ writer \in [at : Places, i : 0 .. N]
  /\ master_connect_fds \in SUBSET Fds /\ master_connect_fds_select \in SUBSET Fds
  /\ max_connect_socket \in Fds \cup {0}

\* No client on the writing side waits for an answer, but the one that is about
\* to leave.
WriterStates ==
  /\ \A i \in SeqSet(toWriteBuffer) \cup internalToWrite : client[i].state # "READING"
  /\ writer.at = "hand" => client[writer.i].state = "READING"

WriterSet ==
  /\ \A i \in internalToWrite : Awaited(i) => client[i].fd \in master_connect_fds
  /\ \A f \in master_connect_fds : \E i \in internalToWrite : client[i].fd = f
  /\ \A f \in master_connect_fds : f <= max_connect_socket

\* What select has answered of the clients still to be looked at.
WriterAnswers ==
  writer.at \in {"scan", "hand"} =>
    \A i \in internalToWrite :
      Awaited(i) /\ i >= writer.i /\ client[i].fd \in master_connect_fds_select
        => sock[client[i].fd].st # "connecting"

WriterInv == WriterTypes /\ (phase = "run" => WriterStates /\ WriterSet /\ WriterAnswers)

ReaderTypes ==
  /\ reader \in [at : Places, i : 0 .. N, fd : Fds \cup {-1}]
  /\ master_read_set \in SUBSET Fds /\ readfds \in SUBSET Fds
  /\ maxFd \in Fds \cup {-1}

ReaderStates ==
  /\ \A i \in SeqSet(toReadBuffer) \cup ToBeRead : client[i].state = "READING"
  /\ \A i \in ReaderHand : client[i].state # "READING"

\* The descriptor of the client that is handed over is still in the set, and
\* no one else's that the thread waits for.
ReaderSet ==
  /\ \A i \in ToBeRead : client[i].fd \in master_read_set
  /\ \A f \in master_read_set :
       (\E i \in ToBeRead : client[i].fd = f) \/ (reader.at = "hand" /\ f = reader.fd)
  /\ \A f \in master_read_set : f <= maxFd
  /\ reader.at = "hand" =>
       reader.fd \in Fds /\ \A i \in ToBeRead : client[i].fd # reader.fd

ReaderAnswers ==
  reader.at \in {"scan", "hand"} =>
    \A i \in ToBeRead : i >= reader.i /\ client[i].fd \in readfds
                          => Readable(client[i].fd)

ReaderInv == ReaderTypes /\ (phase = "run" => ReaderStates /\ ReaderSet /\ ReaderAnswers)

\* A step that the writing thread does not see: what it looks at is the same,
\* and no connection of its clients is pending that was not.  A client that is
\* new in its queue has no answer to come.
LEMMA WriterUnaware ==
  ASSUME WriterInv, phase' = phase,
         UNCHANGED writerVars,
         phase = "run" =>
           /\ \A i \in SeqSet(toWriteBuffer)' \ SeqSet(toWriteBuffer) :
                client'[i].state # "READING"
           /\ \A i \in SeqSet(toWriteBuffer) \cup WriterHas :
                /\ client'[i] = client[i]
                /\ sock'[client[i].fd].st = "connecting"
                     => client[i].fd = -1 \/ sock[client[i].fd].st = "connecting"
  PROVE  WriterInv'
<1> USE DEF writerVars
<1>1. WriterTypes'
  BY DEF WriterInv, WriterTypes
<1> SUFFICES ASSUME phase = "run"
             PROVE  WriterStates' /\ WriterSet' /\ WriterAnswers'
  BY <1>1 DEF WriterInv
<1>2. \A i \in SeqSet(toWriteBuffer) \cup WriterHas : client'[i] = client[i]
  OBVIOUS
<1>3. WriterStates'
  BY <1>2 DEF WriterInv, WriterStates, WriterHas, WriterHand
<1>4. WriterSet'
  BY <1>2 DEF WriterInv, WriterSet, WriterHas, Awaited
<1>5. WriterAnswers'
  BY <1>2, FdsAreNumbers
  DEF WriterInv, WriterAnswers, WriterHas, Awaited, WriterTypes
<1> QED
  BY <1>3, <1>4, <1>5

\* A step that the reading thread does not see.
LEMMA ReaderUnaware ==
  ASSUME OwnerInv, ReaderInv, phase' = phase,
         UNCHANGED readerVars,
         phase = "run" =>
           /\ \A i \in SeqSet(toReadBuffer)' \ SeqSet(toReadBuffer) :
                client'[i].state = "READING"
           /\ \A i \in SeqSet(toReadBuffer) \cup ReaderHas :
                /\ client'[i] = client[i]
                /\ Readable(client[i].fd)
                     => client[i].fd = -1 \/ Readable(client[i].fd)'
  PROVE  ReaderInv'
<1> USE DEF readerVars
<1>1. ReaderTypes'
  BY DEF ReaderInv, ReaderTypes
<1> SUFFICES ASSUME phase = "run"
             PROVE  ReaderStates' /\ ReaderSet' /\ ReaderAnswers'
  BY <1>1 DEF ReaderInv
<1>2. \A i \in SeqSet(toReadBuffer) \cup ReaderHas : client'[i] = client[i]
  OBVIOUS
<1>3. ToBeRead' = ToBeRead /\ ReaderHand' = ReaderHand /\ ToBeRead \subseteq ReaderHas
  BY DEF ToBeRead, ReaderHand, ReaderHas
<1>4. ReaderStates'
  <2>1. ReaderHand \subseteq ReaderHas
    BY DEF OwnerInv, Hands, ReaderHand, ReaderHas
  <2> QED
    BY <1>2, <1>3, <2>1 DEF ReaderInv, ReaderStates
<1>5. ReaderSet'
  BY <1>2, <1>3 DEF ReaderInv, ReaderSet
<1>6. ReaderAnswers'
  <2> SUFFICES ASSUME reader.at \in {"scan", "hand"}, NEW i \in ToBeRead, i >= reader.i,
                      client[i].fd \in readfds
               PROVE  Readable(client[i].fd)'
    BY <1>2, <1>3 DEF ReaderAnswers
  <2>1. Readable(client[i].fd) /\ client[i].fd # -1
    BY FdsAreNumbers DEF ReaderInv, ReaderAnswers, ReaderTypes
  <2> QED
    BY <1>2, <1>3, <2>1
<1> QED
  BY <1>4, <1>5, <1>6
\* What happens to a client of the writing side, the reading thread does not
\* see.
LEMMA ReaderUnawareOf ==
  ASSUME OwnerInv, ReaderInv, phase = "run", phase' = phase,
         UNCHANGED <<readerVars, toReadBuffer>>,
         NEW i \in WriterHas \cup SeqSet(toWriteBuffer), OthersSame(i)
  PROVE  ReaderInv'
<1>1. i \notin SeqSet(toReadBuffer) \cup ReaderHas
  BY DEF OwnerInv, OneOwner
<1>2. SeqSet(toReadBuffer)' = SeqSet(toReadBuffer)
  BY DEF SeqSet
<1>3. SeqSet(toReadBuffer) \cup ReaderHas \subseteq Clients
  BY DEF OwnerInv, OneOwner
<1>4. ASSUME NEW j \in SeqSet(toReadBuffer) \cup ReaderHas
      PROVE  /\ client'[j] = client[j]
             /\ Readable(client[j].fd) => client[j].fd = -1 \/ Readable(client[j].fd)'
  BY <1>1, <1>3, <1>4 DEF OthersSame, Readable
<1> QED
  BY <1>2, <1>4, ReaderUnaware

\* And the other way around.
LEMMA WriterUnawareOf ==
  ASSUME OwnerInv, WriterInv, phase = "run", phase' = phase,
         UNCHANGED <<writerVars, toWriteBuffer>>,
         NEW i \in ReaderHas, OthersSame(i)
  PROVE  WriterInv'
<1>1. i \notin SeqSet(toWriteBuffer) \cup WriterHas
  BY DEF OwnerInv, OneOwner
<1>2. SeqSet(toWriteBuffer)' = SeqSet(toWriteBuffer)
  BY DEF SeqSet
<1>3. SeqSet(toWriteBuffer) \cup WriterHas \subseteq Clients
  BY DEF OwnerInv, OneOwner
<1> QED
  BY <1>1, <1>2, <1>3, WriterUnaware DEF OthersSame

-----------------------------------------------------------------------------
(***************************************************************************)
(* Steps of the writing thread                                             *)
(***************************************************************************)
ThreadsInv == OwnerInv /\ KernelInv /\ WriterInv /\ ReaderInv

\* The client the writing thread looks at.
LEMMA WriterLooksAt ==
  ASSUME ThreadsInv, NEW i \in Clients, WriterAt(i)
  PROVE  /\ phase = "run" /\ writer.at = "scan" /\ i \in internalToWrite
         /\ i \in WriterHas /\ writer.i <= i /\ i + 1 \in 0 .. N
         /\ client[i] \in ClientRecords /\ client[i].state # "READING"
         /\ client[i].fd # -1 => client[i].fd \in Fds /\ sock[client[i].fd] \in Sockets
         /\ ClientOK(client[i], sock[client[i].fd])
         /\ writer = [at |-> "scan", i |-> writer.i]
<1>1. phase = "run" /\ writer.at = "scan" /\ i \in internalToWrite /\ writer.i <= i
  BY DEF WriterAt, Running, ThreadsInv, WriterInv, WriterTypes, Clients
<1>2. client[i] \in ClientRecords
  BY DEF ThreadsInv, KernelInv, KernelTypes
<1>3. client[i].fd # -1 => client[i].fd \in Fds /\ sock[client[i].fd] \in Sockets
  BY <1>2 DEF ThreadsInv, KernelInv, KernelTypes, ClientRecords
<1>4. client[i].state # "READING"
  BY <1>1 DEF ThreadsInv, WriterInv, WriterStates
<1>5. ClientOK(client[i], sock[client[i].fd])
  BY DEF ThreadsInv, KernelInv, ClientsOK
<1>6. writer = [at |-> "scan", i |-> writer.i] /\ i \in WriterHas
  BY <1>1 DEF ThreadsInv, OwnerInv, Shape, WriterHas
<1>7. i + 1 \in 0 .. N
  BY InjectorAssumption DEF Clients
<1> QED
  BY <1>1, <1>2, <1>3, <1>4, <1>5, <1>6, <1>7

\* When only writer.i grows, the rest of the loop is as before.
LEMMA WriterGoesOn ==
  ASSUME ThreadsInv, NEW i \in Clients, WriterAt(i),
         writer' = [writer EXCEPT !.i = i + 1],
         UNCHANGED <<sock, client, toWriteBuffer, internalToWrite, master_connect_fds,
                     max_connect_socket, master_connect_fds_select, phase>>
  PROVE  WriterInv'
<1>1. /\ writer' = [at |-> "scan", i |-> i + 1] /\ writer.at = "scan"
      /\ writer.i <= i /\ i + 1 \in 0 .. N /\ writer.i \in Int /\ i \in Int
      /\ phase = "run"
  BY WriterLooksAt DEF ThreadsInv, WriterInv, WriterTypes, Clients
<1>2. WriterTypes'
  BY <1>1 DEF ThreadsInv, WriterInv, WriterTypes, Places
<1>3. WriterStates' /\ WriterSet'
  BY <1>1 DEF ThreadsInv, WriterInv, WriterStates, WriterSet, Awaited, SeqSet
<1>4. WriterAnswers'
  <2>1. internalToWrite \subseteq Int
    BY DEF ThreadsInv, OwnerInv, Shape, Clients
  <2> QED
    BY <1>1, <2>1 DEF ThreadsInv, WriterInv, WriterAnswers, Awaited
<1> QED
  BY <1>2, <1>3, <1>4 DEF WriterInv

\* A request is sent: the client waits for its answer, and its descriptor is
\* out of the set.
LEMMA SendRequestThreads ==
  ASSUME ThreadsInv, NEW i \in Clients, SendRequest(i), faults' = faults
  PROVE  KernelInv' /\ WriterInv' /\ ReaderInv' /\ OthersSame(i)
<1> DEFINE f == client[i].fd
           c == ChangeState(client[i], "READING")
           s == [sock[f] EXCEPT !.toSend = IF sock[f].fin THEN @ ELSE @ + AnswerLen]
<1>1. /\ WriterAt(i) /\ client[i].state = "WRITING"
      /\ client' = [client EXCEPT ![i] = c]
      /\ sock' = [sock EXCEPT ![f].toSend =
                    IF sock[f].fin THEN @ ELSE @ + AnswerLen]
      /\ internalToWrite' = internalToWrite \ {i}
      /\ writer' = [at |-> "hand", i |-> i]
      /\ RemoveFromWriteSet(f)
      /\ UNCHANGED <<toWriteBuffer, toReadBuffer, master_connect_fds_select,
                     readerVars, phase, masterOrderSocket>>
  BY DEF SendRequest, mainVars
<1>2. /\ phase = "run" /\ writer.at = "scan" /\ i \in internalToWrite /\ i \in WriterHas
      /\ writer.i <= i /\ client[i] \in ClientRecords
      /\ ClientOK(client[i], sock[f])
      /\ f # -1 => f \in Fds /\ sock[f] \in Sockets
  BY <1>1, WriterLooksAt
<1>3. /\ f \in Fds /\ sock[f] \in Sockets /\ WritingOK(client[i], sock[f])
  BY <1>1, <1>2 DEF ClientOK, WritingOK
<1>4. AnswerLen \in Nat /\ HdrLen \in Nat \ {0}
  BY InjectorAssumption DEF AnswerLen
<1>5. c \in ClientRecords /\ c.fd = f /\ c.state = "READING" /\ ReadingOK(c, s)
      /\ s \in Sockets /\ s.st = sock[f].st /\ s.fin = sock[f].fin /\ s.st # "free"
  BY <1>2, <1>3, <1>4 DEF ChangeState, ClientRecords, Sockets, WritingOK, ReadingOK
<1>6. sock' = [sock EXCEPT ![f] = s]
  BY <1>1, <1>3
<1>7. ClientOK(c, s) /\ (Faulty(s) => faults > 0)
  <2>1. Faulty(sock[f]) => faults > 0
    BY <1>3 DEF ThreadsInv, KernelInv, FaultsSeen
  <2> QED
    BY <1>5, <2>1 DEF ClientOK, Faulty
<1>8. KernelInv' /\ OthersSame(i)
  <2> HIDE DEF c, s, f
  <2> QED
    BY <1>1, <1>2, <1>3, <1>5, <1>6, <1>7, ClientChange DEF ThreadsInv, f
<1>9. ReaderInv'
  BY <1>1, <1>2, <1>8, ReaderUnawareOf DEF ThreadsInv
<1>10. WriterInv'
  <2>1. client'[i] = c /\ c.state = "READING"
    BY <1>1, <1>5 DEF ThreadsInv, KernelInv, KernelTypes
  <2>2. \A j \in Clients \ {i} : client'[j] = client[j] /\ (client[j].fd # -1 => client[j].fd # f)
    BY <1>8, <1>3 DEF OthersSame, ThreadsInv, KernelInv, OwnFds
  <2>3. /\ SeqSet(toWriteBuffer)' = SeqSet(toWriteBuffer)
        /\ SeqSet(toWriteBuffer) \cup internalToWrite' \subseteq Clients \ {i}
    BY <1>1, <1>2 DEF ThreadsInv, OwnerInv, OneOwner, WriterHas, SeqSet
  <2> DEFINE lower == {g \in master_connect_fds : g < f}
  <2>4. /\ master_connect_fds' = master_connect_fds \ {f}
        /\ max_connect_socket' = IF max_connect_socket # f THEN max_connect_socket
                                 ELSE IF lower = {} THEN 0 ELSE Max(lower)
    BY <1>1 DEF RemoveFromWriteSet
  <2>5. master_connect_fds \subseteq Fds /\ max_connect_socket \in Fds \cup {0}
    BY DEF ThreadsInv, WriterInv, WriterTypes
  <2>6. /\ max_connect_socket' \in Fds \cup {0}
        /\ \A g \in master_connect_fds' : g <= max_connect_socket'
    <3>1. \A g \in master_connect_fds : g <= max_connect_socket
      BY <1>2 DEF ThreadsInv, WriterInv, WriterSet
    <3>2. CASE max_connect_socket # f
      BY <2>4, <2>5, <3>1, <3>2
    <3>3. CASE max_connect_socket = f
      <4>1. lower = master_connect_fds'
        <5>1. \A g \in master_connect_fds : g \in Nat /\ g <= f
          BY <2>5, <3>1, <3>3, FdsAreNumbers
        <5>2. f \in Nat
          BY <1>3, FdsAreNumbers
        <5> HIDE DEF f
        <5>3. \A g \in master_connect_fds : g < f <=> g # f
          BY <5>1, <5>2
        <5> QED
          BY <2>4, <5>3
      <4>2. lower # {} => Max(lower) \in lower /\ \A g \in lower : g <= Max(lower)
        BY <2>5, MaxOfFds
      <4> HIDE DEF lower
      <4> QED
        BY <2>4, <2>5, <3>3, <4>1, <4>2
    <3> QED
      BY <3>2, <3>3
  <2>7. WriterTypes'
    BY <1>1, <1>2, <2>4, <2>5, <2>6, InjectorAssumption
    DEF ThreadsInv, WriterInv, WriterTypes, Places, Clients
  <2>8. WriterStates'
    BY <1>1, <1>2, <2>1, <2>2, <2>3 DEF ThreadsInv, WriterInv, WriterStates
  <2>9. WriterSet'
    <3>1. ASSUME NEW j \in internalToWrite', Awaited(j)'
          PROVE  client'[j].fd \in master_connect_fds'
      <4>1. /\ j \in internalToWrite /\ client'[j] = client[j]
            /\ client[j].fd \in master_connect_fds
        BY <1>1, <1>2, <2>2, <2>3, <3>1 DEF Awaited, ThreadsInv, WriterInv, WriterSet
      <4> QED
        BY <2>2, <2>3, <2>4, <2>5, <4>1, FdsAreNumbers, <3>1
    <3>2. ASSUME NEW g \in master_connect_fds'
          PROVE  \E j \in internalToWrite' : client'[j].fd = g
      <4>1. PICK j \in internalToWrite : client[j].fd = g
        BY <1>2, <2>4 DEF ThreadsInv, WriterInv, WriterSet
      <4>2. j # i
        BY <2>4, <4>1
      <4> QED
        BY <1>1, <2>2, <2>3, <4>1, <4>2
    <3> QED
      BY <2>6, <3>1, <3>2 DEF WriterSet
  <2>10. WriterAnswers'
    <3> SUFFICES ASSUME NEW j \in internalToWrite', Awaited(j)', j >= i,
                        client'[j].fd \in master_connect_fds_select
                 PROVE  sock'[client'[j].fd].st # "connecting"
      BY <1>1 DEF WriterAnswers
    <3>1. /\ j \in internalToWrite /\ j \in Clients /\ j # i /\ client'[j] = client[j]
          /\ Awaited(j)
      BY <1>1, <2>2, <2>3 DEF Awaited
    <3>2. j >= writer.i
      BY <1>2, <3>1 DEF ThreadsInv, WriterInv, WriterTypes, Clients
    <3>3. client[j].fd # -1 /\ sock[client[j].fd].st # "connecting"
      BY <1>2, <3>1, <3>2, FdsAreNumbers
      DEF ThreadsInv, WriterInv, WriterAnswers, WriterTypes
    <3> QED
      BY <1>8, <3>1, <3>3 DEF OthersSame
  <2> QED
    BY <2>7, <2>8, <2>9, <2>10 DEF WriterInv
<1> QED
  BY <1>8, <1>9, <1>10
\* The client the thread looks at changes, and may come into the set.
LEMMA WriterChanges ==
  ASSUME ThreadsInv, NEW i \in Clients, WriterAt(i), OthersSame(i),
         writer' = [writer EXCEPT !.i = i + 1],
         UNCHANGED <<toWriteBuffer, internalToWrite, master_connect_fds_select, phase>>,
         client'[i].state # "READING", client'[i].fd \in Fds,
         client[i].fd \in {-1, client'[i].fd},
         \/ AddToWriteSet(client'[i].fd)
         \/ UNCHANGED <<master_connect_fds, max_connect_socket>>,
         Awaited(i)' => client'[i].fd \in master_connect_fds'
  PROVE  WriterInv'
<1> DEFINE f == client'[i].fd
<1>1. /\ phase = "run" /\ writer.at = "scan" /\ i \in internalToWrite
      /\ writer.i <= i /\ i + 1 \in 0 .. N /\ writer.i \in Int /\ i \in Int
      /\ writer' = [at |-> "scan", i |-> i + 1]
  BY WriterLooksAt DEF ThreadsInv, WriterInv, WriterTypes, Clients
<1>2. /\ internalToWrite \cup SeqSet(toWriteBuffer) \subseteq Clients
      /\ SeqSet(toWriteBuffer)' = SeqSet(toWriteBuffer)
      /\ i \notin SeqSet(toWriteBuffer)
  BY <1>1 DEF ThreadsInv, OwnerInv, OneOwner, WriterHas, SeqSet
<1>3. /\ \A g \in master_connect_fds' : g \in master_connect_fds \/ g = f
      /\ master_connect_fds \subseteq master_connect_fds'
      /\ \A g \in master_connect_fds' : g <= max_connect_socket'
      /\ max_connect_socket' \in Fds \cup {0} /\ master_connect_fds' \in SUBSET Fds
  <2>1. /\ \A g \in master_connect_fds : g \in Nat /\ g <= max_connect_socket
        /\ max_connect_socket \in Fds \cup {0} /\ master_connect_fds \in SUBSET Fds
        /\ f \in Fds /\ f \in Nat /\ max_connect_socket \in Nat
    BY <1>1, FdsAreNumbers DEF ThreadsInv, WriterInv, WriterSet, WriterTypes
  <2>2. CASE AddToWriteSet(f)
    <3>1. /\ master_connect_fds' = master_connect_fds \cup {f}
          /\ max_connect_socket' = IF f > max_connect_socket THEN f
                                                             ELSE max_connect_socket
      BY <2>2 DEF AddToWriteSet
    <3> HIDE DEF f
    <3> QED
      BY <2>1, <3>1
  <2> QED
    BY <2>1, <2>2
<1>4. WriterTypes'
  BY <1>1, <1>3 DEF ThreadsInv, WriterInv, WriterTypes, Places
<1>5. WriterStates'
  BY <1>1, <1>2 DEF ThreadsInv, WriterInv, WriterStates, OthersSame
<1>6. WriterSet'
  <2>1. ASSUME NEW j \in internalToWrite, Awaited(j)'
        PROVE  client'[j].fd \in master_connect_fds'
    <3>1. CASE j = i
      BY <2>1, <3>1
    <3>2. CASE j # i
      BY <1>1, <1>2, <1>3, <2>1, <3>2
      DEF OthersSame, Awaited, ThreadsInv, WriterInv, WriterSet
    <3> QED
      BY <3>1, <3>2
  <2>2. ASSUME NEW g \in master_connect_fds'
        PROVE  \E j \in internalToWrite : client'[j].fd = g
    <3>1. CASE g = f
      BY <1>1, <3>1
    <3>2. CASE g # f
      <4>1. g \in master_connect_fds /\ g # -1
        BY <1>3, <2>2, <3>2, FdsAreNumbers
      <4>2. PICK j \in internalToWrite : client[j].fd = g
        BY <1>1, <4>1 DEF ThreadsInv, WriterInv, WriterSet
      <4>3. j # i
        BY <3>2, <4>1, <4>2
      <4> QED
        BY <1>2, <4>2, <4>3 DEF OthersSame
    <3> QED
      BY <3>1, <3>2
  <2> QED
    BY <1>3, <2>1, <2>2 DEF WriterSet
<1>7. WriterAnswers'
  <2> SUFFICES ASSUME NEW j \in internalToWrite, Awaited(j)', j >= i + 1,
                      client'[j].fd \in master_connect_fds_select
               PROVE  sock'[client'[j].fd].st # "connecting"
    BY <1>1 DEF WriterAnswers
  <2>1. j # i /\ j \in Clients /\ j >= writer.i /\ client'[j] = client[j] /\ Awaited(j)
    BY <1>1, <1>2 DEF OthersSame, Awaited, Clients
  <2>2. client[j].fd # -1 /\ sock[client[j].fd].st # "connecting"
    BY <1>1, <2>1, FdsAreNumbers
    DEF ThreadsInv, WriterInv, WriterAnswers, WriterTypes
  <2> QED
    BY <2>1, <2>2 DEF OthersSame
<1> QED
  BY <1>4, <1>5, <1>6, <1>7 DEF WriterInv

\* The outcome of a connect.  select has answered, so it is there; the
\* connection is open, or timed out, or the process exits.
LEMMA FinalizeConnectThreads ==
  ASSUME ThreadsInv, NEW i \in Clients, FinalizeConnect(i), faults' = faults
  PROVE  /\ KernelInv' /\ WriterInv' /\ ReaderInv'
         /\ \/ exit' = exit
            \/ exit' \in {"refused", "reset"} /\ faults > 0
<1> DEFINE f == client[i].fd
           b == [client[i] EXCEPT !.connect_in_progress = FALSE]
<1>1. /\ WriterAt(i) /\ WriterReady(i) /\ client[i].state = "CONNECT"
      /\ client[i].connect_in_progress
      /\ writer' = [writer EXCEPT !.i = i + 1]
      /\ UNCHANGED <<toWriteBuffer, toReadBuffer, internalToWrite,
                     master_connect_fds, max_connect_socket,
                     master_connect_fds_select, readerVars, phase, masterOrderSocket>>
  BY DEF FinalizeConnect
<1>2. /\ phase = "run" /\ writer.at = "scan" /\ i \in internalToWrite /\ i \in WriterHas
      /\ writer.i <= i /\ client[i] \in ClientRecords
      /\ ClientOK(client[i], sock[f])
      /\ f # -1 => f \in Fds /\ sock[f] \in Sockets
  BY <1>1, WriterLooksAt
<1>3. /\ f # -1 /\ f \in Fds /\ sock[f] \in Sockets /\ ConnectOK(client[i], sock[f])
      /\ sock[f].st \in {"connecting", "timedout", "refused", "open", "reset"}
  BY <1>1, <1>2 DEF ClientOK, ConnectOK
<1>4. f \in master_connect_fds /\ sock[f].st # "connecting"
  <2>1. f \in master_connect_fds_select /\ Awaited(i) /\ i >= writer.i
    BY <1>1, <1>2 DEF WriterReady, Awaited, ThreadsInv, WriterInv, WriterTypes, Clients
  <2> QED
    BY <1>2, <2>1 DEF ThreadsInv, WriterInv, WriterSet, WriterAnswers
<1>5. client \in [Clients -> ClientRecords] /\ sock \in [Fds -> Sockets]
  BY DEF ThreadsInv, KernelInv, KernelTypes
<1>6. Faulty(sock[f]) => faults > 0
  BY <1>3 DEF ThreadsInv, KernelInv, FaultsSeen
<1>7. CASE /\ sock[f].st \in {"open", "connecting", "fresh"}
           /\ client' = [client EXCEPT ![i] = ChangeState(b, "WRITING")]
           /\ UNCHANGED <<sock, exit>>
  <2> DEFINE c == ChangeState(b, "WRITING")
             s == sock[f]
  <2>1. /\ c \in ClientRecords /\ c.fd = f /\ c.state = "WRITING" /\ WritingOK(c, s)
        /\ s.st # "free"
    BY <1>2, <1>3, <1>4, <1>7
    DEF ChangeState, ClientRecords, ConnectOK, WritingOK, AnswerLen
  <2>2. sock' = [sock EXCEPT ![f] = s] /\ ClientOK(c, s)
    BY <1>5, <1>7, <2>1 DEF ClientOK
  <2>3. KernelInv' /\ OthersSame(i)
    <3> HIDE DEF c, s, f, b
    <3> QED
      BY <1>1, <1>2, <1>3, <1>6, <1>7, <2>1, <2>2, ClientChange
      DEF ThreadsInv, f, c, s
  <2>4. client'[i] = c
    BY <1>5, <1>7
  <2>5. WriterInv'
    BY <1>1, <1>3, <1>4, <2>1, <2>3, <2>4, WriterChanges
  <2>6. ReaderInv'
    BY <1>1, <1>2, <2>3, ReaderUnawareOf DEF ThreadsInv
  <2> QED
    BY <1>7, <2>3, <2>5, <2>6
<1>8. CASE /\ sock[f].st = "timedout"
           /\ client' = [client EXCEPT ![i] = b]
           /\ sock' = [sock EXCEPT ![f].st = "fresh"]
           /\ UNCHANGED <<stats, exit>>
  <2> DEFINE s == [sock[f] EXCEPT !.st = "fresh"]
  <2>1. /\ b \in ClientRecords /\ b.fd = f /\ b.state = "CONNECT" /\ ConnectOK(b, s)
        /\ s \in Sockets /\ s.st = "fresh" /\ s.fin = sock[f].fin
    BY <1>1, <1>2, <1>3, <1>8 DEF ClientRecords, Sockets, ConnectOK
  <2>2. sock' = [sock EXCEPT ![f] = s] /\ ClientOK(b, s) /\ (Faulty(s) => faults > 0)
    BY <1>3, <1>6, <1>8, <2>1 DEF ClientOK, Faulty
  <2>3. KernelInv' /\ OthersSame(i)
    <3> HIDE DEF s, f, b
    <3> QED
      BY <1>1, <1>2, <1>3, <1>8, <2>1, <2>2, ClientChange DEF ThreadsInv, f
  <2>4. client'[i] = b
    BY <1>5, <1>8
  <2>5. WriterInv'
    BY <1>1, <1>3, <1>4, <2>1, <2>3, <2>4, WriterChanges
  <2>6. ReaderInv'
    BY <1>1, <1>2, <2>3, ReaderUnawareOf DEF ThreadsInv
  <2> QED
    BY <1>8, <2>3, <2>5, <2>6
<1>9. CASE /\ sock[f].st \in {"refused", "reset", "free"}
           /\ exit' = sock[f].st
           /\ UNCHANGED clientVars
  <2>1. UNCHANGED <<sock, client>>
    BY <1>9 DEF clientVars
  <2>2. OthersSame(i)
    BY <2>1 DEF OthersSame
  <2>3. KernelInv'
    BY <1>1, <2>1, KernelStays DEF kernelVars, ThreadsInv
  <2>4. WriterInv'
    BY <1>1, <2>1, WriterGoesOn
  <2>5. ReaderInv'
    BY <1>1, <1>2, <2>2, ReaderUnawareOf DEF ThreadsInv
  <2>6. exit' \in {"refused", "reset"} /\ faults > 0
    BY <1>3, <1>6, <1>9 DEF Faulty
  <2> QED
    BY <2>1, <2>3, <2>4, <2>5, <2>6
<1> QED
  BY <1>7, <1>8, <1>9 DEF FinalizeConnect

\* A new connect, over the client's socket or a new one.
LEMMA InitializeConnectThreads ==
  ASSUME ThreadsInv, NEW i \in Clients, NEW st \in {"connecting", "fresh"},
         WriterAt(i), client[i].state = "CONNECT", ~ client[i].connect_in_progress,
         client[i].fd # -1 \/ FreeFds # {},
         sock' = [sock EXCEPT ![ConnectFd(i)] = Socket(st)],
         client' = [client EXCEPT ![i].fd = ConnectFd(i),
                                  ![i].connect_in_progress = (st = "connecting")],
         \/ AddToWriteSet(ConnectFd(i))
         \/ st = "fresh" /\ UNCHANGED <<master_connect_fds, max_connect_socket>>,
         writer' = [writer EXCEPT !.i = i + 1],
         UNCHANGED <<toWriteBuffer, toReadBuffer, internalToWrite,
                     master_connect_fds_select, readerVars, phase, masterOrderSocket>>,
         faults > 0 => faults' > 0
  PROVE  KernelInv' /\ WriterInv' /\ ReaderInv'
<1> DEFINE f == ConnectFd(i)
           c == [client[i] EXCEPT !.fd = f, !.connect_in_progress = (st = "connecting")]
           s == Socket(st)
<1>1. /\ phase = "run" /\ i \in WriterHas /\ client[i] \in ClientRecords
      /\ ClientOK(client[i], sock[client[i].fd])
      /\ client[i].fd # -1 => client[i].fd \in Fds
      /\ client \in [Clients -> ClientRecords]
  BY WriterLooksAt DEF ThreadsInv, KernelInv, KernelTypes
<1>2. /\ f \in Fds
      /\ client[i].fd = f \/ (client[i].fd = -1 /\ f \in FreeFds)
  BY <1>1, MinFree DEF ConnectFd, FreeFds
<1>3. f # -1
  BY <1>2, FdsAreNumbers
<1>4. s \in Sockets /\ s.st = st /\ ~ Faulty(s) /\ s.toSend = 0 /\ s.avail = 0
  BY InjectorAssumption DEF Socket, Sockets, Faulty, AnswerLen
<1> HIDE DEF f, s
<1>5. /\ c \in ClientRecords /\ c.fd = f /\ c.state = "CONNECT"
      /\ c.connect_in_progress = (st = "connecting") /\ ConnectOK(c, s)
  BY <1>1, <1>2, <1>3, <1>4 DEF ClientRecords, ClientOK, ConnectOK
<1>6. ClientOK(c, s) /\ client' = [client EXCEPT ![i] = c]
  BY <1>1, <1>5 DEF ClientOK, f
<1>7. KernelInv' /\ OthersSame(i)
  <2> HIDE DEF c
  <2> QED
    BY <1>1, <1>2, <1>4, <1>5, <1>6, ClientChange DEF ThreadsInv, f, s
<1>8. client'[i] = c
  BY <1>1, <1>6
<1>9. WriterInv'
  <2>1. client[i].fd \in {-1, f}
    BY <1>2
  <2>2. Awaited(i)' => f \in master_connect_fds'
    BY <1>5, <1>8 DEF Awaited, AddToWriteSet, f
  <2>3. AddToWriteSet(client'[i].fd) \/ UNCHANGED <<master_connect_fds, max_connect_socket>>
    BY <1>5, <1>8 DEF f
  <2> HIDE DEF c
  <2> QED
    BY <1>2, <1>5, <1>7, <1>8, <2>1, <2>2, <2>3, WriterChanges
<1>10. ReaderInv'
  BY <1>1, <1>7, ReaderUnawareOf DEF ThreadsInv
<1> QED
  BY <1>7, <1>9, <1>10
\* The thread takes a client out of its queue.
LEMMA WriterTakesThreads ==
  ASSUME ThreadsInv, WriterTakes PROVE WriterInv'
<1> DEFINE i == Head(toWriteBuffer)
<1>1. /\ phase = "run" /\ writer.at = "fill" /\ toWriteBuffer # <<>>
      /\ internalToWrite' = internalToWrite \cup {i}
      /\ IF client[i].fd >= 0 THEN AddToWriteSet(client[i].fd)
         ELSE UNCHANGED <<master_connect_fds, max_connect_socket>>
      /\ toWriteBuffer' = Tail(toWriteBuffer)
      /\ UNCHANGED <<sock, client, writer, master_connect_fds_select, phase>>
  BY DEF WriterTakes, Running, clientVars, mainVars
<1>2. /\ i \in SeqSet(toWriteBuffer) /\ i \in Clients
      /\ SeqSet(toWriteBuffer') = SeqSet(toWriteBuffer) \ {i}
  BY <1>1, TakenOut DEF ThreadsInv, OwnerInv, Shape, OneOwner
<1> HIDE DEF i
<1>3. SeqSet(toWriteBuffer)' = SeqSet(toWriteBuffer) \ {i}
  BY <1>2 DEF SeqSet
<1>4. client[i] \in ClientRecords /\ client[i].fd \in Fds \cup {-1}
  BY <1>2 DEF ThreadsInv, KernelInv, KernelTypes, ClientRecords
<1>5. /\ \A g \in master_connect_fds : g \in Nat /\ g <= max_connect_socket
      /\ max_connect_socket \in Fds \cup {0} /\ master_connect_fds \in SUBSET Fds
      /\ max_connect_socket \in Nat
  BY <1>1, FdsAreNumbers DEF ThreadsInv, WriterInv, WriterSet, WriterTypes
<1>6. /\ \A g \in master_connect_fds' : g <= max_connect_socket'
      /\ max_connect_socket' \in Fds \cup {0} /\ master_connect_fds' \in SUBSET Fds
      /\ master_connect_fds' = master_connect_fds \cup ({client[i].fd} \ {-1})
  <2>1. CASE client[i].fd = -1
    <3>1. ~ (client[i].fd >= 0)
      BY <2>1
    <3>2. UNCHANGED <<master_connect_fds, max_connect_socket>>
      BY <1>1, <3>1
    <3>3. {client[i].fd} \ {-1} = {}
      BY <2>1
    <3> QED
      BY <1>5, <3>2, <3>3
  <2>2. CASE client[i].fd # -1
    <3> DEFINE f == client[i].fd
    <3> HIDE DEF f
    <3>1. f \in Fds /\ f \in Nat
      BY <1>4, <2>2, FdsAreNumbers DEF f
    <3>2. AddToWriteSet(f)
      <4>1. f >= 0
        BY <3>1
      <4> QED
        BY <1>1, <4>1 DEF f
    <3>3. /\ \A g \in master_connect_fds' : g <= max_connect_socket'
          /\ max_connect_socket' \in Fds \cup {0} /\ master_connect_fds' \in SUBSET Fds
          /\ master_connect_fds' = master_connect_fds \cup {f}
      BY <1>5, <3>1, <3>2 DEF AddToWriteSet
    <3> QED
      BY <2>2, <3>3 DEF f
  <2> QED
    BY <2>1, <2>2
<1>7. WriterTypes'
  BY <1>1, <1>6 DEF ThreadsInv, WriterInv, WriterTypes
<1>8. WriterStates'
  BY <1>1, <1>2, <1>3 DEF ThreadsInv, WriterInv, WriterStates
<1>9. WriterSet'
  <2>1. Awaited(i) => client[i].fd # -1
    BY <1>2, <1>4
    DEF ThreadsInv, KernelInv, ClientsOK, ClientOK, ConnectOK, WritingOK, ReadingOK,
        Awaited, ClientRecords
  <2> QED
    BY <1>1, <1>6, <2>1 DEF ThreadsInv, WriterInv, WriterSet, Awaited
<1>10. WriterAnswers'
  BY <1>1 DEF WriterAnswers
<1> QED
  BY <1>7, <1>8, <1>9, <1>10 DEF WriterInv

\* The answer of select.  It does not fail: every descriptor in the set is that
\* of a client's open socket.
LEMMA WriterSelectsThreads ==
  ASSUME ThreadsInv, WriterSelects PROVE WriterInv'
<1>1. /\ phase = "run" /\ writer' = [at |-> "scan", i |-> 0]
      /\ master_connect_fds_select' = WriteSelect
      /\ UNCHANGED <<sock, client, toWriteBuffer, internalToWrite, master_connect_fds,
                     max_connect_socket, phase>>
  BY DEF WriterSelects, Running, clientVars, mainVars
<1>2. master_connect_fds \in SUBSET Fds /\ KernelInv
  BY DEF ThreadsInv, WriterInv, WriterTypes
<1>3. ASSUME NEW f \in master_connect_fds PROVE sock[f].st # "free"
  <2>1. \E i \in Clients : client[i].fd = f
    BY <1>1 DEF ThreadsInv, WriterInv, WriterSet, OwnerInv, Shape
  <2> QED
    BY <1>1, <1>2, <2>1, UsedFds
<1>4. /\ master_connect_fds_select' \in SUBSET Fds
      /\ \A f \in master_connect_fds_select' : Writable(f)
  BY <1>1, <1>2, <1>3 DEF WriteSelect
<1>5. WriterTypes'
  BY <1>1, <1>4, InjectorAssumption DEF ThreadsInv, WriterInv, WriterTypes, Places
<1>6. WriterStates' /\ WriterSet'
  BY <1>1 DEF ThreadsInv, WriterInv, WriterStates, WriterSet, Awaited, SeqSet
<1>7. WriterAnswers'
  BY <1>1, <1>4 DEF WriterAnswers, Writable
<1> QED
  BY <1>5, <1>6, <1>7 DEF WriterInv

\* The client that the thread has in its hand goes into the other queue.
LEMMA WriterHandsThreads ==
  ASSUME ThreadsInv, WriterHands PROVE WriterInv' /\ ReaderInv' /\ exit' = exit
<1> DEFINE i == writer.i
<1>1. /\ phase = "run" /\ writer.at = "hand"
      /\ UNCHANGED <<sock, client, toWriteBuffer, internalToWrite, master_connect_fds,
                     max_connect_socket, master_connect_fds_select, readerVars, phase>>
  BY DEF WriterHands, Running, clientVars
<1>2. /\ i \in Clients /\ i \notin internalToWrite
      /\ toReadBuffer \in Seq(Clients) /\ NoDuplicates(toReadBuffer)
      /\ i \notin SeqSet(toReadBuffer)
  BY <1>1 DEF ThreadsInv, OwnerInv, Shape, Hands, OneOwner, WriterHas, WriterHand
<1>3. /\ toReadBuffer' = Append(toReadBuffer, i)
      /\ writer' = [at |-> "scan", i |-> i + 1] /\ exit' = exit
  BY <1>2, RoomForOneMore DEF WriterHands
<1>4. i + 1 \in 0 .. N
  BY <1>2, InjectorAssumption DEF Clients
<1>5. WriterTypes'
  BY <1>1, <1>3, <1>4 DEF ThreadsInv, WriterInv, WriterTypes, Places
<1>6. WriterStates' /\ WriterSet'
  BY <1>1, <1>3 DEF ThreadsInv, WriterInv, WriterStates, WriterSet, Awaited, SeqSet
<1>7. WriterAnswers'
  <2>1. internalToWrite \subseteq Int /\ i \in Int
    BY <1>2 DEF ThreadsInv, OwnerInv, Shape, Clients
  <2> QED
    BY <1>1, <1>3, <2>1 DEF ThreadsInv, WriterInv, WriterAnswers, Awaited
<1>8. ReaderInv'
  <2>1. SeqSet(toReadBuffer') = SeqSet(toReadBuffer) \cup {i}
    BY <1>2, <1>3, PutIn
  <2>2. SeqSet(toReadBuffer)' = SeqSet(toReadBuffer) \cup {i}
    BY <2>1 DEF SeqSet
  <2>3. client'[i].state = "READING"
    BY <1>1 DEF ThreadsInv, WriterInv, WriterStates
  <2>4. \A f : Readable(f) => Readable(f)'
    BY <1>1 DEF Readable
  <2> QED
    BY <1>1, <2>2, <2>3, <2>4, ReaderUnaware DEF ThreadsInv
<1> QED
  BY <1>3, <1>5, <1>6, <1>7, <1>8 DEF WriterInv

\* The start and the end of the loop over the clients.
LEMMA WriterTurns ==
  ASSUME ThreadsInv, WriterFilled \/ WriterLoops PROVE WriterInv'
<1>1. /\ phase = "run" /\ writer.at \in {"fill", "scan"}
      /\ writer' \in [at : {"select", "done", "fill"}, i : 0 .. N]
      /\ master_connect_fds_select' \in SUBSET Fds
      /\ UNCHANGED <<sock, client, toWriteBuffer, internalToWrite, master_connect_fds,
                     max_connect_socket, phase>>
  BY InjectorAssumption
  DEF WriterFilled, WriterLoops, Running, clientVars, mainVars, ThreadsInv, WriterInv,
      WriterTypes
<1>2. writer'.at \notin {"scan", "hand"}
  BY <1>1
<1>3. WriterTypes'
  BY <1>1 DEF ThreadsInv, WriterInv, WriterTypes, Places
<1>4. WriterStates' /\ WriterSet' /\ WriterAnswers'
  BY <1>1, <1>2
  DEF ThreadsInv, WriterInv, WriterStates, WriterSet, WriterAnswers, Awaited, SeqSet
<1> QED
  BY <1>3, <1>4 DEF WriterInv
-----------------------------------------------------------------------------
(***************************************************************************)
(* Steps of the reading thread                                             *)
(***************************************************************************)

\* The client the reading thread looks at.
LEMMA ReaderLooksAt ==
  ASSUME ThreadsInv, NEW i \in Clients, ReaderAt(i)
  PROVE  /\ phase = "run" /\ reader.at = "scan" /\ i \in internalToRead
         /\ i \in ReaderHas /\ reader.i <= i /\ i + 1 \in 0 .. N
         /\ ToBeRead = internalToRead
         /\ client[i] \in ClientRecords /\ client[i].state = "READING"
         /\ client[i].fd \in Fds /\ client[i].fd # -1
         /\ sock[client[i].fd] \in Sockets
         /\ ReadingOK(client[i], sock[client[i].fd])
         /\ Faulty(sock[client[i].fd]) => faults > 0
<1>1. /\ phase = "run" /\ reader.at = "scan" /\ i \in internalToRead /\ reader.i <= i
      /\ i \in ReaderHas
  BY DEF ReaderAt, Running, ThreadsInv, ReaderInv, ReaderTypes, Clients, ReaderHas
<1>2. ToBeRead = internalToRead
  BY <1>1 DEF ToBeRead, ReaderHand
<1>3. client[i] \in ClientRecords /\ client[i].state = "READING"
  BY <1>1, <1>2 DEF ThreadsInv, KernelInv, KernelTypes, ReaderInv, ReaderStates
<1>4. ReadingOK(client[i], sock[client[i].fd])
  BY <1>3 DEF ThreadsInv, KernelInv, ClientsOK, ClientOK
<1>5. client[i].fd \in Fds /\ client[i].fd # -1
  BY <1>3, <1>4 DEF ReadingOK, ClientRecords
<1>6. sock[client[i].fd] \in Sockets /\ (Faulty(sock[client[i].fd]) => faults > 0)
  BY <1>5 DEF ThreadsInv, KernelInv, KernelTypes, FaultsSeen
<1>7. i + 1 \in 0 .. N
  BY InjectorAssumption DEF Clients
<1> QED
  BY <1>1, <1>2, <1>3, <1>4, <1>5, <1>6, <1>7

\* The record of a client that has got an answer, and that of one whose
\* connection has failed, before the next state is entered.
Answered(c) == [c EXCEPT !.total_resp_recv = @ + 1, !.nbRequestsOnIteration = @ + 1]
Failed(c) == [c EXCEPT !.errors = @ + 1]

\* Such a record: it may have one request more than ClientRecords allows.
ServedRecords ==
  [state : {"CONNECT", "WRITING", "READING"}, fd : Fds \cup {-1},
   connect_in_progress : BOOLEAN, nbRequestsOnIteration : 0 .. MsgPerConn,
   bytes_read : 0 .. AnswerLen, header_length : {0, HdrLen}, errors : Nat,
   total_resp_recv : Nat]

\* A client record keeps its types when a request is over, however it ended.
LEMMA ServedTypes ==
  ASSUME NEW c \in ClientRecords
  PROVE  Answered(c) \in ServedRecords /\ Failed(c) \in ServedRecords
<1>1. /\ c.nbRequestsOnIteration \in 0 .. MsgPerConn - 1 /\ c.errors \in Nat
      /\ c.total_resp_recv \in Nat /\ MsgPerConn \in Nat \ {0}
  BY InjectorAssumption DEF ClientRecords
<1> DEFINE n == c.nbRequestsOnIteration + 1
           t == c.total_resp_recv + 1
           e == c.errors + 1
<1>2. /\ c.nbRequestsOnIteration \in 0 .. MsgPerConn /\ n \in 0 .. MsgPerConn
      /\ t \in Nat /\ e \in Nat
  BY <1>1
<1>3. /\ Answered(c) = [c EXCEPT !.total_resp_recv = t, !.nbRequestsOnIteration = n]
      /\ Failed(c) = [c EXCEPT !.errors = e]
  BY DEF Answered, Failed, ClientRecords
<1> HIDE DEF n, t, e
<1> QED
  BY <1>2, <1>3 DEF ClientRecords, ServedRecords

\* What change_state resets.
LEMMA ChangeStateTypes ==
  ASSUME NEW c \in ServedRecords
  PROVE  /\ ChangeState(c, "CONNECT") \in ClientRecords
         /\ c.nbRequestsOnIteration < MsgPerConn
              => ChangeState(c, "WRITING") \in ClientRecords
<1>1. /\ AnswerLen \in Nat /\ 0 \in 0 .. AnswerLen /\ 0 \in 0 .. MsgPerConn - 1
      /\ c.nbRequestsOnIteration < MsgPerConn
           => c.nbRequestsOnIteration \in 0 .. MsgPerConn - 1
  BY InjectorAssumption DEF AnswerLen, ServedRecords
<1>2. ChangeState(c, "CONNECT") \in ClientRecords
  BY <1>1 DEF ChangeState, ServedRecords, ClientRecords
<1>3. ASSUME c.nbRequestsOnIteration < MsgPerConn
      PROVE  ChangeState(c, "WRITING") \in ClientRecords
  BY <1>1, <1>3 DEF ChangeState, ServedRecords, ClientRecords
<1> QED
  BY <1>2, <1>3

\* A closed descriptor.
LEMMA FreeSocket ==
  /\ Socket("free") \in Sockets /\ Socket("free").st = "free"
  /\ ~ Faulty(Socket("free"))
  BY InjectorAssumption DEF Socket, Sockets, AnswerLen, Faulty

\* What a read may make of client c and its socket: c and s are the new ones.
ReadsOn(i, c, s) ==
  /\ c = [client[i] EXCEPT !.bytes_read = c.bytes_read, !.header_length = c.header_length]
  /\ ReadingOK(c, s) /\ s.st # "free"
  /\ stats' = stats

AnswerInConnection(i, c, s) ==
  /\ client[i].nbRequestsOnIteration + 1 < MsgPerConn
  /\ c = ChangeState(Answered(client[i]), "WRITING")
  /\ WritingOK(c, s) /\ s.st # "free"
  /\ stats' = [stats EXCEPT !.nb_RT = @ + 1]

LastAnswer(i, c, s) ==
  /\ client[i].nbRequestsOnIteration + 1 = MsgPerConn
  /\ c = ChangeState(Answered(client[i]), "CONNECT")
  /\ s = Socket("free")
  /\ stats' = [stats EXCEPT !.nb_RT = @ + 1, !.nb_CRT = @ + MsgPerConn]

ConnectionFails(i, c, s) ==
  /\ c = ChangeState(Failed(client[i]), "CONNECT")
  /\ s = Socket("free")
  /\ stats' = [stats EXCEPT !.nb_CRT = @ + client[i].nbRequestsOnIteration]

ReadResult(i, c, s) ==
  /\ c \in ClientRecords /\ s \in Sockets
  /\ client' = [client EXCEPT ![i] = c]
  /\ sock' = [sock EXCEPT ![client[i].fd] = s]
  /\ ReadsOn(i, c, s) \/ AnswerInConnection(i, c, s) \/ LastAnswer(i, c, s)
       \/ ConnectionFails(i, c, s)
  /\ Faulty(s) => faults > 0

\* read_complete, with any record that is client[i]'s but for what is reset.
LEMMA ReadCompleteResult ==
  ASSUME ThreadsInv, NEW i \in Clients, ReaderAt(i), NEW b, NEW h, NEW k \in Nat,
         k <= sock[client[i].fd].avail,
         ReadComplete(i, [client[i] EXCEPT !.bytes_read = b, !.header_length = h],
                      [sock EXCEPT ![client[i].fd].avail = @ - k]),
         sock[client[i].fd].avail - k = 0, sock[client[i].fd].toSend = 0
  PROVE  \E c, s : ReadResult(i, c, s)
<1> DEFINE f == client[i].fd
           c0 == [client[i] EXCEPT !.bytes_read = b, !.header_length = h]
           s == [sock[f] EXCEPT !.avail = @ - k]
           kernel == [sock EXCEPT ![f].avail = @ - k]
           n == client[i].nbRequestsOnIteration + 1
           d == [c0 EXCEPT !.total_resp_recv = @ + 1,
                           !.nbRequestsOnIteration = c0.nbRequestsOnIteration + 1]
<1>1. /\ client[i] \in ClientRecords /\ f \in Fds /\ f # -1 /\ s.st = sock[f].st
      /\ sock[f] \in Sockets /\ ReadingOK(client[i], sock[f])
      /\ Faulty(sock[f]) => faults > 0
      /\ sock \in [Fds -> Sockets]
  BY ReaderLooksAt DEF Sockets, ThreadsInv, KernelInv, KernelTypes
<1>2. n \in Nat /\ n <= MsgPerConn /\ c0.nbRequestsOnIteration + 1 = n /\ c0.fd = f
  BY <1>1, InjectorAssumption DEF ClientRecords
<1>3. /\ ChangeState(d, "WRITING") = ChangeState(Answered(client[i]), "WRITING")
      /\ ChangeState(d, "CONNECT") = ChangeState(Answered(client[i]), "CONNECT")
  BY <1>1 DEF ChangeState, Answered, ClientRecords
<1>4. CASE n < MsgPerConn
  <2> DEFINE c == ChangeState(d, "WRITING")
  <2>1. /\ client' = [client EXCEPT ![i] = c] /\ sock' = kernel
        /\ stats' = [stats EXCEPT !.nb_RT = @ + 1]
    BY <1>2, <1>4 DEF ReadComplete, MoreRequests
  <2>2. sock' = [sock EXCEPT ![f] = s]
    BY <1>1, <2>1
  <2>3. WritingOK(c, s) /\ s.st # "free" /\ (Faulty(s) => faults > 0)
    BY <1>1 DEF WritingOK, ReadingOK, ChangeState, ClientRecords, Sockets, Faulty
  <2>4. c \in ClientRecords /\ s \in Sockets
    <3>1. Answered(client[i]).nbRequestsOnIteration = n
      BY <1>1 DEF Answered, ClientRecords
    <3>2. c \in ClientRecords
      <4> HIDE DEF n, d
      <4> QED
        BY <1>1, <1>3, <1>4, <3>1, ServedTypes, ChangeStateTypes
    <3>3. sock[f].avail - k \in 0 .. AnswerLen
      BY <1>1, InjectorAssumption DEF Sockets, AnswerLen
    <3>4. s \in Sockets
      BY <1>1, <3>3 DEF Sockets
    <3> QED
      BY <3>2, <3>4
  <2>5. ReadResult(i, c, s)
    BY <1>3, <1>4, <2>1, <2>2, <2>3, <2>4 DEF ReadResult, AnswerInConnection
  <2> QED
    BY <2>5
<1>5. CASE ~ (n < MsgPerConn)
  <2> DEFINE c == ChangeState(d, "CONNECT")
             z == Socket("free")
  <2>1. /\ client' = [client EXCEPT ![i] = c]
        /\ sock' = [kernel EXCEPT ![f] = z]
        /\ stats' = [stats EXCEPT !.nb_RT = @ + 1, !.nb_CRT = @ + n]
    BY <1>2, <1>5 DEF ReadComplete, MoreRequests
  <2>2. n = MsgPerConn
    BY <1>2, <1>5, InjectorAssumption
  <2>3. sock' = [sock EXCEPT ![f] = z]
    BY <1>1, <2>1
  <2>4. ~ Faulty(z)
    BY DEF Faulty, Socket
  <2>5. c \in ClientRecords /\ z \in Sockets
    <3> HIDE DEF d
    <3> QED
      BY <1>1, <1>3, ServedTypes, ChangeStateTypes, FreeSocket
  <2>6. ReadResult(i, c, z)
    BY <1>3, <2>1, <2>2, <2>3, <2>4, <2>5 DEF ReadResult, LastAnswer
  <2> QED
    BY <2>6
<1> QED
  BY <1>4, <1>5

\* treat_error.
LEMMA TreatErrorResult ==
  ASSUME NEW i \in Clients, client[i] \in ClientRecords, TreatError(i)
  PROVE  \E c, s : ReadResult(i, c, s)
<1> DEFINE c == ChangeState(Failed(client[i]), "CONNECT")
           s == Socket("free")
<1>1. /\ client' = [client EXCEPT ![i] = c]
      /\ sock' = [sock EXCEPT ![client[i].fd] = s]
      /\ stats' = [stats EXCEPT !.nb_CRT = @ + client[i].nbRequestsOnIteration]
  BY DEF TreatError, Failed, ClientRecords
<1>2. ~ Faulty(s)
  BY DEF Faulty, Socket
<1>3. c \in ClientRecords /\ s \in Sockets
  BY ServedTypes, ChangeStateTypes, FreeSocket
<1>4. ReadResult(i, c, s)
  BY <1>1, <1>2, <1>3 DEF ReadResult, ConnectionFails
<1> QED
  BY <1>4

\* A client that has taken n units and has not got its whole answer.
LEMMA ReadsOnResult ==
  ASSUME ThreadsInv, NEW i \in Clients, ReaderAt(i), NEW b \in 0 .. AnswerLen,
         NEW h \in {0, HdrLen}, NEW n \in Nat, n <= sock[client[i].fd].avail,
         client' = [client EXCEPT ![i] = [client[i] EXCEPT !.bytes_read = b,
                                                           !.header_length = h]],
         sock' = [sock EXCEPT ![client[i].fd].avail = @ - n],
         IF h = 0
           THEN /\ b < HdrLen
                /\ b + (sock[client[i].fd].avail - n) + sock[client[i].fd].toSend
                     <= AnswerLen
           ELSE /\ b < BodyLen
                /\ b + (sock[client[i].fd].avail - n) + sock[client[i].fd].toSend
                     <= BodyLen,
         stats' = stats
  PROVE  \E c, s : ReadResult(i, c, s)
<1> DEFINE f == client[i].fd
           c == [client[i] EXCEPT !.bytes_read = b, !.header_length = h]
           s == [sock[f] EXCEPT !.avail = @ - n]
<1>1. /\ client[i] \in ClientRecords /\ f \in Fds /\ f # -1
      /\ sock[f] \in Sockets /\ ReadingOK(client[i], sock[f])
      /\ Faulty(sock[f]) => faults > 0
      /\ sock \in [Fds -> Sockets]
  BY ReaderLooksAt DEF ThreadsInv, KernelInv, KernelTypes
<1>2. /\ s.st = sock[f].st /\ s.fin = sock[f].fin /\ s.toSend = sock[f].toSend
      /\ s.avail = sock[f].avail - n
  BY <1>1 DEF Sockets
<1>3. /\ c.bytes_read = b /\ c.header_length = h /\ c.fd = f
      /\ c.connect_in_progress = client[i].connect_in_progress
  BY <1>1 DEF ClientRecords
<1>4. sock' = [sock EXCEPT ![f] = s]
  BY <1>1
<1>5. c = [client[i] EXCEPT !.bytes_read = c.bytes_read, !.header_length = c.header_length]
  BY <1>3
<1>9. c \in ClientRecords /\ s \in Sockets
  <2>1. sock[f].avail - n \in 0 .. AnswerLen
    BY <1>1, InjectorAssumption DEF Sockets, AnswerLen
  <2> QED
    BY <1>1, <2>1 DEF ClientRecords, Sockets
<1> HIDE DEF f, s
<1>6. ReadingOK(c, s) /\ s.st # "free" /\ (Faulty(s) => faults > 0)
  <2> HIDE DEF c
  <2> QED
    BY <1>1, <1>2, <1>3 DEF ReadingOK, Faulty, f
<1>7. client' = [client EXCEPT ![i] = c]
  OBVIOUS
<1>8. ReadResult(i, c, s)
  <2> HIDE DEF c
  <2> QED
    BY <1>4, <1>5, <1>6, <1>7, <1>9 DEF ReadResult, ReadsOn, f
<1> QED
  BY <1>8

\* read_headers.
LEMMA ReadHeadersResult ==
  ASSUME ThreadsInv, NEW i \in Clients, NEW n \in 1 .. AnswerLen, ReadHeaders(i, n)
  PROVE  \E c, s : ReadResult(i, c, s)
<1> DEFINE f == client[i].fd
           got == client[i].bytes_read + n
           c == [client[i] EXCEPT !.header_length = HdrLen, !.bytes_read = got - HdrLen]
           d == [client[i] EXCEPT !.bytes_read = got - HdrLen, !.header_length = HdrLen]
           kernel == [sock EXCEPT ![f].avail = @ - n]
<1>1. /\ ReaderAt(i) /\ client[i].header_length = 0 /\ n \in 1 .. sock[f].avail
      /\ \/ /\ got < HdrLen
            /\ client' = [client EXCEPT ![i].bytes_read = got]
            /\ sock' = kernel /\ stats' = stats
         \/ TreatError(i)
         \/ /\ got >= HdrLen
            /\ IF AnswerComplete(c)
                 THEN ReadComplete(i, c, kernel)
                 ELSE /\ client' = [client EXCEPT ![i] = c]
                      /\ sock' = kernel /\ stats' = stats
  BY DEF ReadHeaders
<1>2. /\ client[i] \in ClientRecords /\ f \in Fds
      /\ sock[f] \in Sockets /\ ReadingOK(client[i], sock[f])
  BY <1>1, ReaderLooksAt
<1>3. HdrLen \in Nat \ {0} /\ BodyLen \in Nat /\ AnswerLen = HdrLen + BodyLen
  BY InjectorAssumption DEF AnswerLen
<1>4. /\ sock[f].avail \in Nat /\ sock[f].toSend \in Nat /\ client[i].bytes_read \in Nat
      /\ client[i].bytes_read < HdrLen
      /\ client[i].bytes_read + sock[f].avail + sock[f].toSend <= AnswerLen
      /\ n \in Nat /\ n <= sock[f].avail
  BY <1>1, <1>2, <1>3 DEF ClientRecords, Sockets, ReadingOK
<1>5. CASE /\ got < HdrLen
           /\ client' = [client EXCEPT ![i].bytes_read = got]
           /\ sock' = kernel /\ stats' = stats
  <2>1. /\ got + (sock[f].avail - n) + sock[f].toSend <= AnswerLen
        /\ got \in 0 .. AnswerLen
    BY <1>3, <1>4
  <2>2. client' = [client EXCEPT ![i] = [client[i] EXCEPT !.bytes_read = got,
                                                          !.header_length = 0]]
    <3>1. [client[i] EXCEPT !.bytes_read = got]
             = [client[i] EXCEPT !.bytes_read = got, !.header_length = 0]
      BY <1>1, <1>2 DEF ClientRecords
    <3> QED
      BY <1>5, <3>1
  <2> HIDE DEF got
  <2> QED
    BY <1>1, <1>3, <1>4, <1>5, <2>1, <2>2, ReadsOnResult
<1>6. CASE TreatError(i)
  BY <1>2, <1>6, TreatErrorResult
<1>7. CASE /\ got >= HdrLen
           /\ IF AnswerComplete(c)
                THEN ReadComplete(i, c, kernel)
                ELSE /\ client' = [client EXCEPT ![i] = c]
                     /\ sock' = kernel /\ stats' = stats
  <2>1. c = d
    BY <1>2 DEF ClientRecords
  <2>2. c.bytes_read = got - HdrLen
    BY <1>2 DEF ClientRecords
  <2>3. got \in Nat /\ got - HdrLen + (sock[f].avail - n) + sock[f].toSend <= BodyLen
    BY <1>3, <1>4
  <2>4. CASE AnswerComplete(c)
    <3>1. ReadComplete(i, d, kernel)
      BY <1>7, <2>1, <2>4
    <3>2. sock[f].avail - n = 0 /\ sock[f].toSend = 0
      <4>1. got - HdrLen = BodyLen
        BY <2>2, <2>4 DEF AnswerComplete
      <4> HIDE DEF got
      <4> QED
        BY <1>3, <1>4, <2>3, <4>1
    <3> HIDE DEF got
    <3> QED
      BY <1>1, <1>4, <3>1, <3>2, ReadCompleteResult
  <2>5. CASE ~ AnswerComplete(c)
    <3>1. got - HdrLen < BodyLen /\ got - HdrLen \in 0 .. AnswerLen
      <4>1. got - HdrLen # BodyLen
        BY <2>2, <2>5 DEF AnswerComplete
      <4> HIDE DEF got
      <4> QED
        BY <1>3, <1>4, <1>7, <2>3, <4>1 DEF got
    <3>2. client' = [client EXCEPT ![i] = d] /\ sock' = kernel /\ stats' = stats
      BY <1>7, <2>1, <2>5
    <3> HIDE DEF got
    <3> QED
      BY <1>1, <1>3, <1>4, <2>3, <3>1, <3>2, ReadsOnResult
  <2> QED
    BY <2>4, <2>5
<1> QED
  BY <1>1, <1>5, <1>6, <1>7

\* read_content.
LEMMA ReadContentResult ==
  ASSUME ThreadsInv, NEW i \in Clients, NEW n \in 1 .. AnswerLen, ReadContent(i, n)
  PROVE  \E c, s : ReadResult(i, c, s)
<1> DEFINE f == client[i].fd
           h == client[i].header_length
           got == client[i].bytes_read + n
           c == [client[i] EXCEPT !.bytes_read = @ + n]
           d == [client[i] EXCEPT !.bytes_read = got, !.header_length = h]
           kernel == [sock EXCEPT ![f].avail = @ - n]
<1>1. /\ ReaderAt(i) /\ h # 0 /\ n \in 1 .. sock[f].avail
      /\ IF AnswerComplete(c)
           THEN ReadComplete(i, c, kernel)
           ELSE client' = [client EXCEPT ![i] = c] /\ sock' = kernel /\ stats' = stats
  BY DEF ReadContent
<1>2. /\ client[i] \in ClientRecords /\ f \in Fds
      /\ sock[f] \in Sockets /\ ReadingOK(client[i], sock[f])
  BY <1>1, ReaderLooksAt
<1>3. BodyLen \in Nat /\ AnswerLen \in Nat
  BY InjectorAssumption DEF AnswerLen
<1>4. /\ sock[f].avail \in Nat /\ sock[f].toSend \in Nat /\ client[i].bytes_read \in Nat
      /\ client[i].bytes_read + sock[f].avail + sock[f].toSend <= BodyLen
      /\ n \in Nat /\ n <= sock[f].avail
  BY <1>1, <1>2, <1>3 DEF ClientRecords, Sockets, ReadingOK
<1>5. c = d /\ c.bytes_read = got
  BY <1>2 DEF ClientRecords
<1>6. got \in Nat /\ got + (sock[f].avail - n) + sock[f].toSend <= BodyLen
  BY <1>3, <1>4
<1>7. CASE AnswerComplete(c)
  <2>1. ReadComplete(i, d, kernel)
    BY <1>1, <1>5, <1>7
  <2>2. sock[f].avail - n = 0 /\ sock[f].toSend = 0
    <3>1. got = BodyLen
      BY <1>5, <1>7 DEF AnswerComplete
    <3> HIDE DEF got
    <3> QED
      BY <1>3, <1>4, <1>6, <3>1
  <2> HIDE DEF got
  <2> QED
    BY <1>1, <1>4, <2>1, <2>2, ReadCompleteResult
<1>8. CASE ~ AnswerComplete(c)
  <2>1. got < BodyLen /\ got \in 0 .. AnswerLen /\ h \in {0, HdrLen}
    <3>1. got # BodyLen
      BY <1>5, <1>8 DEF AnswerComplete
    <3> HIDE DEF got
    <3> QED
      BY <1>2, <1>3, <1>4, <1>6, <3>1, InjectorAssumption
      DEF ClientRecords, AnswerLen
  <2>2. client' = [client EXCEPT ![i] = d] /\ sock' = kernel /\ stats' = stats
    BY <1>1, <1>5, <1>8
  <2> HIDE DEF got, h
  <2> QED
    BY <1>1, <1>4, <1>6, <2>1, <2>2, ReadsOnResult
<1> QED
  BY <1>7, <1>8

\* What the result of a read means for the record and the socket.
LEMMA ResultOK ==
  ASSUME ThreadsInv, NEW i \in Clients, ReaderAt(i), NEW c, NEW s, ReadResult(i, c, s)
  PROVE  /\ c.state = "READING" => c.fd = client[i].fd
         /\ (c.fd = client[i].fd /\ s.st # "free") \/ (c.fd = -1 /\ s.st = "free")
         /\ ClientOK(c, s)
<1>1. /\ client[i] \in ClientRecords /\ client[i].state = "READING"
      /\ ReadingOK(client[i], sock[client[i].fd])
  BY ReaderLooksAt
<1>2. c \in ClientRecords
  BY DEF ReadResult
<1>3. CASE ReadsOn(i, c, s)
  <2>1. c.state = "READING" /\ c.fd = client[i].fd
    BY <1>1, <1>3 DEF ReadsOn, ClientRecords
  <2> QED
    BY <1>3, <2>1 DEF ReadsOn, ClientOK
<1>4. CASE AnswerInConnection(i, c, s)
  <2>1. c.state = "WRITING" /\ c.fd = client[i].fd
    BY <1>1, <1>4 DEF AnswerInConnection, ChangeState, Answered, ClientRecords
  <2> QED
    BY <1>4, <2>1 DEF AnswerInConnection, ClientOK
<1>5. ASSUME LastAnswer(i, c, s) \/ ConnectionFails(i, c, s)
      PROVE  c.state = "CONNECT" /\ c.fd = -1 /\ s.st = "free" /\ ConnectOK(c, s)
  <2>1. ASSUME NEW d \in ServedRecords, ~ d.connect_in_progress,
               c = ChangeState(d, "CONNECT")
        PROVE  c.state = "CONNECT" /\ c.fd = -1 /\ ConnectOK(c, s)
    BY <2>1 DEF ChangeState, ServedRecords, ConnectOK
  <2>2. /\ Answered(client[i]) \in ServedRecords /\ Failed(client[i]) \in ServedRecords
        /\ ~ Answered(client[i]).connect_in_progress
        /\ ~ Failed(client[i]).connect_in_progress
    <3>1. ~ client[i].connect_in_progress
      BY <1>1 DEF ReadingOK
    <3>2. /\ Answered(client[i]).connect_in_progress = client[i].connect_in_progress
          /\ Failed(client[i]).connect_in_progress = client[i].connect_in_progress
      BY <1>1 DEF Answered, Failed, ClientRecords
    <3> QED
      BY <1>1, <3>1, <3>2, ServedTypes
  <2> QED
    BY <1>5, <2>1, <2>2, FreeSocket DEF LastAnswer, ConnectionFails
<1> QED
  BY <1>3, <1>4, <1>5 DEF ReadResult, ClientOK

\* A read: the client goes on waiting, or it is in the thread's hand.
LEMMA ReadThreads ==
  ASSUME ThreadsInv, NEW i \in Clients, ReaderAt(i), NEW c, NEW s, ReadResult(i, c, s),
         AfterRead(i), UnchangedByRead
  PROVE  KernelInv' /\ WriterInv' /\ ReaderInv' /\ OthersSame(i)
<1> DEFINE f == client[i].fd
<1>1. /\ phase = "run" /\ reader.at = "scan" /\ i \in internalToRead
      /\ i \in ReaderHas /\ reader.i <= i /\ i + 1 \in 0 .. N
      /\ ToBeRead = internalToRead
      /\ client[i].state = "READING" /\ f \in Fds /\ f # -1
  BY ReaderLooksAt
<1>2. /\ c \in ClientRecords /\ s \in Sockets /\ client' = [client EXCEPT ![i] = c]
      /\ sock' = [sock EXCEPT ![f] = s] /\ (Faulty(s) => faults > 0)
  BY DEF ReadResult
<1>3. /\ c.state = "READING" => c.fd = f
      /\ (c.fd = f /\ s.st # "free") \/ (c.fd = -1 /\ s.st = "free")
      /\ ClientOK(c, s)
  BY ResultOK
<1>4. /\ UNCHANGED <<toWriteBuffer, toReadBuffer, writerVars, internalToRead,
                     master_read_set, maxFd, readfds, phase, masterOrderSocket, faults>>
  BY DEF UnchangedByRead, envVars
<1>5. KernelInv' /\ OthersSame(i)
  BY <1>1, <1>2, <1>3, <1>4, ClientChange DEF ThreadsInv
<1>6. WriterInv'
  BY <1>1, <1>4, <1>5, WriterUnawareOf DEF ThreadsInv
<1>7. client'[i] = c
  BY <1>2 DEF ThreadsInv, KernelInv, KernelTypes
<1>8. reader' = [at |-> IF c.state = "READING" THEN "scan" ELSE "hand",
                 i |-> IF c.state = "READING" THEN i + 1 ELSE i,
                 fd |-> IF c.state = "READING" THEN -1 ELSE f]
  BY <1>7 DEF AfterRead
<1>9. /\ SeqSet(toReadBuffer)' = SeqSet(toReadBuffer)
      /\ SeqSet(toReadBuffer) \cup internalToRead \subseteq Clients
      /\ i \notin SeqSet(toReadBuffer)
      /\ \A j \in Clients \ {i} : client[j].fd # f
  BY <1>1, <1>4 DEF ThreadsInv, OwnerInv, OneOwner, ReaderHas, SeqSet, KernelInv, OwnFds
<1>10. ToBeRead' = IF c.state = "READING" THEN internalToRead ELSE internalToRead \ {i}
  BY <1>4, <1>8 DEF ToBeRead, ReaderHand
<1> HIDE DEF f
<1>11. ReaderTypes'
  <2>1. i \in 0 .. N
    BY InjectorAssumption DEF Clients
  <2> QED
    BY <1>1, <1>4, <1>8, <2>1 DEF ThreadsInv, ReaderInv, ReaderTypes, Places
<1>12. \A j \in ToBeRead' \ {i} :
         /\ j \in ToBeRead /\ j \in Clients /\ client'[j] = client[j]
         /\ client[j].state = "READING"
  BY <1>1, <1>5, <1>9, <1>10
  DEF OthersSame, ThreadsInv, ReaderInv, ReaderStates
<1>13. ReaderStates'
  <2>1. \A j \in SeqSet(toReadBuffer) : client'[j] = client[j] /\ client[j].state = "READING"
    BY <1>1, <1>5, <1>9 DEF OthersSame, ThreadsInv, ReaderInv, ReaderStates
  <2>2. i \in ToBeRead' => c.state = "READING"
    BY <1>10
  <2>3. ReaderHand' = IF c.state = "READING" THEN {} ELSE {i}
    BY <1>8 DEF ReaderHand
  <2> QED
    BY <1>7, <1>9, <1>12, <2>1, <2>2, <2>3 DEF ReaderStates
<1>14. ReaderSet'
  <2>1. ASSUME NEW j \in ToBeRead' PROVE client'[j].fd \in master_read_set
    <3>1. CASE j = i
      <4>1. c.state = "READING"
        BY <1>10, <2>1, <3>1
      <4> QED
        BY <1>1, <1>3, <1>7, <3>1, <4>1 DEF ThreadsInv, ReaderInv, ReaderSet, f
    <3>2. CASE j # i
      BY <1>1, <1>12, <2>1, <3>2 DEF ThreadsInv, ReaderInv, ReaderSet
    <3> QED
      BY <3>1, <3>2
  <2>2. ASSUME NEW g \in master_read_set
        PROVE  \/ \E j \in ToBeRead' : client'[j].fd = g
               \/ reader'.at = "hand" /\ g = reader'.fd
    <3>1. PICK j \in ToBeRead : client[j].fd = g
      BY <1>1 DEF ThreadsInv, ReaderInv, ReaderSet
    <3>2. CASE j # i
      <4>1. j \in ToBeRead'
        BY <1>1, <1>10, <3>1, <3>2
      <4> QED
        BY <1>12, <3>1, <3>2, <4>1
    <3>3. CASE j = i /\ c.state = "READING"
      <4>1. i \in ToBeRead' /\ client'[i].fd = g
        BY <1>1, <1>3, <1>7, <1>10, <3>1, <3>3 DEF f
      <4> QED
        BY <4>1
    <3>4. CASE j = i /\ c.state # "READING"
      BY <1>8, <3>1, <3>4 DEF f
    <3> QED
      BY <3>2, <3>3, <3>4
  <2>3. reader'.at = "hand" => reader'.fd \in Fds /\ \A j \in ToBeRead' : client'[j].fd # reader'.fd
    <3> SUFFICES ASSUME reader'.at = "hand", NEW j \in ToBeRead'
                 PROVE  client'[j].fd # f
      BY <1>1, <1>8
    <3>1. j # i
      BY <1>8, <1>10
    <3> QED
      BY <1>9, <1>12, <3>1 DEF f
  <2>4. \A g \in master_read_set : g <= maxFd
    BY <1>1 DEF ThreadsInv, ReaderInv, ReaderSet
  <2> QED
    BY <1>4, <2>1, <2>2, <2>3, <2>4 DEF ReaderSet
<1>15. ReaderAnswers'
  <2> SUFFICES ASSUME NEW j \in ToBeRead', j >= reader'.i, client'[j].fd \in readfds
               PROVE  Readable(client[j].fd)'
    BY <1>4 DEF ReaderAnswers
  <2>1. j # i
    <3>1. i \in Int
      BY DEF Clients
    <3> QED
      BY <1>8, <1>10, <3>1
  <2>2. /\ j \in ToBeRead /\ j \in Clients /\ client'[j] = client[j]
    BY <1>12, <2>1
  <2>3. j >= reader.i
    <3>1. i \in Int /\ j \in Int /\ reader.i \in Int
      BY <2>2 DEF Clients, ThreadsInv, ReaderInv, ReaderTypes
    <3> QED
      BY <1>1, <1>8, <3>1
  <2>4. Readable(client[j].fd) /\ client[j].fd # -1
    BY <1>1, <2>2, <2>3, FdsAreNumbers
    DEF ThreadsInv, ReaderInv, ReaderAnswers, ReaderTypes
  <2>5. sock'[client[j].fd] = sock[client[j].fd]
    BY <1>5, <2>1, <2>2, <2>4 DEF OthersSame
  <2> QED
    BY <2>2, <2>4, <2>5 DEF Readable
<1> QED
  BY <1>5, <1>6, <1>11, <1>13, <1>14, <1>15 DEF ReaderInv

\* A step of the writing thread that leaves sockets and clients alone.
LEMMA WriterAlone ==
  ASSUME ThreadsInv, faults > 0 => faults' > 0,
         UNCHANGED <<sock, client, toReadBuffer, readerVars, phase, masterOrderSocket>>
  PROVE  KernelInv' /\ ReaderInv'
<1>1. KernelInv'
  BY KernelStays DEF ThreadsInv, kernelVars
<1>2. SeqSet(toReadBuffer)' = SeqSet(toReadBuffer) /\ \A f : Readable(f) => Readable(f)'
  BY DEF SeqSet, Readable
<1>3. ReaderInv'
  BY <1>2, ReaderUnaware DEF ThreadsInv
<1> QED
  BY <1>1, <1>3

\* And one of the reading thread.
LEMMA ReaderAlone ==
  ASSUME ThreadsInv, faults > 0 => faults' > 0,
         UNCHANGED <<sock, client, toWriteBuffer, writerVars, phase, masterOrderSocket>>
  PROVE  KernelInv' /\ WriterInv'
<1>1. KernelInv'
  BY KernelStays DEF ThreadsInv, kernelVars
<1>2. SeqSet(toWriteBuffer)' = SeqSet(toWriteBuffer)
  BY DEF SeqSet
<1>3. WriterInv'
  BY <1>2, WriterUnaware DEF ThreadsInv
<1> QED
  BY <1>1, <1>3

\* The thread takes a client out of its queue, and its descriptor into its set.
LEMMA ReaderTakesThreads ==
  ASSUME ThreadsInv, ReaderTakes PROVE ReaderInv'
<1> DEFINE i == Head(toReadBuffer)
           f == client[i].fd
<1>1. /\ phase = "run" /\ reader.at = "fill" /\ toReadBuffer # <<>>
      /\ internalToRead' = internalToRead \cup {i}
      /\ master_read_set' = master_read_set \cup {f}
      /\ maxFd' = IF f > maxFd THEN f ELSE maxFd
      /\ toReadBuffer' = Tail(toReadBuffer)
      /\ UNCHANGED <<sock, client, reader, readfds, phase>>
  BY DEF ReaderTakes, RaisedMaxFd, Running, clientVars, mainVars
<1>2. /\ i \in SeqSet(toReadBuffer) /\ i \in Clients
      /\ SeqSet(toReadBuffer') = SeqSet(toReadBuffer) \ {i}
  BY <1>1, TakenOut DEF ThreadsInv, OwnerInv, Shape, OneOwner
<1> HIDE DEF i
<1>3. SeqSet(toReadBuffer)' = SeqSet(toReadBuffer) \ {i}
  BY <1>2 DEF SeqSet
<1>4. client[i] \in ClientRecords /\ client[i].state = "READING"
  BY <1>1, <1>2 DEF ThreadsInv, KernelInv, KernelTypes, ReaderInv, ReaderStates
<1>5. f \in Fds /\ f \in Nat
  <2>1. ReadingOK(client[i], sock[f])
    BY <1>2, <1>4 DEF ThreadsInv, KernelInv, ClientsOK, ClientOK
  <2> QED
    BY <1>4, <2>1, FdsAreNumbers DEF ReadingOK, ClientRecords
<1> HIDE DEF f
<1>6. ToBeRead' = ToBeRead \cup {i} /\ ToBeRead = internalToRead
      /\ ReaderHand = {} /\ ReaderHand' = {}
  BY <1>1 DEF ToBeRead, ReaderHand
<1>7. /\ maxFd \in Fds \cup {-1} /\ maxFd \in Int /\ master_read_set \in SUBSET Fds
      /\ \A g \in master_read_set : g \in Nat /\ g <= maxFd
  BY <1>1, FdsAreNumbers DEF ThreadsInv, ReaderInv, ReaderTypes, ReaderSet
<1>8. ReaderTypes'
  BY <1>1, <1>5, <1>7 DEF ThreadsInv, ReaderInv, ReaderTypes
<1>9. ReaderStates'
  BY <1>1, <1>2, <1>3, <1>4, <1>6 DEF ThreadsInv, ReaderInv, ReaderStates
<1>10. ReaderSet'
  <2>1. \A g \in master_read_set' : g <= maxFd'
    BY <1>1, <1>5, <1>7
  <2> QED
    BY <1>1, <1>6, <2>1 DEF ThreadsInv, ReaderInv, ReaderSet, f
<1>11. ReaderAnswers'
  BY <1>1 DEF ReaderAnswers
<1> QED
  BY <1>8, <1>9, <1>10, <1>11 DEF ReaderInv

\* select does not fail: every descriptor in the set is that of a client that
\* waits for an answer.
LEMMA ReaderSelectsThreads ==
  ASSUME ThreadsInv, ReaderSelects PROVE ReaderInv' /\ exit' = exit
<1> DEFINE asked == {f \in master_read_set : f <= maxFd}
<1>1. /\ phase = "run" /\ reader.at = "select"
      /\ UNCHANGED <<sock, client, toReadBuffer, internalToRead, master_read_set, maxFd,
                     phase>>
  BY DEF ReaderSelects, Running, clientVars
<1>2. ASSUME NEW f \in asked PROVE sock[f].st # "free"
  <2>1. f \in Fds
    BY DEF ThreadsInv, ReaderInv, ReaderTypes
  <2>2. PICK i \in ToBeRead : client[i].fd = f
    BY <1>1 DEF ThreadsInv, ReaderInv, ReaderSet
  <2>3. i \in Clients
    BY DEF ToBeRead, ThreadsInv, OwnerInv, Shape
  <2> QED
    BY <1>1, <2>1, <2>2, <2>3, UsedFds DEF ThreadsInv
<1>3. /\ exit' = exit /\ readfds' = {f \in asked : Readable(f)}
      /\ reader' = [reader EXCEPT !.at = "scan", !.i = 0]
  BY <1>2 DEF ReaderSelects
<1>4. /\ ToBeRead' = ToBeRead /\ ReaderHand' = {} /\ ReaderHand = {}
      /\ reader'.at = "scan"
  BY <1>1, <1>3 DEF ToBeRead, ReaderHand, ThreadsInv, ReaderInv, ReaderTypes
<1>5. ReaderTypes'
  <2>1. asked \subseteq Fds
    BY DEF ThreadsInv, ReaderInv, ReaderTypes
  <2>2. readfds' \in SUBSET Fds
    BY <1>3, <2>1
  <2>3. reader' \in [at : Places, i : 0 .. N, fd : Fds \cup {-1}]
    <3>1. 0 \in 0 .. N /\ "scan" \in Places
      BY InjectorAssumption DEF Places
    <3>2. reader \in [at : Places, i : 0 .. N, fd : Fds \cup {-1}]
      BY DEF ThreadsInv, ReaderInv, ReaderTypes
    <3> QED
      BY <1>3, <3>1, <3>2
  <2> QED
    BY <1>1, <2>2, <2>3 DEF ThreadsInv, ReaderInv, ReaderTypes
<1>6. ReaderStates' /\ ReaderSet'
  BY <1>1, <1>4 DEF ThreadsInv, ReaderInv, ReaderStates, ReaderSet, SeqSet
<1>7. ReaderAnswers'
  BY <1>1, <1>3 DEF ReaderAnswers, Readable
<1> QED
  BY <1>3, <1>5, <1>6, <1>7 DEF ReaderInv

\* The start and the end of the loop over the clients, and a client that has
\* nothing to read.
LEMMA ReaderTurns ==
  ASSUME ThreadsInv,
         ReaderFilled \/ ReaderLoops \/ \E i \in Clients : ReaderWaits(i)
  PROVE  ReaderInv'
<1>1. /\ phase = "run" /\ reader.at \in {"fill", "scan"}
      /\ UNCHANGED <<sock, client, toReadBuffer, internalToRead, master_read_set, maxFd,
                     phase>>
      /\ readfds' \in {readfds, {}}
  BY DEF ReaderFilled, ReaderLoops, ReaderWaits, ReaderAt, Running, clientVars, mainVars
<1>2. \/ reader' \in [at : {"select", "done", "fill"}, i : 0 .. N, fd : Fds \cup {-1}]
      \/ /\ \E i \in Clients : reader' = [reader EXCEPT !.i = i + 1] /\ i >= reader.i
         /\ reader.at = "scan" /\ readfds' = readfds
  BY InjectorAssumption
  DEF ReaderFilled, ReaderLoops, ReaderWaits, ReaderAt, ThreadsInv, ReaderInv, ReaderTypes
<1>3. ReaderTypes' /\ reader'.at # "hand"
  <2>1. \A i \in Clients : i + 1 \in 0 .. N
    BY InjectorAssumption DEF Clients
  <2> QED
    BY <1>1, <1>2, <2>1 DEF ThreadsInv, ReaderInv, ReaderTypes, Places
<1>4. ToBeRead' = ToBeRead /\ ReaderHand' = {} /\ ReaderHand = {}
  BY <1>1, <1>3 DEF ToBeRead, ReaderHand
<1>5. ReaderStates' /\ ReaderSet'
  BY <1>1, <1>3, <1>4 DEF ThreadsInv, ReaderInv, ReaderStates, ReaderSet, SeqSet
<1>6. ReaderAnswers'
  <2>1. CASE reader' \in [at : {"select", "done", "fill"}, i : 0 .. N, fd : Fds \cup {-1}]
    BY <2>1 DEF ReaderAnswers
  <2>2. ASSUME NEW i \in Clients, reader' = [reader EXCEPT !.i = i + 1], i >= reader.i,
               reader.at = "scan", readfds' = readfds
        PROVE  ReaderAnswers'
    <3>1. reader'.i = i + 1 /\ reader.i \in Int /\ i \in Int
      BY <2>2 DEF ThreadsInv, ReaderInv, ReaderTypes, Clients
    <3>2. ToBeRead \subseteq Int
      BY DEF ToBeRead, ThreadsInv, OwnerInv, Shape, Clients
    <3>3. \A j \in ToBeRead : j >= reader'.i => j >= reader.i
      BY <2>2, <3>1, <3>2
    <3> QED
      BY <1>1, <1>4, <2>2, <3>3 DEF ReaderAnswers, ThreadsInv, ReaderInv, Readable
  <2> QED
    BY <1>2, <2>1, <2>2
<1> QED
  BY <1>3, <1>5, <1>6 DEF ReaderInv

\* The client that the thread has dealt with goes into the other queue, its
\* descriptor out of the set.  Although the search for a new maxFd may stop too
\* high, or at the next descriptor, no descriptor in the set is above it.
LEMMA ReaderHandsThreads ==
  ASSUME ThreadsInv, ReaderHands PROVE KernelInv' /\ WriterInv' /\ ReaderInv' /\ exit' = exit
<1> DEFINE i == reader.i
           f == reader.fd
<1>1. /\ phase = "run" /\ reader.at = "hand"
      /\ internalToRead' = internalToRead \ {i}
      /\ maxFd' = IF f # maxFd THEN maxFd
                  ELSE IF maxFd = 0 THEN -2
                  ELSE IF maxFd - 1 \in master_read_set THEN maxFd - 1 ELSE maxFd
      /\ master_read_set' = master_read_set \ {f}
      /\ UNCHANGED <<sock, client, toReadBuffer, writerVars, readfds, phase,
                     masterOrderSocket, faults>>
  BY DEF ReaderHands, StillToRead, ReadSetWithout, Running, clientVars, envVars
<1>2. /\ i \in internalToRead /\ i \in Clients /\ toWriteBuffer \in Seq(Clients)
      /\ NoDuplicates(toWriteBuffer) /\ i \notin SeqSet(toWriteBuffer)
  BY <1>1 DEF ThreadsInv, OwnerInv, Shape, Hands, OneOwner, ReaderHas
<1>3. /\ toWriteBuffer' = Append(toWriteBuffer, i)
      /\ reader' = [at |-> "scan", i |-> i + 1, fd |-> -1] /\ exit' = exit
  BY <1>2, RoomForOneMore DEF ReaderHands, GivenBack
<1>4. ToBeRead = internalToRead \ {i} /\ ToBeRead' = ToBeRead /\ ReaderHand' = {}
      /\ ReaderHand = {i}
  BY <1>1, <1>3 DEF ToBeRead, ReaderHand
<1>5. f \in Fds /\ \A j \in ToBeRead : client[j].fd # f
  BY <1>1 DEF ThreadsInv, ReaderInv, ReaderSet
<1>6. WriterInv'
  <2>1. SeqSet(toWriteBuffer') = SeqSet(toWriteBuffer) \cup {i}
    BY <1>2, <1>3, PutIn
  <2>2. SeqSet(toWriteBuffer)' = SeqSet(toWriteBuffer) \cup {i}
    BY <2>1 DEF SeqSet
  <2>3. client'[i].state # "READING"
    BY <1>1, <1>4 DEF ThreadsInv, ReaderInv, ReaderStates
  <2> QED
    BY <1>1, <2>2, <2>3, WriterUnaware DEF ThreadsInv
<1>7. KernelInv'
  BY <1>1, KernelStays DEF kernelVars, ThreadsInv
<1>8. /\ maxFd \in Fds \cup {-1} /\ maxFd \in Int /\ master_read_set \in SUBSET Fds
      /\ \A g \in master_read_set : g \in Nat /\ g <= maxFd
      /\ f \in Nat \ {0} /\ f # -1
  BY <1>1, <1>5, FdsAreNumbers, InjectorAssumption
  DEF ThreadsInv, ReaderInv, ReaderTypes, ReaderSet, Fds
<1> HIDE DEF f, i
<1>9. maxFd' \in Fds \cup {-1} /\ \A g \in master_read_set' : g <= maxFd'
  BY <1>1, <1>5, <1>8
<1>10. ReaderTypes'
  <2>1. i + 1 \in 0 .. N
    BY <1>2, InjectorAssumption DEF Clients
  <2> QED
    BY <1>1, <1>3, <1>9, <2>1 DEF ThreadsInv, ReaderInv, ReaderTypes, Places
<1>11. ReaderStates'
  BY <1>1, <1>4 DEF ThreadsInv, ReaderInv, ReaderStates, SeqSet
<1>12. ReaderSet'
  BY <1>1, <1>3, <1>4, <1>5, <1>9 DEF ThreadsInv, ReaderInv, ReaderSet, f
<1>13. ReaderAnswers'
  <2>1. ToBeRead \subseteq Int /\ i \in Int
    BY <1>2 DEF ToBeRead, ThreadsInv, OwnerInv, Shape, Clients
  <2>2. \A j \in ToBeRead : j >= reader'.i => j >= reader.i
    BY <1>3, <2>1 DEF i
  <2> QED
    BY <1>1, <1>3, <1>4, <2>2 DEF ReaderAnswers, ThreadsInv, ReaderInv, Readable
<1> QED
  BY <1>3, <1>6, <1>7, <1>10, <1>11, <1>12, <1>13 DEF ReaderInv

-----------------------------------------------------------------------------
(***************************************************************************)
(* All steps of the threads, of the server and of main                     *)
(***************************************************************************)
MainTypes ==
  /\ stats \in [DOMAIN NoStats -> Nat]
  /\ timeUp \in BOOLEAN /\ exit \in Exits
  /\ runs \in 0 .. MaxRuns /\ replies \in 0 .. MaxReplies
  /\ faults \in 0 .. MaxFaults

\* The process goes on, or exits because of someone else or of a descriptor
\* that does not fit a select set.
ExitsWell ==
  \/ exit' = exit
  \/ /\ faults' > 0
     /\ exit' \in {"order", "report", "reset", "refused", "short write", "connect", "eof"}
  \/ exit' = "FD_SETSIZE" /\ FirstFd + N >= FdSetSize

\* One more error.
LEMMA FaultCounts ==
  ASSUME faults \in 0 .. MaxFaults
  PROVE  /\ Fault => faults' > 0 /\ faults' \in 0 .. MaxFaults
         /\ faults > 0 => faults + 1 > 0
  BY InjectorAssumption DEF Fault

\* Every step of writingFunc.
LEMMA WriterThreads ==
  ASSUME ThreadsInv, faults \in 0 .. MaxFaults, WriterStep
  PROVE  KernelInv' /\ WriterInv' /\ ReaderInv' /\ ExitsWell
<1>1. CASE WriterTakes
  <2>1. UNCHANGED <<sock, client, toReadBuffer, readerVars, phase, masterOrderSocket, faults>>
        /\ exit' = exit
    BY <1>1 DEF WriterTakes, clientVars, mainVars, envVars
  <2> QED
    BY <1>1, <2>1, WriterTakesThreads, WriterAlone DEF ExitsWell
<1>2. ASSUME WriterFilled \/ WriterLoops
      PROVE  KernelInv' /\ WriterInv' /\ ReaderInv' /\ ExitsWell
  <2>1. UNCHANGED <<sock, client, toReadBuffer, readerVars, phase, masterOrderSocket, faults>>
        /\ exit' = exit
    BY <1>2 DEF WriterFilled, WriterLoops, clientVars, mainVars, envVars
  <2> QED
    BY <1>2, <2>1, WriterTurns, WriterAlone DEF ExitsWell
<1>3. CASE WriterSelects
  <2>1. UNCHANGED <<sock, client, toReadBuffer, readerVars, phase, masterOrderSocket, faults>>
        /\ exit' = exit
    BY <1>3 DEF WriterSelects, clientVars, mainVars, envVars
  <2> QED
    BY <1>3, <2>1, WriterSelectsThreads, WriterAlone DEF ExitsWell
<1>4. CASE WriterHands
  <2>1. UNCHANGED <<sock, client, phase, masterOrderSocket, faults>>
    BY <1>4 DEF WriterHands, clientVars, envVars
  <2>2. KernelInv'
    BY <2>1, KernelStays DEF kernelVars, ThreadsInv
  <2> QED
    BY <1>4, <2>2, WriterHandsThreads DEF ExitsWell
<1>5. ASSUME NEW i \in Clients, WriterWaits(i)
      PROVE  KernelInv' /\ WriterInv' /\ ReaderInv' /\ ExitsWell
  <2>1. /\ WriterAt(i) /\ writer' = [writer EXCEPT !.i = i + 1]
        /\ UNCHANGED <<sock, client, toWriteBuffer, toReadBuffer, internalToWrite,
                       master_connect_fds, max_connect_socket,
                       master_connect_fds_select, readerVars, phase, masterOrderSocket,
                       faults>>
        /\ exit' = exit
    BY <1>5 DEF WriterWaits, clientVars, mainVars, envVars
  <2> QED
    BY <2>1, WriterGoesOn, WriterAlone DEF ExitsWell
<1>6. ASSUME NEW i \in Clients, SendRequest(i)
      PROVE  KernelInv' /\ WriterInv' /\ ReaderInv' /\ ExitsWell
  <2>1. faults' = faults /\ exit' = exit
    BY <1>6 DEF SendRequest, mainVars, envVars
  <2> QED
    BY <1>6, <2>1, SendRequestThreads DEF ExitsWell
<1>7. ASSUME NEW i \in Clients, FinalizeConnect(i)
      PROVE  KernelInv' /\ WriterInv' /\ ReaderInv' /\ ExitsWell
  <2>1. faults' = faults
    BY <1>7 DEF FinalizeConnect, envVars
  <2> QED
    BY <1>7, <2>1, FinalizeConnectThreads DEF ExitsWell
<1>8. ASSUME NEW i \in Clients, InitializeConnect(i)
      PROVE  KernelInv' /\ WriterInv' /\ ReaderInv' /\ ExitsWell
  <2> DEFINE st == "connecting"
  <2>1. /\ WriterAt(i) /\ client[i].state = "CONNECT" /\ ~ client[i].connect_in_progress
        /\ client[i].fd # -1 \/ FreeFds # {}
        /\ sock' = [sock EXCEPT ![ConnectFd(i)] = Socket(st)]
        /\ client' = [client EXCEPT ![i].fd = ConnectFd(i),
                                    ![i].connect_in_progress = (st = "connecting")]
        /\ AddToWriteSet(ConnectFd(i))
        /\ writer' = [writer EXCEPT !.i = i + 1]
        /\ UNCHANGED <<toWriteBuffer, toReadBuffer, internalToWrite,
                       master_connect_fds_select, readerVars, phase, masterOrderSocket,
                       faults>>
        /\ exit' = exit
    BY <1>8 DEF InitializeConnect, HasFd, mainVars, envVars
  <2>2. st \in {"connecting", "fresh"}
    OBVIOUS
  <2> HIDE DEF st
  <2>3. KernelInv' /\ WriterInv' /\ ReaderInv'
    BY <2>1, <2>2, InitializeConnectThreads
  <2> QED
    BY <2>1, <2>3 DEF ExitsWell
<1>9. ASSUME NEW i \in Clients, InitializeConnectLater(i)
      PROVE  KernelInv' /\ WriterInv' /\ ReaderInv' /\ ExitsWell
  <2> DEFINE st == "fresh"
  <2>1. /\ WriterAt(i) /\ client[i].state = "CONNECT" /\ ~ client[i].connect_in_progress
        /\ client[i].fd # -1 \/ FreeFds # {}
        /\ sock' = [sock EXCEPT ![ConnectFd(i)] = Socket(st)]
        /\ client' = [client EXCEPT ![i].fd = ConnectFd(i)]
        /\ writer' = [writer EXCEPT !.i = i + 1]
        /\ UNCHANGED <<toWriteBuffer, toReadBuffer, internalToWrite,
                       master_connect_fds, max_connect_socket,
                       master_connect_fds_select, readerVars, phase, masterOrderSocket>>
        /\ exit' = exit /\ Fault
    BY <1>9 DEF InitializeConnectLater, HasFd, mainVars
  <2>2. client' = [client EXCEPT ![i].fd = ConnectFd(i),
                                 ![i].connect_in_progress = (st = "connecting")]
    <3>1. client[i] \in ClientRecords /\ client \in [Clients -> ClientRecords]
      BY DEF ThreadsInv, KernelInv, KernelTypes
    <3>2. [client[i] EXCEPT !.fd = ConnectFd(i)]
            = [client[i] EXCEPT !.fd = ConnectFd(i),
                                !.connect_in_progress = (st = "connecting")]
      <4> DEFINE g == ConnectFd(i)
      <4> HIDE DEF g
      <4> QED
        BY <2>1, <3>1 DEF ClientRecords, g
    <3> QED
      BY <2>1, <3>1, <3>2
  <2>3. st \in {"connecting", "fresh"} /\ st = "fresh"
    OBVIOUS
  <2>4. faults > 0 => faults' > 0
    BY <2>1, FaultCounts
  <2> HIDE DEF st
  <2>5. KernelInv' /\ WriterInv' /\ ReaderInv'
    BY <2>1, <2>2, <2>3, <2>4, InitializeConnectThreads
  <2> QED
    BY <2>1, <2>5 DEF ExitsWell
<1>10. ASSUME NEW i \in Clients,
              SendRequestError(i) \/ SendRequestShort(i) \/ InitializeConnectFails(i)
       PROVE  KernelInv' /\ WriterInv' /\ ReaderInv' /\ ExitsWell
  <2>1. /\ UNCHANGED <<sock, client, toWriteBuffer, toReadBuffer, writerVars, readerVars,
                       phase, masterOrderSocket>>
        /\ faults' = faults \/ Fault
    BY <1>10
    DEF SendRequestError, SendRequestShort, InitializeConnectFails, clientVars, envVars
  <2>2. faults > 0 => faults' > 0
    BY <2>1, FaultCounts
  <2>3. KernelInv' /\ WriterInv' /\ ReaderInv'
    BY <2>1, <2>2, WriterAlone, ReaderAlone
  <2>4. ExitsWell
    <3>1. CASE SendRequestError(i)
      <4>1. /\ WriterAt(i) /\ client[i].state = "WRITING"
            /\ sock[client[i].fd].st = "reset" /\ exit' = "reset" /\ faults' = faults
        BY <3>1 DEF SendRequestError, envVars
      <4>2. client[i].fd \in Fds
        BY <4>1, WriterLooksAt DEF ClientOK, WritingOK
      <4>3. faults > 0
        BY <4>1, <4>2 DEF ThreadsInv, KernelInv, FaultsSeen, Faulty
      <4> QED
        BY <4>1, <4>3 DEF ExitsWell
    <3>2. CASE SendRequestShort(i)
      BY <3>2, FaultCounts DEF SendRequestShort, ExitsWell
    <3>3. CASE InitializeConnectFails(i)
      <4>1. WriterAt(i)
        BY <3>3 DEF InitializeConnectFails
      <4>2. ~ (client[i].fd = -1 /\ FreeFds = {})
        <5>1. phase = "run"
          BY <4>1, WriterLooksAt
        <5>2. {f \in Fds : sock[f].st # "free"}
                \subseteq {client[j].fd : j \in Clients} \cup {masterOrderSocket}
          BY <5>1 DEF ThreadsInv, KernelInv, NoLeak
        <5> QED
          BY <5>2, FdForEach
      <4>3. CASE HasFd(i)
        <5>1. exit' = "connect" /\ Fault
          BY <3>3, <4>3 DEF InitializeConnectFails
        <5> QED
          BY <5>1, FaultCounts DEF ExitsWell
      <4>4. CASE ~ HasFd(i)
        <5>1. client[i].fd = -1 /\ FreeFds # {} /\ ~ (ConnectFd(i) < FdSetSize)
          BY <4>2, <4>4 DEF HasFd
        <5>2. ConnectFd(i) \in Fds
          BY <5>1, MinFree DEF ConnectFd, FreeFds
        <5>3. FirstFd + N >= FdSetSize
          <6> DEFINE f == ConnectFd(i)
          <6>1. f \in FirstFd .. FirstFd + N /\ ~ (f < FdSetSize)
            BY <5>1, <5>2 DEF Fds
          <6> HIDE DEF f
          <6> QED
            BY <6>1, InjectorAssumption
        <5>4. exit' = "FD_SETSIZE"
          BY <3>3, <4>4, <5>1 DEF InitializeConnectFails
        <5> QED
          BY <5>3, <5>4 DEF ExitsWell
      <4> QED
        BY <4>3, <4>4
    <3> QED
      BY <1>10, <3>1, <3>2, <3>3
  <2> QED
    BY <2>3, <2>4
<1> QED
  BY <1>1, <1>2, <1>3, <1>4, <1>5, <1>6, <1>7, <1>8, <1>9, <1>10 DEF WriterStep

\* Every step of readingFunc.
LEMMA ReaderThreads ==
  ASSUME ThreadsInv, ReaderStep
  PROVE  KernelInv' /\ WriterInv' /\ ReaderInv' /\ ExitsWell
<1>1. CASE ReaderTakes
  <2>1. UNCHANGED <<sock, client, toWriteBuffer, writerVars, phase, masterOrderSocket, faults>>
        /\ exit' = exit
    BY <1>1 DEF ReaderTakes, clientVars, mainVars, envVars
  <2> QED
    BY <1>1, <2>1, ReaderTakesThreads, ReaderAlone DEF ExitsWell
<1>2. ASSUME ReaderFilled \/ ReaderLoops \/ \E i \in Clients : ReaderWaits(i)
      PROVE  KernelInv' /\ WriterInv' /\ ReaderInv' /\ ExitsWell
  <2>1. UNCHANGED <<sock, client, toWriteBuffer, writerVars, phase, masterOrderSocket, faults>>
        /\ exit' = exit
    BY <1>2 DEF ReaderFilled, ReaderLoops, ReaderWaits, clientVars, mainVars, envVars
  <2> QED
    BY <1>2, <2>1, ReaderTurns, ReaderAlone DEF ExitsWell
<1>3. CASE ReaderSelects
  <2>1. UNCHANGED <<sock, client, toWriteBuffer, writerVars, phase, masterOrderSocket, faults>>
    BY <1>3 DEF ReaderSelects, clientVars, envVars
  <2> QED
    BY <1>3, <2>1, ReaderSelectsThreads, ReaderAlone DEF ExitsWell
<1>4. CASE ReaderHands
  BY <1>4, ReaderHandsThreads DEF ExitsWell
<1>5. ASSUME NEW i \in Clients, NEW n \in 1 .. AnswerLen, ReadHeaders(i, n) \/ ReadContent(i, n)
      PROVE  KernelInv' /\ WriterInv' /\ ReaderInv' /\ ExitsWell
  <2>1. ReaderAt(i) /\ AfterRead(i) /\ UnchangedByRead /\ exit' = exit
    BY <1>5 DEF ReadHeaders, ReadContent
  <2>2. \E c, s : ReadResult(i, c, s)
    BY <1>5, ReadHeadersResult, ReadContentResult
  <2> QED
    BY <2>1, <2>2, ReadThreads DEF ExitsWell
<1>6. ASSUME NEW i \in Clients, ReadNothing(i)
      PROVE  KernelInv' /\ WriterInv' /\ ReaderInv' /\ ExitsWell
  <2>1. ReaderAt(i) /\ UnchangedByRead
    BY <1>6 DEF ReadNothing
  <2>2. CASE TreatError(i) /\ AfterRead(i) /\ exit' = exit
    <3>1. \E c, s : ReadResult(i, c, s)
      BY <2>1, <2>2, ReaderLooksAt, TreatErrorResult
    <3> QED
      BY <2>1, <2>2, <3>1, ReadThreads DEF ExitsWell
  <2>3. ASSUME Faulty(sock[client[i].fd]), exit' \in {"reset", "eof"},
               UNCHANGED <<clientVars, reader>>
        PROVE  KernelInv' /\ WriterInv' /\ ReaderInv' /\ ExitsWell
    <3>1. UNCHANGED <<sock, client, toWriteBuffer, toReadBuffer, writerVars, readerVars,
                      phase, masterOrderSocket, faults>>
      BY <2>1, <2>3 DEF UnchangedByRead, clientVars, readerVars, envVars
    <3>2. KernelInv' /\ WriterInv' /\ ReaderInv'
      BY <3>1, WriterAlone, ReaderAlone
    <3>3. faults > 0
      BY <2>1, <2>3, ReaderLooksAt
    <3> QED
      BY <2>3, <3>1, <3>2, <3>3 DEF ExitsWell
  <2> QED
    BY <1>6, <2>2, <2>3 DEF ReadNothing, Faulty
<1> QED
  BY <1>1, <1>2, <1>3, <1>4, <1>5, <1>6 DEF ReaderStep

\* A socket the server can do something with is a client's.
LEMMA ServersClient ==
  ASSUME KernelInv, phase = "run", NEW f \in Fds, sock[f].st \in {"connecting", "open"}
  PROVE  \E i \in Clients : /\ client[i].fd = f /\ client[i] \in ClientRecords
                            /\ ClientOK(client[i], sock[f])
<1>1. f # masterOrderSocket
  BY DEF KernelInv, MasterWaits
<1>2. PICK i \in Clients : client[i].fd = f
  BY <1>1, UsedFds
<1>3. client[i] \in ClientRecords /\ ClientOK(client[i], sock[f])
  BY <1>2 DEF KernelInv, KernelTypes, ClientsOK
<1> QED
  BY <1>2, <1>3

\* What the server does is seen by neither thread: a connection does not become
\* pending again, and what could be read still can.
LEMMA ServerActs ==
  ASSUME ThreadsInv, phase = "run", NEW i \in Clients, NEW f \in Fds, client[i].fd = f,
         NEW s \in Sockets, sock' = [sock EXCEPT ![f] = s], UnchangedByServer,
         ClientOK(client[i], s), s.st \notin {"connecting", "free"},
         Readable(f) => s.avail > 0 \/ s.fin \/ s.st = "reset",
         faults > 0 => faults' > 0, Faulty(s) => faults' > 0
  PROVE  KernelInv' /\ WriterInv' /\ ReaderInv' /\ exit' = exit
<1>1. UNCHANGED <<client, toWriteBuffer, toReadBuffer, writerVars, readerVars, phase,
                  masterOrderSocket, exit>>
  BY DEF UnchangedByServer, mainVars
<1>2. client \in [Clients -> ClientRecords] /\ sock \in [Fds -> Sockets]
  BY DEF ThreadsInv, KernelInv, KernelTypes
<1>3. client' = [client EXCEPT ![i] = client[i]] /\ client[i] \in ClientRecords
  BY <1>1, <1>2
<1>4. KernelInv'
  BY <1>1, <1>3, ClientChange DEF ThreadsInv
<1>5. \A g \in Fds : sock'[g] = IF g = f THEN s ELSE sock[g]
  BY <1>2
<1>6. /\ SeqSet(toWriteBuffer)' = SeqSet(toWriteBuffer)
      /\ SeqSet(toReadBuffer)' = SeqSet(toReadBuffer)
      /\ SeqSet(toWriteBuffer) \cup WriterHas \subseteq Clients
      /\ SeqSet(toReadBuffer) \cup ReaderHas \subseteq Clients
      /\ \A j \in Clients : client[j].fd \in Fds \cup {-1}
  BY <1>1, <1>2 DEF SeqSet, ThreadsInv, OwnerInv, OneOwner, ClientRecords
<1>7. WriterInv'
  BY <1>1, <1>5, <1>6, WriterUnaware DEF ThreadsInv
<1>8. ReaderInv'
  <2>1. \A g \in Fds : Readable(g) => Readable(g)'
    BY <1>5 DEF Readable
  <2> QED
    BY <1>1, <1>6, <2>1, ReaderUnaware DEF ThreadsInv
<1> QED
  BY <1>1, <1>4, <1>7, <1>8

\* The clock, the network and the server.
LEMMA EnvironmentThreads ==
  ASSUME ThreadsInv, faults \in 0 .. MaxFaults, Environment
  PROVE  KernelInv' /\ WriterInv' /\ ReaderInv' /\ exit' = exit
<1>1. CASE Timeout
  <2>1. UNCHANGED <<sock, client, toWriteBuffer, toReadBuffer, writerVars, readerVars,
                    phase, masterOrderSocket, faults, exit>>
    BY <1>1 DEF Timeout, clientVars, envVars
  <2> QED
    BY <2>1, WriterAlone, ReaderAlone
<1>2. ASSUME NEW f \in Fds,
             \/ Accept(f) \/ AnswerBad(f) \/ ServerCloses(f) \/ ServerResets(f)
             \/ \E how \in {"timedout", "refused"} : ConnectError(f, how)
             \/ \E n \in 1 .. AnswerLen : Answer(f, n)
      PROVE  KernelInv' /\ WriterInv' /\ ReaderInv' /\ exit' = exit
  <2>1. phase = "run" /\ UnchangedByServer /\ sock[f].st \in {"connecting", "open"}
    BY <1>2
    DEF Accept, AnswerBad, ServerCloses, ServerResets, ConnectError, Answer, Running
  <2>2. PICK i \in Clients : /\ client[i].fd = f /\ client[i] \in ClientRecords
                             /\ ClientOK(client[i], sock[f])
    BY <2>1, ServersClient DEF ThreadsInv
  <2>3. /\ sock \in [Fds -> Sockets] /\ sock[f] \in Sockets /\ f # -1
        /\ Faulty(sock[f]) => faults > 0
    BY FdsAreNumbers DEF ThreadsInv, KernelInv, KernelTypes, FaultsSeen
  <2>4. (faults' = faults \/ Fault) /\ (faults > 0 => faults' > 0)
    BY <1>2, FaultCounts
    DEF Accept, AnswerBad, ServerCloses, ServerResets, ConnectError, Answer, envVars
  <2>5. HdrLen \in Nat \ {0} /\ BodyLen \in Nat /\ AnswerLen = HdrLen + BodyLen
    BY InjectorAssumption DEF AnswerLen
  <2>12. 0 \in 0 .. AnswerLen
    BY <2>5
  <2>6. CASE Accept(f)
    <3> DEFINE s == [sock[f] EXCEPT !.st = "open"]
    <3>1. sock' = [sock EXCEPT ![f] = s] /\ sock[f].st = "connecting"
      BY <2>3, <2>6 DEF Accept
    <3>2. s \in Sockets /\ ClientOK(client[i], s) /\ s.st = "open" /\ s.fin = sock[f].fin
          /\ s.avail = sock[f].avail
      BY <2>2, <2>3, <3>1 DEF Sockets, ClientOK, ConnectOK, WritingOK, ReadingOK
    <3> HIDE DEF s
    <3> QED
      BY <2>1, <2>2, <2>3, <2>4, <3>1, <3>2, ServerActs DEF Readable, Faulty
  <2>7. CASE AnswerBad(f)
    <3> DEFINE s == [sock[f] EXCEPT !.bad = TRUE]
    <3>1. sock' = [sock EXCEPT ![f] = s] /\ sock[f].st = "open"
      BY <2>3, <2>7 DEF AnswerBad
    <3>2. s \in Sockets /\ ClientOK(client[i], s) /\ s.st = "open" /\ s.fin = sock[f].fin
          /\ s.avail = sock[f].avail
      BY <2>2, <2>3, <3>1 DEF Sockets, ClientOK, ConnectOK, WritingOK, ReadingOK
    <3> HIDE DEF s
    <3> QED
      BY <2>1, <2>2, <2>3, <2>4, <3>1, <3>2, ServerActs DEF Readable, Faulty
  <2>8. CASE ServerCloses(f)
    <3> DEFINE s == [sock[f] EXCEPT !.fin = TRUE, !.toSend = 0]
    <3>1. sock' = [sock EXCEPT ![f] = s] /\ sock[f].st = "open" /\ faults' > 0
      BY <2>3, <2>8, FaultCounts DEF ServerCloses
    <3>2. s \in Sockets /\ s.st = "open" /\ s.fin /\ s.toSend = 0 /\ s.avail = sock[f].avail
      BY <2>3, <2>12, <3>1 DEF Sockets
    <3>3. /\ sock[f].toSend \in Nat /\ sock[f].avail \in Nat
          /\ client[i].bytes_read \in Nat
      BY <2>2, <2>3, <2>5 DEF Sockets, ClientRecords
    <3> HIDE DEF s
    <3>4. ClientOK(client[i], s)
      BY <2>2, <2>3, <2>5, <3>1, <3>2, <3>3
      DEF ClientOK, ConnectOK, WritingOK, ReadingOK
    <3> QED
      BY <2>1, <2>2, <2>3, <2>4, <3>1, <3>2, <3>4, ServerActs DEF Readable, Faulty
  <2>9. CASE ServerResets(f)
    <3> DEFINE s == [sock[f] EXCEPT !.st = "reset", !.toSend = 0]
    <3>1. sock' = [sock EXCEPT ![f] = s] /\ sock[f].st = "open" /\ faults' > 0
      BY <2>3, <2>9, FaultCounts DEF ServerResets
    <3>2. s \in Sockets /\ s.st = "reset" /\ s.toSend = 0 /\ s.avail = sock[f].avail
      BY <2>3, <2>12, <3>1 DEF Sockets
    <3>3. /\ sock[f].toSend \in Nat /\ sock[f].avail \in Nat
          /\ client[i].bytes_read \in Nat
      BY <2>2, <2>3, <2>5 DEF Sockets, ClientRecords
    <3> HIDE DEF s
    <3>4. ClientOK(client[i], s)
      BY <2>2, <2>3, <2>5, <3>1, <3>2, <3>3
      DEF ClientOK, ConnectOK, WritingOK, ReadingOK
    <3> QED
      BY <2>1, <2>2, <2>3, <2>4, <3>1, <3>2, <3>4, ServerActs DEF Readable, Faulty
  <2>10. ASSUME NEW how \in {"timedout", "refused"}, ConnectError(f, how)
         PROVE  KernelInv' /\ WriterInv' /\ ReaderInv' /\ exit' = exit
    <3> DEFINE s == [sock[f] EXCEPT !.st = how]
    <3>1. sock' = [sock EXCEPT ![f] = s] /\ sock[f].st = "connecting" /\ faults' > 0
      BY <2>3, <2>10, FaultCounts DEF ConnectError
    <3>2. s \in Sockets /\ ClientOK(client[i], s) /\ s.st = how /\ s.fin = sock[f].fin
          /\ s.avail = sock[f].avail
      BY <2>2, <2>3, <3>1 DEF Sockets, ClientOK, ConnectOK, WritingOK, ReadingOK
    <3>3. how \notin {"connecting", "free"}
      OBVIOUS
    <3> HIDE DEF s
    <3> QED
      BY <2>1, <2>2, <2>3, <2>4, <3>1, <3>2, <3>3, ServerActs DEF Readable, Faulty
  <2>11. ASSUME NEW n \in 1 .. AnswerLen, Answer(f, n)
         PROVE  KernelInv' /\ WriterInv' /\ ReaderInv' /\ exit' = exit
    <3> DEFINE s == [sock[f] EXCEPT !.toSend = @ - n, !.avail = @ + n]
    <3>1. sock' = [sock EXCEPT ![f] = s] /\ sock[f].st = "open" /\ n <= sock[f].toSend
      BY <2>3, <2>11 DEF Answer
    <3>2. /\ s.st = "open" /\ s.fin = sock[f].fin /\ s.bad = sock[f].bad
          /\ s.avail = sock[f].avail + n /\ s.toSend = sock[f].toSend - n
      BY <2>3, <3>1 DEF Sockets
    <3>3. /\ sock[f].toSend \in Nat /\ sock[f].avail \in Nat /\ n \in Nat \ {0}
          /\ client[i].bytes_read \in Nat
      BY <2>2, <2>3, <2>5 DEF Sockets, ClientRecords
    <3>4. client[i].state = "READING" /\ ReadingOK(client[i], sock[f])
      <4>1. sock[f].toSend # 0
        BY <3>1, <3>3
      <4> QED
        BY <2>2, <2>3, <4>1 DEF ClientOK, ConnectOK, WritingOK, ClientRecords
    <3>5. ReadingOK(client[i], s)
      BY <2>5, <3>1, <3>2, <3>3, <3>4 DEF ReadingOK
    <3>6. s \in Sockets
      <4>1. s.avail \in 0 .. AnswerLen /\ s.toSend \in 0 .. AnswerLen
        BY <2>3, <2>5, <3>1, <3>2, <3>3, <3>4 DEF ReadingOK, Sockets
      <4> QED
        BY <2>3, <3>2, <4>1 DEF Sockets
    <3>7. ClientOK(client[i], s)
      BY <3>4, <3>5 DEF ClientOK
    <3>8. s.avail > 0
      BY <3>2, <3>3
    <3> HIDE DEF s
    <3> QED
      BY <2>1, <2>2, <2>3, <2>4, <3>1, <3>2, <3>6, <3>7, <3>8, ServerActs DEF Faulty
  <2> QED
    BY <1>2, <2>6, <2>7, <2>8, <2>9, <2>10, <2>11
<1> QED
  BY <1>1, <1>2 DEF Environment

\* The start of a run: no client has a connection, the master has its own.
LEMMA TakeOrderThreads ==
  ASSUME ThreadsInv, TakeOrder PROVE KernelInv' /\ WriterInv' /\ ReaderInv'
<1> DEFINE m == masterOrderSocket'
<1>1. /\ phase = "order" /\ phase' = "run"
      /\ m = Min(FreeFds) /\ sock' = [sock EXCEPT ![m] = Socket("order")]
      /\ client' = [i \in Clients |-> NewClient]
      /\ master_connect_fds' = {} /\ master_connect_fds_select' = {}
      /\ max_connect_socket' = max_connect_socket
      /\ toReadBuffer' = <<>> /\ internalToWrite' = {} /\ internalToRead' = {}
      /\ writer' = [at |-> "fill", i |-> 0]
      /\ reader' = [at |-> "fill", i |-> 0, fd |-> -1]
      /\ master_read_set' = {} /\ maxFd' = -1 /\ readfds' = {} /\ faults' = faults
  BY DEF TakeOrder, ZeroedWriteSet
<1>2. OwnerInv'
  <2>1. [Next]_vars
    BY DEF Next, Main
  <2> QED
    BY <2>1, NextOwner DEF ThreadsInv
<1>3. \A f \in Fds : sock[f].st = "free"
  BY <1>1 DEF ThreadsInv, KernelInv, NoLeak
<1>4. m \in Fds
  <2>1. FirstFd \in Fds
    BY InjectorAssumption DEF Fds
  <2>2. FreeFds # {}
    BY <1>3, <2>1 DEF FreeFds
  <2> QED
    BY <1>1, <2>2, MinFree DEF FreeFds
<1>5. /\ NewClient \in ClientRecords /\ NewClient.state = "CONNECT" /\ NewClient.fd = -1
      /\ ConnectOK(NewClient, Socket("free")) /\ ~ NewClient.connect_in_progress
      /\ \A s : ConnectOK(NewClient, s)
      /\ Socket("order") \in Sockets /\ Socket("order").st = "order"
      /\ ~ Faulty(Socket("order"))
  BY InjectorAssumption
  DEF NewClient, ClientRecords, ConnectOK, Socket, Sockets, AnswerLen, Faulty
<1> HIDE DEF m
<1>6. sock \in [Fds -> Sockets] /\ sock'[m] = Socket("order")
      /\ \A f \in Fds \ {m} : sock'[f] = sock[f]
  BY <1>1, <1>4 DEF ThreadsInv, KernelInv, KernelTypes
<1>7. KernelInv'
  <2>1. KernelTypes'
    BY <1>1, <1>4, <1>5, <1>6 DEF KernelTypes, m
  <2>2. ClientsOK'
    <3> SUFFICES ASSUME NEW i \in Clients PROVE ClientOK(client'[i], sock'[client'[i].fd])
      BY DEF ClientsOK, ClientOK, ConnectOK, WritingOK, ReadingOK
    <3>1. client'[i] = NewClient
      BY <1>1
    <3> QED
      BY <1>5, <3>1 DEF ClientOK
  <2>3. OwnFds' /\ Idle'
    BY <1>1, <1>5 DEF OwnFds, Idle
  <2>4. MasterWaits'
    BY <1>4, <1>5, <1>6 DEF MasterWaits, m
  <2>5. NoLeak'
    <3>1. {f \in Fds : sock'[f].st # "free"} = {m}
      BY <1>3, <1>4, <1>5, <1>6
    <3>2. {client'[i].fd : i \in Clients} \ {-1} = {}
      BY <1>1, <1>5
    <3> QED
      BY <1>1, <3>1, <3>2 DEF NoLeak, m
  <2>6. FaultsSeen'
    <3> SUFFICES ASSUME NEW f \in Fds, Faulty(sock'[f]) PROVE faults' > 0
      BY DEF FaultsSeen, Faulty
    <3> QED
      BY <1>1, <1>5, <1>6 DEF ThreadsInv, KernelInv, FaultsSeen
  <2> QED
    BY <2>1, <2>2, <2>3, <2>4, <2>5, <2>6 DEF KernelInv
<1>8. WriterInv'
  <2>1. WriterTypes'
    BY <1>1, InjectorAssumption DEF ThreadsInv, WriterInv, WriterTypes, Places
  <2>2. \A i \in SeqSet(toWriteBuffer)' : i \in Clients
    BY <1>1, <1>2 DEF OwnerInv, OneOwner
  <2>3. WriterStates'
    BY <1>1, <1>5, <2>2 DEF WriterStates
  <2>4. WriterSet' /\ WriterAnswers'
    BY <1>1 DEF WriterSet, WriterAnswers
  <2> QED
    BY <2>1, <2>3, <2>4 DEF WriterInv
<1>9. ReaderInv'
  <2>1. ReaderTypes'
    BY <1>1, InjectorAssumption DEF ReaderTypes, Places
  <2>2. SeqSet(toReadBuffer)' = {} /\ ToBeRead' = {} /\ ReaderHand' = {}
    BY <1>1 DEF SeqSet, ToBeRead, ReaderHand
  <2>3. ReaderStates' /\ ReaderSet' /\ ReaderAnswers'
    BY <1>1, <2>2 DEF ReaderStates, ReaderSet, ReaderAnswers
  <2> QED
    BY <2>1, <2>3 DEF ReaderInv
<1> QED
  BY <1>7, <1>8, <1>9

\* The end of a run: every socket is closed.
LEMMA ReportThreads ==
  ASSUME ThreadsInv, ComputeStats \/ Report \/ Clean
  PROVE  KernelInv' /\ WriterInv' /\ ReaderInv'
<1>1. /\ UNCHANGED <<writerVars, readerVars, masterOrderSocket, faults>>
      /\ phase # "order" /\ phase' # "run"
  BY DEF ComputeStats, Report, Clean, Running, envVars
<1>2. WriterInv' /\ ReaderInv'
  BY <1>1
  DEF ThreadsInv, WriterInv, WriterTypes, ReaderInv, ReaderTypes, writerVars, readerVars
<1>3. /\ sock \in [Fds -> Sockets] /\ client \in [Clients -> ClientRecords]
      /\ masterOrderSocket \in Fds \cup {-1} /\ -1 \notin Fds
      /\ ClientsOK /\ OwnFds /\ MasterWaits /\ NoLeak /\ FaultsSeen
  BY FdsAreNumbers DEF ThreadsInv, KernelInv, KernelTypes
<1>4. /\ Socket("free") \in Sockets /\ Socket("free").st = "free"
      /\ ~ Faulty(Socket("free"))
  BY InjectorAssumption DEF Socket, Sockets, AnswerLen, Faulty
<1>5. CASE ComputeStats
  <2>1. phase = "run" /\ phase' = "report" /\ UNCHANGED <<sock, client>>
    BY <1>5 DEF ComputeStats, Running
  <2>2. KernelTypes' /\ Idle' /\ MasterWaits' /\ OwnFds'
    BY <1>1, <1>3, <2>1 DEF KernelTypes, Idle, MasterWaits, OwnFds
  <2>3. NoLeak'
    BY <1>1, <1>3, <2>1 DEF NoLeak
  <2>4. ClientsOK' /\ FaultsSeen'
    BY <1>1, <1>3, <2>1
    DEF ClientsOK, ClientOK, ConnectOK, WritingOK, ReadingOK, FaultsSeen, Faulty
  <2> QED
    BY <1>2, <2>2, <2>3, <2>4 DEF KernelInv
<1>6. CASE Report
  <2> DEFINE m == masterOrderSocket
  <2>1. /\ phase = "report" /\ phase' = "clean" /\ client' = client
        /\ sock' = [sock EXCEPT ![m] = Socket("free")]
    BY <1>6 DEF Report
  <2>2. m \in Fds
    BY <1>3, <2>1 DEF MasterWaits
  <2>3. sock'[m] = Socket("free") /\ \A f \in Fds \ {m} : sock'[f] = sock[f]
    BY <1>3, <2>1, <2>2
  <2>4. \A i \in Clients : client[i].fd \in (Fds \ {m}) \cup {-1}
    BY <1>3, <2>2 DEF OwnFds, ClientRecords
  <2> HIDE DEF m
  <2>5. KernelTypes' /\ Idle' /\ MasterWaits' /\ OwnFds'
    BY <1>1, <1>3, <1>4, <2>1 DEF KernelTypes, Idle, MasterWaits, OwnFds
  <2>6. NoLeak'
    <3>1. {f \in Fds : sock[f].st # "free"} = ({client[i].fd : i \in Clients} \ {-1}) \cup {m}
      BY <1>3, <2>1 DEF NoLeak, m
    <3>2. {f \in Fds : sock'[f].st # "free"} = {client[i].fd : i \in Clients} \ {-1}
      <4>1. {f \in Fds : sock'[f].st # "free"} = {f \in Fds : sock[f].st # "free"} \ {m}
        BY <1>4, <2>3
      <4> QED
        BY <2>4, <3>1, <4>1
    <3> QED
      BY <2>1, <3>2 DEF NoLeak
  <2>7. ClientsOK'
    <3> SUFFICES ASSUME NEW i \in Clients PROVE ClientOK(client[i], sock'[client[i].fd])
      BY <2>1 DEF ClientsOK, ClientOK, ConnectOK, WritingOK, ReadingOK
    <3>1. ClientOK(client[i], sock[client[i].fd])
      BY <1>3 DEF ClientsOK
    <3>2. CASE client[i].fd = -1
      BY <3>1, <3>2 DEF ClientOK, ConnectOK, WritingOK, ReadingOK
    <3>3. CASE client[i].fd # -1
      <4>1. sock'[client[i].fd] = sock[client[i].fd]
        BY <2>3, <2>4, <3>3
      <4> QED
        BY <3>1, <4>1
    <3> QED
      BY <3>2, <3>3
  <2>8. FaultsSeen'
    <3> SUFFICES ASSUME NEW f \in Fds, Faulty(sock'[f]) PROVE faults' > 0
      BY DEF FaultsSeen, Faulty
    <3> QED
      BY <1>1, <1>3, <1>4, <2>3 DEF FaultsSeen
  <2> QED
    BY <1>2, <2>5, <2>6, <2>7, <2>8 DEF KernelInv
<1>7. CASE Clean
  <2> DEFINE closed == RemainingFds \cup {masterOrderSocket}
  <2>1. /\ phase = "clean" /\ phase' = "order"
        /\ client' = [i \in Clients |-> NewClient]
        /\ sock' = [f \in Fds |-> IF f \in closed THEN Socket("free") ELSE sock[f]]
    BY <1>7 DEF Clean, ResetStats
  <2>2. \A f \in Fds : sock[f].st # "free" => f \in closed
    <3>1. {f \in Fds : sock[f].st # "free"} = {client[i].fd : i \in Clients} \ {-1}
      BY <1>3, <2>1 DEF NoLeak
    <3> QED
      BY <3>1 DEF RemainingFds
  <2> HIDE DEF closed
  <2>3. \A f \in Fds : sock'[f].st = "free" /\ (sock'[f] = Socket("free") \/ sock'[f] = sock[f])
    BY <1>4, <2>1, <2>2
  <2>4. /\ NewClient \in ClientRecords /\ NewClient.state = "CONNECT" /\ NewClient.fd = -1
        /\ \A s : ConnectOK(NewClient, s)
    BY InjectorAssumption DEF NewClient, ClientRecords, ConnectOK, AnswerLen
  <2>5. KernelTypes' /\ Idle' /\ MasterWaits' /\ OwnFds'
    BY <1>1, <1>3, <1>4, <2>1, <2>4 DEF KernelTypes, Idle, MasterWaits, OwnFds
  <2>6. ClientsOK'
    <3> SUFFICES ASSUME NEW i \in Clients PROVE ClientOK(client'[i], sock'[client'[i].fd])
      BY DEF ClientsOK, ClientOK, ConnectOK, WritingOK, ReadingOK
    <3>1. client'[i] = NewClient
      BY <2>1
    <3> QED
      BY <2>4, <3>1 DEF ClientOK
  <2>7. NoLeak'
    BY <2>1, <2>3 DEF NoLeak
  <2>8. FaultsSeen'
    <3> SUFFICES ASSUME NEW f \in Fds, Faulty(sock'[f]) PROVE faults' > 0
      BY DEF FaultsSeen, Faulty
    <3>1. Faulty(sock[f])
      BY <1>4, <2>3
    <3> QED
      BY <1>1, <1>3, <3>1 DEF FaultsSeen
  <2> QED
    BY <1>2, <2>5, <2>6, <2>7, <2>8 DEF KernelInv
<1> QED
  BY <1>5, <1>6, <1>7

\* main.
LEMMA MainThreads ==
  ASSUME ThreadsInv, faults \in 0 .. MaxFaults, Main
  PROVE  KernelInv' /\ WriterInv' /\ ReaderInv' /\ ExitsWell
<1>1. CASE TakeOrder
  BY <1>1, TakeOrderThreads DEF ExitsWell, TakeOrder
<1>2. ASSUME ComputeStats \/ Report \/ Clean
      PROVE  KernelInv' /\ WriterInv' /\ ReaderInv' /\ ExitsWell
  <2>1. exit' = exit
    BY <1>2 DEF ComputeStats, Report, Clean
  <2> QED
    BY <1>2, <2>1, ReportThreads DEF ExitsWell
<1>3. ASSUME OrderFails \/ ReportFails
      PROVE  KernelInv' /\ WriterInv' /\ ReaderInv' /\ ExitsWell
  <2>1. /\ UNCHANGED <<sock, client, toWriteBuffer, toReadBuffer, writerVars, readerVars,
                       phase, masterOrderSocket>>
        /\ Fault /\ exit' \in {"order", "report"}
    BY <1>3 DEF OrderFails, ReportFails, clientVars
  <2> QED
    BY <2>1, FaultCounts, WriterAlone, ReaderAlone DEF ExitsWell
<1> QED
  BY <1>1, <1>2, <1>3 DEF Main

-----------------------------------------------------------------------------
(***************************************************************************)
(* The counters' types                                                     *)
(***************************************************************************)
LEMMA ClientsFinite == IsFiniteSet(Clients) /\ Cardinality(Clients) = N
<1>1. N \in Nat
  BY InjectorAssumption
<1>2. 0 \in Int /\ N - 1 \in Int /\ (IF 0 > N - 1 THEN 0 ELSE N - 1 - 0 + 1) = N
  BY <1>1
<1> QED
  BY <1>2, FS_Interval DEF Clients

\* The sums compute_stats makes.
LEMMA TotalIsTotalOf ==
  /\ \A field : Total(field) = TotalOf(client, field, Clients)
  /\ \A field : Total(field)' = TotalOf(client', field, Clients)
  BY DEF Total, TotalOf, MapThenSumSet, MapThenFoldSet

Counters == {"errors", "nbRequestsOnIteration", "total_resp_recv"}

\* The sums of a counter over the clients are numbers.
LEMMA TotalsAreNumbers ==
  ASSUME KernelInv
  PROVE  \A field \in Counters : Total(field) \in Nat
<1> SUFFICES ASSUME NEW field \in Counters PROVE Total(field) \in Nat
  OBVIOUS
<1>1. \A i \in Clients : client[i][field] \in Nat
  <2>1. \A i \in Clients : client[i] \in ClientRecords
    BY DEF KernelInv, KernelTypes
  <2>2. \A c \in ClientRecords : c[field] \in Nat
    BY InjectorAssumption DEF ClientRecords, Counters
  <2> QED
    BY <2>1, <2>2
<1> QED
  BY <1>1, ClientsFinite, TotalType, TotalIsTotalOf

\* stats after one field has changed.
LEMMA StatsTypes ==
  ASSUME stats \in [DOMAIN NoStats -> Nat]
  PROVE  /\ DOMAIN NoStats = {"nb_CT", "nb_RT", "nb_CRT", "file_nb_req",
                              "global_total_resp_recv", "global_errors"}
         /\ NoStats \in [DOMAIN NoStats -> Nat]
         /\ \A f \in DOMAIN NoStats : stats[f] \in Nat
  BY DEF NoStats

\* The steps of the threads.
LEMMA ReadTypes ==
  ASSUME ThreadsInv, MainTypes, NEW i \in Clients, ReaderAt(i), NEW c, NEW s,
         ReadResult(i, c, s)
  PROVE  stats' \in [DOMAIN NoStats -> Nat]
<1>1. client[i].nbRequestsOnIteration \in Nat /\ MsgPerConn \in Nat
  BY InjectorAssumption, ReaderLooksAt DEF ClientRecords
<1>2. stats \in [DOMAIN NoStats -> Nat]
  BY DEF MainTypes
<1>3. stats.nb_RT \in Nat /\ stats.nb_CRT \in Nat
  BY <1>2, StatsTypes
<1>4. \/ stats' = stats
      \/ stats' = [stats EXCEPT !.nb_RT = @ + 1]
      \/ stats' = [stats EXCEPT !.nb_RT = @ + 1, !.nb_CRT = @ + MsgPerConn]
      \/ stats' = [stats EXCEPT !.nb_CRT = @ + client[i].nbRequestsOnIteration]
  BY DEF ReadResult, ReadsOn, AnswerInConnection, LastAnswer, ConnectionFails
<1>5. /\ stats.nb_RT + 1 \in Nat /\ stats.nb_CRT + MsgPerConn \in Nat
      /\ stats.nb_CRT + client[i].nbRequestsOnIteration \in Nat
  BY <1>1, <1>3
<1>6. \A a, b \in Nat : /\ [stats EXCEPT !.nb_RT = a] \in [DOMAIN NoStats -> Nat]
                        /\ [stats EXCEPT !.nb_CRT = b] \in [DOMAIN NoStats -> Nat]
                        /\ [stats EXCEPT !.nb_RT = a, !.nb_CRT = b] \in [DOMAIN NoStats -> Nat]
  BY <1>2
<1> QED
  BY <1>2, <1>4, <1>5, <1>6

\* Every step keeps the types of what main and the bounds count.
LEMMA NextMainTypes ==
  ASSUME ThreadsInv, MainTypes, Next PROVE MainTypes'
<1>1. /\ stats \in [DOMAIN NoStats -> Nat] /\ faults \in 0 .. MaxFaults
      /\ timeUp \in BOOLEAN /\ exit \in Exits
      /\ runs \in 0 .. MaxRuns /\ replies \in 0 .. MaxReplies
      /\ MaxRuns \in Nat /\ MaxReplies \in Nat /\ MaxFaults \in Nat
  BY InjectorAssumption DEF MainTypes
<1>2. /\ stats.nb_RT \in Nat /\ stats.nb_CT \in Nat /\ stats.nb_CRT \in Nat
      /\ stats.file_nb_req \in Nat /\ stats.global_total_resp_recv \in Nat
      /\ stats.global_errors \in Nat
  BY <1>1, StatsTypes
<1>3. exit' \in Exits
  <2>1. ExitsWell \/ exit' = exit
    <3>1. CASE Terminated
      BY <3>1 DEF Terminated, vars, mainVars
    <3> QED
      BY <1>1, <3>1, MainThreads, WriterThreads, ReaderThreads, EnvironmentThreads DEF Next
  <2> QED
    BY <1>1, <2>1 DEF ExitsWell, Exits
<1>4. CASE Main
  <2>1. CASE TakeOrder
    <3>1. /\ stats' = [stats EXCEPT !.nb_CT = 0, !.nb_RT = 0, !.nb_CRT = 0]
          /\ timeUp' = FALSE /\ runs' = runs + 1 /\ runs < MaxRuns /\ replies' = 0
          /\ faults' = faults
      BY <2>1 DEF TakeOrder
    <3>2. stats' \in [DOMAIN NoStats -> Nat]
      BY <1>1, <3>1
    <3>3. runs' \in 0 .. MaxRuns /\ replies' \in 0 .. MaxReplies
      BY <1>1, <3>1
    <3> QED
      BY <1>1, <1>3, <3>1, <3>2, <3>3 DEF MainTypes
  <2>2. CASE OrderFails \/ ReportFails
    BY <1>1, <1>3, <2>2, FaultCounts DEF OrderFails, ReportFails, clientVars, MainTypes
  <2>3. CASE ComputeStats
    <3> DEFINE a == stats.global_total_resp_recv + Total("total_resp_recv")
               b == Total("errors")
               d == stats.nb_CRT + Total("nbRequestsOnIteration")
    <3>1. a \in Nat /\ b \in Nat /\ d \in Nat
      BY <1>2, TotalsAreNumbers DEF Counters, ThreadsInv
    <3>2. /\ stats' = [stats EXCEPT !.global_total_resp_recv = a, !.global_errors = b,
                                    !.nb_CRT = d]
          /\ UNCHANGED <<timeUp, exit, runs, replies, faults>>
      BY <2>3 DEF ComputeStats, envVars
    <3> HIDE DEF a, b, d
    <3> QED
      BY <1>1, <3>1, <3>2 DEF MainTypes
  <2>4. CASE Report
    BY <1>1, <2>4 DEF Report, envVars, MainTypes
  <2>5. CASE Clean
    <3>1. /\ stats' = [NoStats EXCEPT !.global_errors = stats.global_errors]
          /\ UNCHANGED <<timeUp, exit, runs, replies, faults>>
      BY <2>5 DEF Clean, ResetStats, envVars
    <3> QED
      BY <1>1, <1>2, <3>1, StatsTypes DEF MainTypes
  <2> QED
    BY <1>4, <2>1, <2>2, <2>3, <2>4, <2>5 DEF Main
<1>5. CASE WriterStep
  <2>1. /\ \/ stats' = stats
           \/ stats' = [stats EXCEPT !.file_nb_req = @ + 1]
           \/ stats' = [stats EXCEPT !.nb_CT = @ + 1]
        /\ UNCHANGED <<timeUp, runs, replies>>
        /\ faults' = faults \/ Fault
    BY <1>5
    DEF WriterStep, WriterTakes, WriterFilled, WriterSelects, WriterHands, WriterLoops,
        WriterWaits, SendRequest, SendRequestError, SendRequestShort, FinalizeConnect,
        InitializeConnect, InitializeConnectLater, InitializeConnectFails, clientVars,
        mainVars, envVars
  <2>2. stats' \in [DOMAIN NoStats -> Nat]
    BY <1>1, <1>2, <2>1
  <2> QED
    BY <1>1, <1>3, <2>1, <2>2, FaultCounts DEF MainTypes
<1>6. CASE ReaderStep
  <2>1. UNCHANGED <<timeUp, runs, replies, faults>>
    <3>1. CASE ReaderTakes \/ ReaderFilled \/ ReaderLoops
      BY <3>1 DEF ReaderTakes, ReaderFilled, ReaderLoops, mainVars, envVars
    <3>2. CASE ReaderSelects
      BY <3>2 DEF ReaderSelects, envVars
    <3>3. CASE ReaderHands
      BY <3>3 DEF ReaderHands, envVars
    <3>4. ASSUME NEW i \in Clients, ReaderWaits(i)
          PROVE  UNCHANGED <<timeUp, runs, replies, faults>>
      BY <3>4 DEF ReaderWaits, mainVars, envVars
    <3>5. ASSUME NEW i \in Clients,
                 \/ ReadNothing(i)
                 \/ \E n \in 1 .. AnswerLen : ReadHeaders(i, n) \/ ReadContent(i, n)
          PROVE  UNCHANGED <<timeUp, runs, replies, faults>>
      <4>1. UnchangedByRead
        BY <3>5 DEF ReadNothing, ReadHeaders, ReadContent
      <4> QED
        BY <4>1 DEF UnchangedByRead, envVars
    <3> QED
      BY <1>6, <3>1, <3>2, <3>3, <3>4, <3>5 DEF ReaderStep
  <2>2. \/ stats' = stats
        \/ \E i \in Clients : ReaderAt(i) /\ \E c, s : ReadResult(i, c, s)
    <3>1. ASSUME ReaderTakes \/ ReaderFilled \/ ReaderSelects \/ ReaderHands \/ ReaderLoops
                   \/ \E i \in Clients : ReaderWaits(i)
          PROVE  stats' = stats
      BY <3>1
      DEF ReaderTakes, ReaderFilled, ReaderSelects, ReaderHands, ReaderLoops, ReaderWaits,
          clientVars
    <3>2. ASSUME NEW i \in Clients, ReadNothing(i)
          PROVE  stats' = stats \/ (ReaderAt(i) /\ \E c, s : ReadResult(i, c, s))
      <4>1. ReaderAt(i) /\ (stats' = stats \/ TreatError(i))
        BY <3>2 DEF ReadNothing, clientVars
      <4> QED
        BY <4>1, ReaderLooksAt, TreatErrorResult
    <3>3. ASSUME NEW i \in Clients, NEW n \in 1 .. AnswerLen,
                 ReadHeaders(i, n) \/ ReadContent(i, n)
          PROVE  ReaderAt(i) /\ \E c, s : ReadResult(i, c, s)
      BY <3>3, ReadHeadersResult, ReadContentResult DEF ReadHeaders, ReadContent
    <3> QED
      BY <1>6, <3>1, <3>2, <3>3 DEF ReaderStep
  <2>3. stats' \in [DOMAIN NoStats -> Nat]
    BY <1>1, <2>2, ReadTypes
  <2> QED
    BY <1>1, <1>3, <2>1, <2>3 DEF MainTypes
<1>7. CASE Environment
  <2>1. CASE Timeout
    BY <1>1, <2>1 DEF Timeout, clientVars, envVars, MainTypes
  <2>2. ASSUME NEW f \in Fds,
               \/ Accept(f) \/ AnswerBad(f) \/ ServerCloses(f) \/ ServerResets(f)
               \/ \E how \in {"timedout", "refused"} : ConnectError(f, how)
               \/ \E n \in 1 .. AnswerLen : Answer(f, n)
        PROVE  MainTypes'
    <3>1. /\ UNCHANGED <<stats, timeUp, exit, runs>>
          /\ replies' = replies \/ (replies < MaxReplies /\ replies' = replies + 1)
          /\ faults' = faults \/ Fault
      BY <2>2
      DEF Accept, AnswerBad, ServerCloses, ServerResets, ConnectError, Answer,
          UnchangedByServer, mainVars, envVars
    <3>2. replies' \in 0 .. MaxReplies /\ faults' \in 0 .. MaxFaults
      BY <1>1, <3>1, FaultCounts
    <3> QED
      BY <1>1, <3>1, <3>2 DEF MainTypes
  <2> QED
    BY <1>7, <2>1, <2>2 DEF Environment
<1>8. CASE Terminated
  BY <1>1, <1>8 DEF Terminated, vars, clientVars, mainVars, envVars, MainTypes
<1> QED
  BY <1>4, <1>5, <1>6, <1>7, <1>8 DEF Next

-----------------------------------------------------------------------------
(***************************************************************************)
(* The invariant is inductive.                                             *)
(***************************************************************************)
SocketInv == ThreadsInv /\ MainTypes /\ OnlyOutsideCauses

\* Before the first order.
LEMMA InitSocket == Init => SocketInv
<1> SUFFICES ASSUME Init PROVE SocketInv
  OBVIOUS
<1> USE DEF Init
<1>1. OwnerInv
  BY InitOwner
<1>2. /\ NewClient \in ClientRecords /\ NewClient.state = "CONNECT" /\ NewClient.fd = -1
      /\ \A s : ConnectOK(NewClient, s)
  BY InjectorAssumption DEF NewClient, ClientRecords, ConnectOK, AnswerLen
<1>3. KernelInv
  <2>1. KernelTypes
    BY <1>2, FreeSocket DEF KernelTypes
  <2>2. ClientsOK
    BY <1>2 DEF ClientsOK, ClientOK
  <2>3. OwnFds /\ Idle /\ MasterWaits /\ NoLeak /\ FaultsSeen
    BY <1>2, FreeSocket DEF OwnFds, Idle, MasterWaits, NoLeak, FaultsSeen
  <2> QED
    BY <2>1, <2>2, <2>3 DEF KernelInv
<1>4. WriterInv /\ ReaderInv
  BY InjectorAssumption DEF WriterInv, WriterTypes, ReaderInv, ReaderTypes, Places
<1>5. MainTypes
  <2>1. NoStats \in [DOMAIN NoStats -> Nat]
    BY DEF NoStats
  <2>2. /\ stats = NoStats /\ timeUp = FALSE /\ exit = "no"
        /\ runs = 0 /\ replies = 0 /\ faults = 0
    OBVIOUS
  <2>3. 0 \in 0 .. MaxRuns /\ 0 \in 0 .. MaxReplies /\ 0 \in 0 .. MaxFaults
    BY InjectorAssumption
  <2>4. "no" \in Exits /\ FALSE \in BOOLEAN
    BY DEF Exits
  <2> HIDE DEF Init
  <2> QED
    BY <2>1, <2>2, <2>3, <2>4 DEF MainTypes
<1>6. OnlyOutsideCauses
  BY DEF OnlyOutsideCauses
<1> QED
  BY <1>1, <1>3, <1>4, <1>5, <1>6 DEF SocketInv, ThreadsInv

\* A process that has exited does nothing more.
LEMMA ExitedStays == Next => exit = "no" \/ UNCHANGED vars
<1>1. Main => exit = "no"
  BY DEF Main, TakeOrder, OrderFails, ComputeStats, Report, ReportFails, Clean, Running
<1>2. WriterStep => exit = "no"
  BY DEF WriterStep, WriterTakes, WriterFilled, WriterSelects, WriterHands, WriterLoops,
         WriterWaits, SendRequest, SendRequestError, SendRequestShort, FinalizeConnect,
         InitializeConnect, InitializeConnectLater, InitializeConnectFails, WriterAt,
         Running
<1>3. ReaderStep => exit = "no"
  <2>1. \A i : ReaderAt(i) => exit = "no"
    BY DEF ReaderAt, Running
  <2>2. ReaderTakes \/ ReaderFilled \/ ReaderSelects \/ ReaderHands \/ ReaderLoops
          => exit = "no"
    BY DEF ReaderTakes, ReaderFilled, ReaderSelects, ReaderHands, ReaderLoops, Running
  <2>3. \A i \in Clients : ReaderWaits(i) \/ ReadNothing(i) => exit = "no"
    BY <2>1 DEF ReaderWaits, ReadNothing
  <2>4. \A i \in Clients, n \in 1 .. AnswerLen :
          ReadHeaders(i, n) \/ ReadContent(i, n) => exit = "no"
    BY <2>1 DEF ReadHeaders, ReadContent
  <2> QED
    BY <2>2, <2>3, <2>4 DEF ReaderStep
<1>4. Environment => exit = "no"
  BY DEF Environment, Timeout, Accept, AnswerBad, ServerCloses, ServerResets,
         ConnectError, Answer, Running
<1> QED
  BY <1>1, <1>2, <1>3, <1>4 DEF Next, Terminated

\* What does not change keeps the invariant.
LEMMA StutterSocket == SocketInv /\ UNCHANGED vars => SocketInv'
<1> SUFFICES ASSUME SocketInv, UNCHANGED vars PROVE SocketInv'
  OBVIOUS
<1>1. UNCHANGED <<sock, client, stats, toWriteBuffer, toReadBuffer, writerVars, readerVars,
                  phase, masterOrderSocket, timeUp, exit, runs, replies, faults>>
  BY DEF vars, clientVars, mainVars, envVars
<1>2. ThreadsInv
  BY DEF SocketInv
<1>3. OwnerInv'
  BY <1>2, NextOwner DEF ThreadsInv
<1>4. KernelInv' /\ WriterInv' /\ ReaderInv'
  BY <1>1, <1>2, WriterAlone, ReaderAlone
<1>5. MainTypes' /\ OnlyOutsideCauses'
  BY <1>1 DEF SocketInv, MainTypes, OnlyOutsideCauses
<1> QED
  BY <1>3, <1>4, <1>5 DEF SocketInv, ThreadsInv

\* The socket invariant is inductive.
LEMMA NextSocket == SocketInv /\ [Next]_vars => SocketInv'
<1> SUFFICES ASSUME SocketInv, Next PROVE SocketInv'
  BY StutterSocket
<1>1. ThreadsInv /\ MainTypes /\ faults \in 0 .. MaxFaults
  BY DEF SocketInv, MainTypes
<1>2. CASE UNCHANGED vars
  BY <1>2, StutterSocket
<1>3. CASE ~ (UNCHANGED vars)
  <2>1. OwnerInv'
    BY <1>1, NextOwner DEF ThreadsInv
  <2>2. /\ KernelInv' /\ WriterInv' /\ ReaderInv'
        /\ ExitsWell \/ exit' = exit
    BY <1>1, <1>3, MainThreads, WriterThreads, ReaderThreads, EnvironmentThreads
    DEF Next, Terminated
  <2>3. MainTypes'
    BY <1>1, NextMainTypes
  <2>4. OnlyOutsideCauses'
    BY <1>3, <2>2, ExitedStays DEF OnlyOutsideCauses, ExitsWell
  <2> QED
    BY <2>1, <2>2, <2>3, <2>4 DEF SocketInv, ThreadsInv
<1> QED
  BY <1>2, <1>3

-----------------------------------------------------------------------------
(***************************************************************************)
(* The theorems.                                                           *)
(***************************************************************************)
\* Every reachable state satisfies the invariant of the sockets and threads.
THEOREM SocketInvariance == Spec => []SocketInv
  BY InitSocket, NextSocket, PTL DEF Spec

\* All variables have their types, for every number of clients and length of
\* the answers; in particular no answer is read past its end.
THEOREM TypesCorrect == Spec => []TypeOK
<1>1. SocketInv => TypeOK
  <2> SUFFICES ASSUME SocketInv PROVE TypeOK
    OBVIOUS
  <2>1. /\ sock \in [Fds -> Sockets] /\ client \in [Clients -> ClientRecords]
        /\ masterOrderSocket \in Fds \cup {-1}
        /\ phase \in {"order", "run", "report", "clean"}
    BY DEF SocketInv, ThreadsInv, KernelInv, KernelTypes
  <2>2. WriterTypes /\ ReaderTypes /\ Shape /\ MainTypes
    BY DEF SocketInv, ThreadsInv, WriterInv, ReaderInv, OwnerInv
  <2> QED
    BY <2>1, <2>2 DEF TypeOK, WriterTypes, ReaderTypes, Shape, MainTypes, Places
<1> QED
  BY <1>1, SocketInvariance, PTL

\* Each thread asks select for the descriptors of all the clients it waits for
\* and for no one else's, and never beyond the limit it passes.
THEOREM SelectSetsCorrect == Spec => []SelectSetsFollow
<1>1. SocketInv => SelectSetsFollow
  <2> SUFFICES ASSUME SocketInv, phase = "run"
               PROVE  /\ {client[i].fd : i \in WriterAwaits} \subseteq master_connect_fds
                      /\ master_connect_fds \subseteq {client[i].fd : i \in internalToWrite}
                      /\ \A f \in master_connect_fds : f <= max_connect_socket
                      /\ {client[i].fd : i \in ReaderAwaits} \subseteq master_read_set
                      /\ master_read_set \subseteq {client[i].fd : i \in ReaderAwaits}
                           \cup (IF reader.at = "hand" THEN {reader.fd} ELSE {})
                      /\ \A f \in master_read_set : f <= maxFd
    BY DEF SelectSetsFollow
  <2>1. WriterSet /\ ReaderSet /\ ReaderStates
    BY DEF SocketInv, ThreadsInv, WriterInv, ReaderInv
  <2>2. ReaderAwaits = ToBeRead
    <3>1. ToBeRead \subseteq ReaderAwaits
      BY <2>1 DEF ToBeRead, ReaderAwaits, ReaderStates
    <3>2. ReaderAwaits \subseteq ToBeRead
      BY <2>1 DEF ToBeRead, ReaderAwaits, ReaderStates
    <3> QED
      BY <3>1, <3>2
  <2>3. {client[i].fd : i \in WriterAwaits} \subseteq master_connect_fds
    BY <2>1 DEF WriterAwaits, WriterSet, Awaited
  <2> QED
    BY <2>1, <2>2, <2>3 DEF WriterSet, ReaderSet
<1> QED
  BY <1>1, SocketInvariance, PTL

\* What select has answered about a client is still true, and about its present
\* connection, when the thread's loop gets to the client.
THEOREM AnswersCorrect == Spec => []AnswersStayTrue
<1>1. SocketInv => AnswersStayTrue
  <2> SUFFICES ASSUME SocketInv, phase = "run" PROVE
         /\ \A i \in WriterAwaits : writer.at = "scan" /\ i >= writer.i
               /\ client[i].fd \in master_connect_fds_select => Writable(client[i].fd)
         /\ \A i \in ReaderAwaits : reader.at = "scan" /\ i >= reader.i
               /\ client[i].fd \in readfds => Readable(client[i].fd)
    BY DEF AnswersStayTrue
  <2>1. WriterStates /\ WriterAnswers /\ ReaderAnswers
    BY DEF SocketInv, ThreadsInv, WriterInv, ReaderInv
  <2>2. ASSUME NEW i \in WriterAwaits, writer.at = "scan", i >= writer.i,
               client[i].fd \in master_connect_fds_select
        PROVE  Writable(client[i].fd)
    <3>1. sock[client[i].fd].st # "connecting"
      BY <2>1, <2>2 DEF WriterAnswers, WriterAwaits, Awaited
    <3>2. /\ i \in Clients /\ client[i].state \in {"CONNECT", "WRITING"}
          /\ client[i].state = "WRITING" \/ client[i].connect_in_progress
      BY <2>1, <2>2
      DEF WriterAwaits, WriterStates, SocketInv, ThreadsInv, OwnerInv, Shape, KernelInv,
          KernelTypes, ClientRecords
    <3>3. ClientOK(client[i], sock[client[i].fd])
      BY <3>2 DEF SocketInv, ThreadsInv, KernelInv, ClientsOK
    <3> QED
      BY <3>1, <3>2, <3>3 DEF ClientOK, ConnectOK, WritingOK, Writable
  <2>3. ASSUME NEW i \in ReaderAwaits, reader.at = "scan", i >= reader.i,
               client[i].fd \in readfds
        PROVE  Readable(client[i].fd)
    BY <2>1, <2>3 DEF ReaderAnswers, ReaderAwaits, ToBeRead, ReaderHand
  <2> QED
    BY <2>2, <2>3
<1> QED
  BY <1>1, SocketInvariance, PTL

\* Requests go over a connection established for their client, with nothing
\* left of an earlier answer, and no two clients share a descriptor.
THEOREM OwnConnectionCorrect == Spec => []OwnConnection
<1>1. SocketInv => OwnConnection
  <2> SUFFICES ASSUME SocketInv, NEW i \in Clients
               PROVE  /\ client[i].state # "CONNECT" =>
                           sock[client[i].fd].st \in {"open", "reset"}
                      /\ client[i].state = "WRITING" =>
                           sock[client[i].fd].toSend = 0 /\ sock[client[i].fd].avail = 0
                      /\ \A j \in Clients :
                           client[i].fd = client[j].fd /\ i # j => client[i].fd = -1
    BY DEF OwnConnection
  <2>1. /\ ClientOK(client[i], sock[client[i].fd]) /\ OwnFds
        /\ client[i].state \in {"CONNECT", "WRITING", "READING"}
    BY DEF SocketInv, ThreadsInv, KernelInv, ClientsOK, KernelTypes, ClientRecords
  <2> QED
    BY <2>1 DEF ClientOK, WritingOK, ReadingOK, OwnFds
<1> QED
  BY <1>1, SocketInvariance, PTL

\* Every open socket is a client's or the master's, and after a run none is
\* left.
THEOREM NoLeakCorrect == Spec => []NoLeak
<1>1. SocketInv => NoLeak
  BY DEF SocketInv, ThreadsInv, KernelInv
<1> QED
  BY <1>1, SocketInvariance, PTL

\* The process exits only because of the network, the server or the master, or
\* because the clients need more descriptors than a select set has room for:
\* with a descriptor for the master and one for each client, socket never
\* fails; no queue is full; select never sees a closed descriptor; and no
\* connect is looked at on one.
THEOREM OnlyOutsideCausesCorrect == Spec => []OnlyOutsideCauses
<1>1. SocketInv => OnlyOutsideCauses
  BY DEF SocketInv
<1> QED
  BY <1>1, SocketInvariance, PTL

-----------------------------------------------------------------------------
(***************************************************************************)
(* Select sets have room for every descriptor that is put into them.       *)
(***************************************************************************)
\* The clients' descriptors have room in a select set, on every way they take
\* through the two threads.
RangeInv == (\A i \in Clients : client[i].fd < FdSetSize) /\ SetsInRange

\* A client has the descriptor it had, none, or one that fits.
FdKept(j) == client'[j].fd \in {client[j].fd, -1} \/ client'[j].fd < FdSetSize

\* A descriptor in a select set was there before, or is a client's.
SetsKept ==
  \A f \in (master_connect_fds \cup master_read_set)' :
    \/ f \in master_connect_fds \cup master_read_set
    \/ \E j \in Clients : f \in {client[j].fd, client'[j].fd}

\* Nothing that matters here changes.
RangeSame == UNCHANGED <<client, master_connect_fds, master_read_set>>

LEMMA RangeUnchanged == RangeSame => (\A j \in Clients : FdKept(j)) /\ SetsKept
  BY DEF RangeSame, FdKept, SetsKept

\* A client's new record keeps the descriptor, drops it, or has one that fits.
LEMMA OneFdKept ==
  ASSUME client \in [Clients -> ClientRecords], NEW i \in Clients, NEW c,
         client' = [client EXCEPT ![i] = c],
         c.fd \in {client[i].fd, -1} \/ c.fd < FdSetSize
  PROVE  \A j \in Clients : FdKept(j)
<1>1. ASSUME NEW j \in Clients PROVE client'[j] = IF j = i THEN c ELSE client[j]
  OBVIOUS
<1> QED
  BY <1>1 DEF FdKept

\* change_state keeps the descriptor or forgets it.
LEMMA ChangedFd ==
  ASSUME NEW c, c \in ClientRecords \/ c \in ServedRecords,
         NEW s \in {"CONNECT", "WRITING", "READING"}
  PROVE  ChangeState(c, s).fd \in {c.fd, -1}
  BY DEF ChangeState, ClientRecords, ServedRecords

\* The steps of the writing thread.
LEMMA WriterRange ==
  ASSUME ThreadsInv, WriterStep
  PROVE  (\A j \in Clients : FdKept(j)) /\ SetsKept
<1>1. client \in [Clients -> ClientRecords]
  BY DEF ThreadsInv, KernelInv, KernelTypes
<1>2. CASE WriterTakes
  <2>1. Head(toWriteBuffer) \in Clients
    BY <1>2 DEF WriterTakes, ThreadsInv, OwnerInv, Shape
  <2> QED
    BY <1>2, <2>1 DEF WriterTakes, AddToWriteSet, clientVars, readerVars, FdKept, SetsKept
<1>3. CASE WriterFilled \/ WriterSelects \/ WriterHands \/ WriterLoops
  BY <1>3, RangeUnchanged
  DEF WriterFilled, WriterSelects, WriterHands, WriterLoops, clientVars, readerVars, RangeSame
<1>4. ASSUME NEW i \in Clients,
             WriterWaits(i) \/ SendRequestError(i) \/ SendRequestShort(i)
               \/ InitializeConnectFails(i)
      PROVE  RangeSame
  BY <1>4
  DEF WriterWaits, SendRequestError, SendRequestShort, InitializeConnectFails, clientVars,
      writerVars, readerVars, RangeSame
<1>5. ASSUME NEW i \in Clients, SendRequest(i)
      PROVE  (\A j \in Clients : FdKept(j)) /\ SetsKept
  <2>1. client' = [client EXCEPT ![i] = ChangeState(client[i], "READING")]
    BY <1>1, <1>5 DEF SendRequest
  <2>2. client[i] \in ClientRecords /\ "READING" \in {"CONNECT", "WRITING", "READING"}
    BY <1>1
  <2>3. ChangeState(client[i], "READING").fd \in {client[i].fd, -1}
    BY <2>2, ChangedFd
  <2>4. SetsKept
    BY <1>5 DEF SendRequest, RemoveFromWriteSet, readerVars, SetsKept
  <2> QED
    BY <1>1, <2>1, <2>3, <2>4, OneFdKept
<1>6. ASSUME NEW i \in Clients, FinalizeConnect(i)
      PROVE  (\A j \in Clients : FdKept(j)) /\ SetsKept
  <2> DEFINE c == [client[i] EXCEPT !.connect_in_progress = FALSE]
  <2>1. client[i] \in ClientRecords /\ "WRITING" \in {"CONNECT", "WRITING", "READING"}
    BY <1>1
  <2>2. c \in ClientRecords /\ c.fd = client[i].fd
    BY <2>1 DEF ClientRecords
  <2>3. \/ client' = [client EXCEPT ![i] = ChangeState(c, "WRITING")]
        \/ client' = [client EXCEPT ![i] = c]
        \/ client' = client
    BY <1>6 DEF FinalizeConnect, clientVars
  <2> HIDE DEF c
  <2>4. ChangeState(c, "WRITING").fd \in {client[i].fd, -1}
    BY <2>1, <2>2, ChangedFd
  <2>5. \A j \in Clients : FdKept(j)
    <3>1. CASE client' = client
      BY <3>1 DEF FdKept
    <3> QED
      BY <1>1, <2>2, <2>3, <2>4, <3>1, OneFdKept
  <2>6. SetsKept
    BY <1>6 DEF FinalizeConnect, readerVars, SetsKept
  <2> QED
    BY <2>5, <2>6
<1>7. ASSUME NEW i \in Clients, InitializeConnect(i) \/ InitializeConnectLater(i)
      PROVE  (\A j \in Clients : FdKept(j)) /\ SetsKept
  <2> DEFINE f == ConnectFd(i)
             c == [client[i] EXCEPT !.fd = f]
             d == [client[i] EXCEPT !.fd = f, !.connect_in_progress = TRUE]
  <2>1. client[i].fd = f \/ f < FdSetSize
    BY <1>7 DEF InitializeConnect, InitializeConnectLater, HasFd, ConnectFd
  <2>2. client' = [client EXCEPT ![i] = c] \/ client' = [client EXCEPT ![i] = d]
    BY <1>1, <1>7 DEF InitializeConnect, InitializeConnectLater
  <2>3. c.fd = f /\ d.fd = f
    BY <1>1 DEF ClientRecords
  <2>4. client'[i].fd = f
    BY <1>1, <2>2, <2>3
  <2>5. master_read_set' = master_read_set
        /\ master_connect_fds' \in {master_connect_fds, master_connect_fds \cup {f}}
    BY <1>7 DEF InitializeConnect, InitializeConnectLater, AddToWriteSet, readerVars
  <2> HIDE DEF f, c, d
  <2>6. SetsKept
    BY <2>4, <2>5 DEF SetsKept
  <2>7. \A j \in Clients : FdKept(j)
    BY <1>1, <2>1, <2>2, <2>3, OneFdKept
  <2> QED
    BY <2>6, <2>7
<1> QED
  BY <1>2, <1>3, <1>4, <1>5, <1>6, <1>7, RangeUnchanged DEF WriterStep

\* A read changes one client's record, which keeps its descriptor or drops it.
LEMMA ReadRange ==
  ASSUME ThreadsInv, NEW i \in Clients, NEW c, NEW s, ReadResult(i, c, s)
  PROVE  \A j \in Clients : FdKept(j)
<1>1. client \in [Clients -> ClientRecords] /\ client[i] \in ClientRecords
  BY DEF ThreadsInv, KernelInv, KernelTypes
<1>2. client' = [client EXCEPT ![i] = c]
  BY DEF ReadResult
<1>3. /\ Answered(client[i]) \in ServedRecords /\ Failed(client[i]) \in ServedRecords
      /\ Answered(client[i]).fd = client[i].fd /\ Failed(client[i]).fd = client[i].fd
  BY <1>1, ServedTypes DEF Answered, Failed, ClientRecords
<1>4. c.fd \in {client[i].fd, -1}
  <2>1. CASE ReadsOn(i, c, s)
    BY <1>1, <2>1 DEF ReadsOn, ClientRecords
  <2>2. CASE AnswerInConnection(i, c, s)
    BY <1>3, <2>2, ChangedFd DEF AnswerInConnection
  <2>3. CASE LastAnswer(i, c, s)
    BY <1>3, <2>3, ChangedFd DEF LastAnswer
  <2>4. CASE ConnectionFails(i, c, s)
    BY <1>3, <2>4, ChangedFd DEF ConnectionFails
  <2> QED
    BY <2>1, <2>2, <2>3, <2>4 DEF ReadResult
<1> QED
  BY <1>1, <1>2, <1>4, OneFdKept

\* The steps of the reading thread.
LEMMA ReaderRange ==
  ASSUME ThreadsInv, ReaderStep
  PROVE  (\A j \in Clients : FdKept(j)) /\ SetsKept
<1>1. CASE ReaderTakes
  <2>1. Head(toReadBuffer) \in Clients
    BY <1>1 DEF ReaderTakes, ThreadsInv, OwnerInv, Shape
  <2> QED
    BY <1>1, <2>1 DEF ReaderTakes, clientVars, writerVars, FdKept, SetsKept
<1>2. CASE ReaderHands
  BY <1>2 DEF ReaderHands, ReadSetWithout, clientVars, writerVars, FdKept, SetsKept
<1>3. ASSUME ReaderFilled \/ ReaderSelects \/ ReaderLoops \/ \E i \in Clients : ReaderWaits(i)
      PROVE  RangeSame
  BY <1>3
  DEF ReaderFilled, ReaderSelects, ReaderLoops, ReaderWaits, clientVars, writerVars, RangeSame
<1>4. ASSUME NEW i \in Clients,
             \/ ReadNothing(i)
             \/ \E n \in 1 .. AnswerLen : ReadHeaders(i, n) \/ ReadContent(i, n)
      PROVE  (\A j \in Clients : FdKept(j)) /\ SetsKept
  <2>1. UnchangedByRead /\ ReaderAt(i)
    BY <1>4 DEF ReadNothing, ReadHeaders, ReadContent
  <2>2. SetsKept
    BY <2>1 DEF UnchangedByRead, writerVars, SetsKept
  <2>3. client' = client \/ \E c, s : ReadResult(i, c, s)
    <3>1. CASE ReadNothing(i)
      <4>1. client' = client \/ TreatError(i)
        BY <3>1 DEF ReadNothing, clientVars
      <4>2. client[i] \in ClientRecords
        BY DEF ThreadsInv, KernelInv, KernelTypes
      <4> QED
        BY <4>1, <4>2, TreatErrorResult
    <3> QED
      BY <1>4, <3>1, ReadHeadersResult, ReadContentResult
  <2>4. \A j \in Clients : FdKept(j)
    <3>1. CASE client' = client
      BY <3>1 DEF FdKept
    <3> QED
      BY <2>3, <3>1, ReadRange
  <2> QED
    BY <2>2, <2>4
<1> QED
  BY <1>1, <1>2, <1>3, <1>4, RangeUnchanged DEF ReaderStep

\* The steps of main: new clients have no descriptor, and the sets are empty.
LEMMA MainRange ==
  ASSUME Main
  PROVE  (\A j \in Clients : FdKept(j)) /\ SetsKept
<1>1. CASE TakeOrder \/ Clean
  <2>1. \A j \in Clients : client'[j].fd = -1
    BY <1>1 DEF TakeOrder, Clean, ResetStats, NewClient
  <2>2. SetsKept
    BY <1>1
    DEF TakeOrder, Clean, ZeroedWriteSet, writerVars, readerVars, SetsKept
  <2> QED
    BY <2>1, <2>2 DEF FdKept
<1>2. CASE OrderFails \/ ComputeStats \/ Report \/ ReportFails
  BY <1>2, RangeUnchanged
  DEF OrderFails, ComputeStats, Report, ReportFails, clientVars, writerVars, readerVars,
      RangeSame
<1> QED
  BY <1>1, <1>2 DEF Main

LEMMA NextRange == SocketInv /\ RangeInv /\ [Next]_vars => RangeInv'
<1> SUFFICES ASSUME SocketInv, RangeInv, [Next]_vars PROVE RangeInv'
  OBVIOUS
<1>1. ThreadsInv
  BY DEF SocketInv
<1>2. (\A j \in Clients : FdKept(j)) /\ SetsKept
  <2>1. CASE Environment \/ Terminated \/ UNCHANGED vars
    <3>1. CASE Environment
      BY <3>1, RangeUnchanged
      DEF Environment, Timeout, Accept, ConnectError, Answer, AnswerBad, ServerCloses,
          ServerResets, UnchangedByServer, clientVars, writerVars, readerVars, RangeSame
    <3>2. CASE Terminated \/ UNCHANGED vars
      BY <3>2, RangeUnchanged
      DEF Terminated, vars, clientVars, writerVars, readerVars, RangeSame
    <3> QED
      BY <2>1, <3>1, <3>2
  <2> QED
    BY <1>1, <2>1, MainRange, WriterRange, ReaderRange DEF Next
<1>3. -1 < FdSetSize
  BY InjectorAssumption
<1>4. \A j \in Clients : client'[j].fd < FdSetSize
  BY <1>2, <1>3 DEF RangeInv, FdKept
<1>5. SetsInRange'
  BY <1>2, <1>4 DEF RangeInv, SetsInRange, SetsKept
<1> QED
  BY <1>4, <1>5 DEF RangeInv

\* No descriptor is put into a select set that has no room for it: the one
\* assertion at its creation covers every later FD_SET of it by either thread.
THEOREM SetsInRangeCorrect == Spec => []SetsInRange
<1>1. Init => RangeInv
  BY InjectorAssumption DEF Init, NewClient, RangeInv, SetsInRange
<1>2. RangeInv => SetsInRange
  BY DEF RangeInv
<1>3. Spec => []RangeInv
  BY <1>1, NextRange, SocketInvariance, PTL DEF Spec
<1> QED
  BY <1>2, <1>3, PTL
=============================================================================
