------------------------ MODULE InjectorAccountProofs ------------------------
(***************************************************************************)
(* Proofs about the counters of the injector (Injector.tla): what a run    *)
(* has sent is answered, failed or still awaited, the report counts every  *)
(* answer once, and the two threads together implement the closed loop of  *)
(* LoadSession.tla.                                                        *)
(*                                                                         *)
(* Both follow from what a step does to the states of the clients and to   *)
(* the counters, which StepKinds lists; InjectorSocketProofs gives the     *)
(* invariant that this rests on, SumTheorems the sums.                     *)
(***************************************************************************)
EXTENDS InjectorSocketProofs

-----------------------------------------------------------------------------
(***************************************************************************)
(* What a step does to the counters.                                       *)
(***************************************************************************)

\* Nothing happens to the counters of client j.
SameNumbers(j) ==
  /\ client'[j].state = client[j].state
  /\ client'[j].nbRequestsOnIteration = client[j].nbRequestsOnIteration
  /\ client'[j].errors = client[j].errors
  /\ client'[j].total_resp_recv = client[j].total_resp_recv

\* Client i goes from one state to another, with n, e and r in its counters.
Turns(i, from, to, n, e, r) ==
  /\ client[i].state = from /\ client'[i].state = to
  /\ client'[i].nbRequestsOnIteration = n
  /\ client'[i].errors = e
  /\ client'[i].total_resp_recv = r
  /\ \A j \in Clients \ {i} : SameNumbers(j)

\* finalize_connect_client_to_server has found the connection established.
Opens(i) ==
  /\ Turns(i, "CONNECT", "WRITING", 0, client[i].errors, client[i].total_resp_recv)
  /\ stats' = [stats EXCEPT !.nb_CT = @ + 1]

\* send_request has written the request.
Sends(i) ==
  /\ Turns(i, "WRITING", "READING", client[i].nbRequestsOnIteration, client[i].errors,
           client[i].total_resp_recv)
  /\ stats' = [stats EXCEPT !.file_nb_req = @ + 1]

\* read_complete, and the connection is kept.
Answers(i) ==
  /\ client[i].nbRequestsOnIteration + 1 < MsgPerConn
  /\ Turns(i, "READING", "WRITING", client[i].nbRequestsOnIteration + 1,
           client[i].errors, client[i].total_resp_recv + 1)
  /\ stats' = [stats EXCEPT !.nb_RT = @ + 1]

\* read_complete, and the connection has carried all its requests.
AnswersLast(i) ==
  /\ client[i].nbRequestsOnIteration + 1 = MsgPerConn
  /\ Turns(i, "READING", "CONNECT", 0, client[i].errors, client[i].total_resp_recv + 1)
  /\ stats' = [stats EXCEPT !.nb_RT = @ + 1, !.nb_CRT = @ + MsgPerConn]

\* treat_error.
Fails(i) ==
  /\ Turns(i, "READING", "CONNECT", 0, client[i].errors + 1, client[i].total_resp_recv)
  /\ stats' = [stats EXCEPT !.nb_CRT = @ + client[i].nbRequestsOnIteration]

OneStep(i) == Opens(i) \/ Sends(i) \/ Answers(i) \/ AnswersLast(i) \/ Fails(i)

\* No counter changes, and the phase at most from "report" to "clean".
NoCount ==
  /\ \A j \in Clients : SameNumbers(j)
  /\ stats' = stats
  /\ phase' = phase \/ (phase = "report" /\ phase' = "clean")

\* A step that leaves the records alone, or one whose connect is not over.
LEMMA NothingNew ==
  ASSUME client \in [Clients -> ClientRecords],
         \/ client' = client
         \/ \E i \in Clients : \E f, b :
              client' = [client EXCEPT ![i].fd = f, ![i].connect_in_progress = b]
  PROVE  \A j \in Clients : SameNumbers(j)
<1>1. CASE client' = client
  BY <1>1 DEF SameNumbers
<1>2. ASSUME NEW i \in Clients, NEW f, NEW b,
             client' = [client EXCEPT ![i].fd = f, ![i].connect_in_progress = b]
      PROVE  \A j \in Clients : SameNumbers(j)
  <2>1. client[i] \in ClientRecords
    OBVIOUS
  <2>2. client' = [client EXCEPT ![i] = [client[i] EXCEPT !.fd = f, !.connect_in_progress = b]]
    BY <1>2
  <2>3. /\ client'[i] = [client[i] EXCEPT !.fd = f, !.connect_in_progress = b]
        /\ \A j \in Clients \ {i} : client'[j] = client[j]
    BY <2>2
  <2>4. SameNumbers(i)
    BY <2>1, <2>3 DEF SameNumbers, ClientRecords
  <2>5. \A j \in Clients \ {i} : SameNumbers(j)
    BY <2>3 DEF SameNumbers
  <2> QED
    BY <2>4, <2>5
<1> QED
  BY <1>1, <1>2

\* The writing thread.
LEMMA WriterKinds ==
  ASSUME ThreadsInv, WriterStep
  PROVE  NoCount \/ (phase = "run" /\ phase' = "run" /\ \E i \in Clients : OneStep(i))
<1>1. client \in [Clients -> ClientRecords] /\ phase' = phase
  <2>1. phase' = phase
    BY DEF WriterStep, WriterTakes, WriterFilled, WriterSelects, WriterHands, WriterLoops,
           WriterWaits, SendRequest, SendRequestError, SendRequestShort, FinalizeConnect,
           InitializeConnect, InitializeConnectLater, InitializeConnectFails, mainVars
  <2> QED
    BY <2>1 DEF ThreadsInv, KernelInv, KernelTypes
<1>2. ASSUME UNCHANGED clientVars PROVE NoCount
  BY <1>1, <1>2, NothingNew DEF clientVars, NoCount
<1>3. ASSUME WriterTakes \/ WriterFilled \/ WriterSelects \/ WriterHands \/ WriterLoops
      PROVE  NoCount
  BY <1>2, <1>3
  DEF WriterTakes, WriterFilled, WriterSelects, WriterHands, WriterLoops, clientVars
<1>4. ASSUME NEW i \in Clients,
             \/ WriterWaits(i) \/ SendRequestError(i) \/ SendRequestShort(i)
             \/ InitializeConnectFails(i)
      PROVE  NoCount
  BY <1>2, <1>4
  DEF WriterWaits, SendRequestError, SendRequestShort, InitializeConnectFails, clientVars
<1>5. ASSUME NEW i \in Clients, InitializeConnect(i) PROVE NoCount
  <2>1. /\ client' = [client EXCEPT ![i].fd = ConnectFd(i), ![i].connect_in_progress = TRUE]
        /\ stats' = stats
    BY <1>5 DEF InitializeConnect
  <2> QED
    BY <1>1, <2>1, NothingNew DEF NoCount
<1>6. ASSUME NEW i \in Clients, InitializeConnectLater(i) PROVE NoCount
  <2>1. client' = [client EXCEPT ![i].fd = ConnectFd(i)] /\ stats' = stats
    BY <1>6 DEF InitializeConnectLater
  <2>2. \A j \in Clients : SameNumbers(j)
    BY <1>1, <2>1 DEF SameNumbers, ClientRecords
  <2> QED
    BY <1>1, <2>1, <2>2 DEF NoCount
<1>7. ASSUME NEW i \in Clients, SendRequest(i) PROVE phase = "run" /\ Sends(i)
  <2>1. /\ client[i].state = "WRITING"
        /\ client' = [client EXCEPT ![i] = ChangeState(client[i], "READING")]
        /\ stats' = [stats EXCEPT !.file_nb_req = @ + 1]
        /\ WriterAt(i)
    BY <1>7 DEF SendRequest
  <2>2. client[i] \in ClientRecords /\ phase = "run"
    BY <2>1, WriterLooksAt
  <2>3. ChangeState(client[i], "READING") = [client[i] EXCEPT !.state = "READING"]
    BY DEF ChangeState
  <2>4. \A j \in Clients \ {i} : SameNumbers(j)
    BY <1>1, <2>1 DEF SameNumbers
  <2>5. client'[i] = [client[i] EXCEPT !.state = "READING"]
    BY <1>1, <2>1, <2>3
  <2> QED
    BY <2>1, <2>2, <2>4, <2>5 DEF Sends, Turns, ClientRecords
<1>8. ASSUME NEW i \in Clients, FinalizeConnect(i)
      PROVE  NoCount \/ (phase = "run" /\ Opens(i))
  <2> DEFINE b == [client[i] EXCEPT !.connect_in_progress = FALSE]
  <2>1. /\ client[i].state = "CONNECT" /\ WriterAt(i)
        /\ \/ /\ client' = [client EXCEPT ![i] = ChangeState(b, "WRITING")]
              /\ stats' = [stats EXCEPT !.nb_CT = @ + 1]
           \/ client' = [client EXCEPT ![i] = b] /\ stats' = stats
           \/ UNCHANGED clientVars
    BY <1>8 DEF FinalizeConnect
  <2>2. /\ client[i] \in ClientRecords /\ phase = "run"
        /\ client[i].nbRequestsOnIteration = 0
    BY <2>1, WriterLooksAt DEF ClientOK, ConnectOK
  <2>3. CASE /\ client' = [client EXCEPT ![i] = ChangeState(b, "WRITING")]
             /\ stats' = [stats EXCEPT !.nb_CT = @ + 1]
    <3>1. /\ ChangeState(b, "WRITING").state = "WRITING"
          /\ ChangeState(b, "WRITING").nbRequestsOnIteration = 0
          /\ ChangeState(b, "WRITING").errors = client[i].errors
          /\ ChangeState(b, "WRITING").total_resp_recv = client[i].total_resp_recv
      BY <2>2 DEF ChangeState, ClientRecords
    <3>2. client'[i] = ChangeState(b, "WRITING")
      BY <1>1, <2>3
    <3>3. \A j \in Clients \ {i} : SameNumbers(j)
      BY <1>1, <2>3 DEF SameNumbers
    <3> QED
      BY <2>1, <2>2, <2>3, <3>1, <3>2, <3>3 DEF Opens, Turns
  <2>4. CASE client' = [client EXCEPT ![i] = b] /\ stats' = stats
    <3>1. \A j \in Clients : SameNumbers(j)
      BY <1>1, <2>2, <2>4 DEF SameNumbers, ClientRecords
    <3> QED
      BY <1>1, <2>4, <3>1 DEF NoCount
  <2> QED
    BY <1>2, <2>1, <2>3, <2>4
<1> QED
  BY <1>1, <1>3, <1>4, <1>5, <1>6, <1>7, <1>8 DEF WriterStep, OneStep

\* The reading thread.
LEMMA ReaderKinds ==
  ASSUME ThreadsInv, ReaderStep
  PROVE  NoCount \/ (phase = "run" /\ phase' = "run" /\ \E i \in Clients : OneStep(i))
<1>1. client \in [Clients -> ClientRecords] /\ phase' = phase
  <2>1. phase' = phase
    <3>1. ReaderTakes \/ ReaderFilled \/ ReaderSelects \/ ReaderHands \/ ReaderLoops
            => phase' = phase
      BY DEF ReaderTakes, ReaderFilled, ReaderSelects, ReaderHands, ReaderLoops, mainVars
    <3>2. \A i \in Clients : ReaderWaits(i) \/ ReadNothing(i) => phase' = phase
      BY DEF ReaderWaits, ReadNothing, UnchangedByRead, mainVars
    <3>3. \A i \in Clients, n \in 1 .. AnswerLen :
            ReadHeaders(i, n) \/ ReadContent(i, n) => phase' = phase
      BY DEF ReadHeaders, ReadContent, UnchangedByRead
    <3> QED
      BY <3>1, <3>2, <3>3 DEF ReaderStep
  <2> QED
    BY <2>1 DEF ThreadsInv, KernelInv, KernelTypes
<1>2. ASSUME UNCHANGED clientVars PROVE NoCount
  BY <1>1, <1>2, NothingNew DEF clientVars, NoCount
<1>3. ASSUME NEW i \in Clients, ReaderAt(i), NEW c, NEW s, ReadResult(i, c, s)
      PROVE  phase = "run" /\ (NoCount \/ OneStep(i))
  <2>1. /\ client[i] \in ClientRecords /\ client[i].state = "READING" /\ phase = "run"
        /\ client' = [client EXCEPT ![i] = c]
    BY <1>3, ReaderLooksAt DEF ReadResult
  <2>2. client'[i] = c /\ \A j \in Clients \ {i} : client'[j] = client[j]
    BY <1>1, <2>1
  <2>3. \A j \in Clients \ {i} : SameNumbers(j)
    BY <2>2 DEF SameNumbers
  <2>4. CASE ReadsOn(i, c, s)
    <3>1. SameNumbers(i)
      <4>1. c = [client[i] EXCEPT !.bytes_read = c.bytes_read,
                                  !.header_length = c.header_length]
        BY <2>4 DEF ReadsOn
      <4>2. /\ c.state = client[i].state /\ c.errors = client[i].errors
            /\ c.nbRequestsOnIteration = client[i].nbRequestsOnIteration
            /\ c.total_resp_recv = client[i].total_resp_recv
        BY <2>1, <4>1 DEF ClientRecords
      <4> QED
        BY <2>2, <4>2 DEF SameNumbers
    <3>2. stats' = stats
      BY <2>4 DEF ReadsOn
    <3> QED
      BY <1>1, <2>1, <2>3, <3>1, <3>2 DEF NoCount
  <2>5. CASE AnswerInConnection(i, c, s)
    <3>1. /\ c.state = "WRITING"
          /\ c.nbRequestsOnIteration = client[i].nbRequestsOnIteration + 1
          /\ c.errors = client[i].errors /\ c.total_resp_recv = client[i].total_resp_recv + 1
      BY <2>1, <2>5 DEF AnswerInConnection, ChangeState, Answered, ClientRecords
    <3> QED
      BY <2>1, <2>2, <2>3, <2>5, <3>1 DEF AnswerInConnection, OneStep, Answers, Turns
  <2>6. CASE LastAnswer(i, c, s)
    <3>1. /\ c.state = "CONNECT" /\ c.nbRequestsOnIteration = 0
          /\ c.errors = client[i].errors /\ c.total_resp_recv = client[i].total_resp_recv + 1
      BY <2>1, <2>6 DEF LastAnswer, ChangeState, Answered, ClientRecords
    <3> QED
      BY <2>1, <2>2, <2>3, <2>6, <3>1 DEF LastAnswer, OneStep, AnswersLast, Turns
  <2>7. CASE ConnectionFails(i, c, s)
    <3>1. /\ c.state = "CONNECT" /\ c.nbRequestsOnIteration = 0
          /\ c.errors = client[i].errors + 1 /\ c.total_resp_recv = client[i].total_resp_recv
      BY <2>1, <2>7 DEF ConnectionFails, ChangeState, Failed, ClientRecords
    <3> QED
      BY <2>1, <2>2, <2>3, <2>7, <3>1 DEF ConnectionFails, OneStep, Fails, Turns
  <2> QED
    BY <1>3, <2>4, <2>5, <2>6, <2>7 DEF ReadResult
<1>4. ASSUME ReaderTakes \/ ReaderFilled \/ ReaderSelects \/ ReaderHands \/ ReaderLoops
      PROVE  NoCount
  BY <1>2, <1>4
  DEF ReaderTakes, ReaderFilled, ReaderSelects, ReaderHands, ReaderLoops, clientVars
<1>5. ASSUME NEW i \in Clients, ReaderWaits(i) PROVE NoCount
  BY <1>2, <1>5 DEF ReaderWaits, clientVars
<1>6. ASSUME NEW i \in Clients, ReadNothing(i)
      PROVE  NoCount \/ (ReaderAt(i) /\ \E c, s : ReadResult(i, c, s))
  <2>1. ReaderAt(i) /\ (UNCHANGED clientVars \/ TreatError(i))
    BY <1>6 DEF ReadNothing
  <2> QED
    BY <1>2, <2>1, ReaderLooksAt, TreatErrorResult
<1>7. ASSUME NEW i \in Clients, NEW n \in 1 .. AnswerLen,
             ReadHeaders(i, n) \/ ReadContent(i, n)
      PROVE  ReaderAt(i) /\ \E c, s : ReadResult(i, c, s)
  BY <1>7, ReadHeadersResult, ReadContentResult DEF ReadHeaders, ReadContent
<1> QED
  BY <1>1, <1>3, <1>4, <1>5, <1>6, <1>7 DEF ReaderStep

\* What a step does to the counters.
LEMMA StepKinds ==
  ASSUME ThreadsInv, Next
  PROVE  \/ NoCount
         \/ phase = "run" /\ phase' = "run" /\ \E i \in Clients : OneStep(i)
         \/ TakeOrder \/ ComputeStats \/ Clean
<1>1. client \in [Clients -> ClientRecords]
  BY DEF ThreadsInv, KernelInv, KernelTypes
<1>2. ASSUME UNCHANGED <<client, stats>>, phase' = phase \/ (phase = "report" /\ phase' = "clean")
      PROVE  NoCount
  BY <1>1, <1>2, NothingNew DEF NoCount
<1>3. CASE Main
  <2>1. ASSUME OrderFails \/ Report \/ ReportFails PROVE NoCount
    BY <1>2, <2>1 DEF OrderFails, Report, ReportFails, clientVars
  <2> QED
    BY <1>3, <2>1 DEF Main
<1>4. CASE Environment
  BY <1>2, <1>4
  DEF Environment, Timeout, Accept, AnswerBad, ServerCloses, ServerResets, ConnectError,
      Answer, UnchangedByServer, clientVars, mainVars
<1>5. CASE Terminated
  BY <1>2, <1>5 DEF Terminated, vars, clientVars, mainVars
<1> QED
  BY <1>3, <1>4, <1>5, WriterKinds, ReaderKinds DEF Next

-----------------------------------------------------------------------------
(***************************************************************************)
(* Accounting: the invariant                                               *)
(***************************************************************************)
Waiting == {i \in Clients : client[i].state = "READING"}
Connected == {i \in Clients : client[i].state # "CONNECT"}

\* The counters of a run.  nb_CRT has the answers on the connections that are
\* closed, at most MsgPerConn over each, and a connection was opened for each
\* client that has one.
RunCounts ==
  /\ stats.file_nb_req = stats.nb_RT + Total("errors") + Cardinality(Waiting)
  /\ stats.nb_RT = stats.nb_CRT + Total("nbRequestsOnIteration")
  /\ stats.nb_CRT + MsgPerConn * Cardinality(Connected) <= stats.nb_CT * MsgPerConn
  /\ stats.nb_RT = Total("total_resp_recv")
  /\ stats.global_total_resp_recv = 0

ReportCounts ==
  /\ stats.global_total_resp_recv = stats.nb_RT
  /\ stats.nb_CRT = stats.nb_RT
  /\ stats.file_nb_req = stats.nb_RT + stats.global_errors + Cardinality(Waiting)

NoCounts ==
  /\ stats.file_nb_req = 0 /\ stats.nb_RT = 0 /\ stats.nb_CRT = 0 /\ stats.nb_CT = 0
  /\ stats.global_total_resp_recv = 0

CountsInv ==
  /\ phase = "run" => RunCounts
  /\ phase = "report" => ReportCounts
  /\ phase = "order" => NoCounts

-----------------------------------------------------------------------------
(***************************************************************************)
(* Sums and numbers of clients after a step                                *)
(***************************************************************************)

\* Two sets of clients that differ in one.
LEMMA OneMoreOrLess ==
  ASSUME NEW A \in SUBSET Clients, NEW B \in SUBSET Clients, NEW i, A \ {i} = B \ {i}
  PROVE  /\ Cardinality(A) \in Nat /\ Cardinality(B) \in Nat
         /\ i \in A /\ i \in B => Cardinality(B) = Cardinality(A)
         /\ i \notin A /\ i \notin B => Cardinality(B) = Cardinality(A)
         /\ i \in A /\ i \notin B => Cardinality(B) = Cardinality(A) - 1
         /\ i \notin A /\ i \in B => Cardinality(B) = Cardinality(A) + 1
<1>1. IsFiniteSet(A) /\ IsFiniteSet(B)
  BY ClientsFinite, FS_Subset
<1>2. Cardinality(A) \in Nat /\ Cardinality(B) \in Nat
  BY <1>1, FS_CardinalityType
<1>3. /\ Cardinality(A \ {i}) = IF i \in A THEN Cardinality(A) - 1 ELSE Cardinality(A)
      /\ Cardinality(B \ {i}) = IF i \in B THEN Cardinality(B) - 1 ELSE Cardinality(B)
  BY <1>1, FS_RemoveElement
<1> QED
  BY <1>2, <1>3

\* The counters of the clients are numbers.
LEMMA ClientNumbers ==
  ASSUME NEW c \in [Clients -> ClientRecords], NEW j \in Clients
  PROVE  /\ c[j].state \in {"CONNECT", "WRITING", "READING"}
         /\ c[j].nbRequestsOnIteration \in 0 .. MsgPerConn - 1
         /\ \A field \in Counters : c[j][field] \in Nat
<1>1. c[j] \in ClientRecords
  OBVIOUS
<1> QED
  BY <1>1, InjectorAssumption DEF ClientRecords, Counters

\* No counter changes: nor do the sums and the sets.
LEMMA CountsSame ==
  ASSUME \A j \in Clients : SameNumbers(j)
  PROVE  /\ \A field \in Counters : Total(field)' = Total(field)
         /\ Waiting' = Waiting /\ Connected' = Connected
<1>1. ASSUME NEW field \in Counters PROVE Total(field)' = Total(field)
  <2>1. \A j \in Clients : client[j][field] = client'[j][field]
    BY DEF Counters, SameNumbers
  <2> QED
    BY <2>1, ClientsFinite, TotalSame, TotalIsTotalOf
<1> QED
  BY <1>1 DEF Waiting, Connected, SameNumbers

\* The counters of client i change: so do the sums and the sets.
LEMMA CountsChange ==
  ASSUME KernelInv, KernelInv', NEW i \in Clients, NEW from, NEW to, NEW n, NEW e, NEW r,
         Turns(i, from, to, n, e, r)
  PROVE  /\ Total("nbRequestsOnIteration")'
              = Total("nbRequestsOnIteration") - client[i].nbRequestsOnIteration + n
         /\ Total("errors")' = Total("errors") - client[i].errors + e
         /\ Total("total_resp_recv")'
              = Total("total_resp_recv") - client[i].total_resp_recv + r
         /\ Cardinality(Waiting)' = Cardinality(Waiting)
              - (IF from = "READING" THEN 1 ELSE 0) + (IF to = "READING" THEN 1 ELSE 0)
         /\ Cardinality(Connected)' = Cardinality(Connected)
              - (IF from # "CONNECT" THEN 1 ELSE 0) + (IF to # "CONNECT" THEN 1 ELSE 0)
         /\ Cardinality(Waiting) \in Nat /\ Cardinality(Connected) \in Nat
<1>1. ASSUME NEW field \in Counters
      PROVE  Total(field)' = Total(field) - client[i][field] + client'[i][field]
  <2>1. \A j \in Clients : client[j][field] \in Nat /\ client'[j][field] \in Nat
    <3>1. client \in [Clients -> ClientRecords] /\ client' \in [Clients -> ClientRecords]
      BY DEF KernelInv, KernelTypes
    <3> QED
      BY <3>1, ClientNumbers
  <2>2. \A j \in Clients \ {i} : client[j][field] = client'[j][field]
    BY DEF Turns, SameNumbers, Counters
  <2>3. TotalOf(client', field, Clients)
          = TotalOf(client, field, Clients) - client[i][field] + client'[i][field]
    BY <2>1, <2>2, ClientsFinite, TotalChange
  <2> QED
    BY <2>3, TotalIsTotalOf
<1>2. /\ client'[i].nbRequestsOnIteration = n /\ client'[i].errors = e
      /\ client'[i].total_resp_recv = r
      /\ (i \in Waiting <=> from = "READING") /\ (i \in Waiting' <=> to = "READING")
      /\ (i \in Connected <=> from # "CONNECT") /\ (i \in Connected' <=> to # "CONNECT")
      /\ Waiting \ {i} = Waiting' \ {i} /\ Connected \ {i} = Connected' \ {i}
  BY DEF Turns, Waiting, Connected, SameNumbers
<1>3. /\ Cardinality(Waiting) \in Nat /\ Cardinality(Connected) \in Nat
      /\ Cardinality(Waiting') = Cardinality(Waiting)
           - (IF from = "READING" THEN 1 ELSE 0) + (IF to = "READING" THEN 1 ELSE 0)
      /\ Cardinality(Connected') = Cardinality(Connected)
           - (IF from # "CONNECT" THEN 1 ELSE 0) + (IF to # "CONNECT" THEN 1 ELSE 0)
  <2>1. /\ Waiting \in SUBSET Clients /\ Waiting' \in SUBSET Clients
        /\ Connected \in SUBSET Clients /\ Connected' \in SUBSET Clients
    BY DEF Waiting, Connected
  <2>2. /\ Cardinality(Waiting) \in Nat
        /\ Cardinality(Waiting') = Cardinality(Waiting)
             - (IF i \in Waiting THEN 1 ELSE 0) + (IF i \in Waiting' THEN 1 ELSE 0)
    BY <1>2, <2>1, OneMoreOrLess
  <2>3. /\ Cardinality(Connected) \in Nat
        /\ Cardinality(Connected') = Cardinality(Connected)
             - (IF i \in Connected THEN 1 ELSE 0) + (IF i \in Connected' THEN 1 ELSE 0)
    BY <1>2, <2>1, OneMoreOrLess
  <2> QED
    BY <1>2, <2>2, <2>3
<1>4. \A field \in Counters :
         Total(field)' = Total(field) - client[i][field] + client'[i][field]
  BY <1>1
<1> QED
  BY <1>2, <1>3, <1>4 DEF Counters

-----------------------------------------------------------------------------
(***************************************************************************)
(* Accounting: every step keeps the invariant                              *)
(***************************************************************************)

\* The counters of the run are numbers.
LEMMA StatsAreNumbers ==
  ASSUME MainTypes
  PROVE  /\ stats.nb_CT \in Nat /\ stats.nb_RT \in Nat /\ stats.nb_CRT \in Nat
         /\ stats.file_nb_req \in Nat /\ stats.global_total_resp_recv \in Nat
         /\ stats.global_errors \in Nat
         /\ stats \in [{"nb_CT", "nb_RT", "nb_CRT", "file_nb_req",
                        "global_total_resp_recv", "global_errors"} -> Nat]
BY StatsTypes DEF MainTypes

\* A client takes one more step of its session.
LEMMA OneStepCounts ==
  ASSUME KernelInv, KernelInv', MainTypes, RunCounts, NEW i \in Clients, OneStep(i)
  PROVE  RunCounts'
<1> DEFINE M == MsgPerConn
           k == Cardinality(Connected)
           w == Cardinality(Waiting)
           E == Total("errors")
           S == Total("nbRequestsOnIteration")
           R == Total("total_resp_recv")
           n == client[i].nbRequestsOnIteration
           ct == stats.nb_CT
           rt == stats.nb_RT
           crt == stats.nb_CRT
           req == stats.file_nb_req
<1>1. /\ M \in Nat \ {0} /\ n \in 0 .. M - 1
      /\ client[i].errors \in Nat /\ client[i].total_resp_recv \in Nat
  BY InjectorAssumption, ClientNumbers DEF KernelInv, KernelTypes, Counters
<1>2. E \in Nat /\ S \in Nat /\ R \in Nat
  BY TotalsAreNumbers DEF Counters
<1>3. /\ ct \in Nat /\ rt \in Nat /\ crt \in Nat /\ req \in Nat
      /\ stats \in [{"nb_CT", "nb_RT", "nb_CRT", "file_nb_req",
                     "global_total_resp_recv", "global_errors"} -> Nat]
  BY StatsAreNumbers
<1>4. /\ req = rt + E + w /\ rt = crt + S /\ crt + M * k <= ct * M /\ rt = R
      /\ stats.global_total_resp_recv = 0
  BY DEF RunCounts
<1>5. w \in Nat /\ k \in Nat
  BY CountsChange DEF OneStep, Opens, Sends, Answers, AnswersLast, Fails
<1>6. /\ M * k \in Nat /\ ct * M \in Nat
      /\ M * (k + 1) = M * k + M /\ M * (k - 1) = M * k - M
      /\ (ct + 1) * M = ct * M + M
  <2> HIDE DEF M, k, ct
  <2> QED
    BY <1>1, <1>3, <1>5
<1>7. CASE Opens(i)
  <2>1. /\ S' = S - n + 0 /\ E' = E /\ R' = R /\ w' = w /\ k' = k + 1
    <3>1. Turns(i, "CONNECT", "WRITING", 0, client[i].errors, client[i].total_resp_recv)
      BY <1>7 DEF Opens
    <3> HIDE DEF k, w, E, S, R, n
    <3> QED
      BY <1>1, <1>2, <1>5, <3>1, CountsChange DEF k, w, E, S, R, n
  <2>2. n = 0
    <3>1. client[i].state = "CONNECT"
      BY <1>7 DEF Opens, Turns
    <3> QED
      BY <3>1 DEF KernelInv, ClientsOK, ClientOK, ConnectOK
  <2>3. /\ ct' = ct + 1 /\ rt' = rt /\ crt' = crt /\ req' = req
        /\ stats'.global_total_resp_recv = 0
    BY <1>3, <1>4, <1>7 DEF Opens
  <2>4. /\ req' = rt' + E' + w' /\ rt' = crt' + S' /\ rt' = R'
    BY <1>2, <1>4, <2>1, <2>2, <2>3
  <2>5. crt' + M * k' <= ct' * M
    <3> HIDE DEF M, k, ct, crt
    <3> QED
      BY <1>1, <1>3, <1>4, <1>5, <1>6, <2>1, <2>3
  <2> QED
    BY <2>3, <2>4, <2>5 DEF RunCounts
<1>8. CASE Sends(i)
  <2>1. /\ S' = S /\ E' = E /\ R' = R /\ w' = w + 1 /\ k' = k
    <3>1. Turns(i, "WRITING", "READING", client[i].nbRequestsOnIteration, client[i].errors,
                client[i].total_resp_recv)
      BY <1>8 DEF Sends
    <3> HIDE DEF k, w, E, S, R
    <3> QED
      BY <1>1, <1>2, <1>5, <3>1, CountsChange DEF k, w, E, S, R
  <2>2. /\ ct' = ct /\ rt' = rt /\ crt' = crt /\ req' = req + 1
        /\ stats'.global_total_resp_recv = 0
    BY <1>3, <1>4, <1>8 DEF Sends
  <2>3. req' = rt' + E' + w'
    <3> HIDE DEF req, rt, E, w
    <3> QED
      BY <1>2, <1>3, <1>4, <1>5, <2>1, <2>2
  <2> QED
    BY <1>4, <2>1, <2>2, <2>3 DEF RunCounts
<1>9. CASE Answers(i)
  <2>1. /\ S' = S + 1 /\ E' = E /\ R' = R + 1 /\ w' = w - 1 /\ k' = k
    <3>1. Turns(i, "READING", "WRITING", client[i].nbRequestsOnIteration + 1,
                client[i].errors, client[i].total_resp_recv + 1)
      BY <1>9 DEF Answers
    <3> HIDE DEF k, w, E, S, R
    <3> QED
      BY <1>1, <1>2, <1>5, <3>1, CountsChange DEF k, w, E, S, R
  <2>2. /\ ct' = ct /\ rt' = rt + 1 /\ crt' = crt /\ req' = req
        /\ stats'.global_total_resp_recv = 0
    BY <1>3, <1>4, <1>9 DEF Answers
  <2>3. /\ req' = rt' + E' + w' /\ rt' = crt' + S' /\ rt' = R'
    <3> HIDE DEF req, rt, crt, E, S, R, w
    <3> QED
      BY <1>2, <1>3, <1>4, <1>5, <2>1, <2>2
  <2> QED
    BY <1>4, <2>1, <2>2, <2>3 DEF RunCounts
<1>10. CASE AnswersLast(i)
  <2>1. /\ S' = S - n + 0 /\ E' = E /\ R' = R + 1 /\ w' = w - 1 /\ k' = k - 1
    <3>1. Turns(i, "READING", "CONNECT", 0, client[i].errors, client[i].total_resp_recv + 1)
      BY <1>10 DEF AnswersLast
    <3> HIDE DEF k, w, E, S, R, n
    <3> QED
      BY <1>1, <1>2, <1>5, <3>1, CountsChange DEF k, w, E, S, R, n
  <2>2. /\ ct' = ct /\ rt' = rt + 1 /\ crt' = crt + M /\ req' = req /\ n + 1 = M
        /\ stats'.global_total_resp_recv = 0
    BY <1>3, <1>4, <1>10 DEF AnswersLast
  <2>3. /\ req' = rt' + E' + w' /\ rt' = crt' + S' /\ rt' = R'
    <3> HIDE DEF req, rt, crt, E, S, R, w, n, M
    <3> QED
      BY <1>1, <1>2, <1>3, <1>4, <1>5, <2>1, <2>2
  <2>4. crt' + M * k' <= ct' * M
    <3> HIDE DEF M, k, ct, crt
    <3> QED
      BY <1>1, <1>3, <1>4, <1>5, <1>6, <2>1, <2>2
  <2> QED
    BY <2>2, <2>3, <2>4 DEF RunCounts
<1>11. CASE Fails(i)
  <2>1. /\ S' = S - n + 0 /\ E' = E + 1 /\ R' = R /\ w' = w - 1 /\ k' = k - 1
    <3>1. Turns(i, "READING", "CONNECT", 0, client[i].errors + 1, client[i].total_resp_recv)
      BY <1>11 DEF Fails
    <3> HIDE DEF k, w, E, S, R, n
    <3> QED
      BY <1>1, <1>2, <1>5, <3>1, CountsChange DEF k, w, E, S, R, n
  <2>2. /\ ct' = ct /\ rt' = rt /\ crt' = crt + n /\ req' = req
        /\ stats'.global_total_resp_recv = 0
    BY <1>3, <1>4, <1>11 DEF Fails
  <2>3. /\ req' = rt' + E' + w' /\ rt' = crt' + S' /\ rt' = R'
    <3> HIDE DEF req, rt, crt, E, S, R, w, n, M
    <3>1. req' = rt' + E' + w'
      BY <1>2, <1>3, <1>4, <1>5, <2>1, <2>2
    <3>2. rt' = crt' + S' /\ rt' = R'
      BY <1>1, <1>2, <1>3, <1>4, <2>1, <2>2
    <3> QED
      BY <3>1, <3>2
  <2>4. crt' + M * k' <= ct' * M
    <3> HIDE DEF M, k, ct, crt, n
    <3> QED
      BY <1>1, <1>3, <1>4, <1>5, <1>6, <2>1, <2>2
  <2> QED
    BY <2>2, <2>3, <2>4 DEF RunCounts
<1> QED
  BY <1>7, <1>8, <1>9, <1>10, <1>11 DEF OneStep

\* The sums and the sets of clients that have done nothing yet.
LEMMA NewClientCounts ==
  ASSUME NEW c, c = [i \in Clients |-> NewClient]
  PROVE  /\ \A field \in Counters : TotalOf(c, field, Clients) = 0
         /\ Cardinality({i \in Clients : c[i].state = "READING"}) = 0
         /\ Cardinality({i \in Clients : c[i].state # "CONNECT"}) = 0
<1>1. ASSUME NEW field \in Counters PROVE TotalOf(c, field, Clients) = 0
  <2>1. \A i \in Clients : c[i][field] = 0
    BY DEF NewClient, Counters
  <2> QED
    BY <2>1, ClientsFinite, TotalZero
<1>2. /\ {i \in Clients : c[i].state = "READING"} = {}
      /\ {i \in Clients : c[i].state # "CONNECT"} = {}
  BY DEF NewClient
<1> QED
  BY <1>1, <1>2, FS_EmptySet

\* Before the first order nothing is counted.
LEMMA InitCounts == Init => CountsInv
  BY DEF Init, NoStats, CountsInv, NoCounts

\* Every step keeps the counts.
LEMMA NextCounts ==
  ASSUME SocketInv, SocketInv', CountsInv, [Next]_vars
  PROVE  CountsInv'
<1>1. /\ KernelInv /\ KernelInv' /\ MainTypes /\ ThreadsInv
  BY DEF SocketInv, ThreadsInv
<1>2. /\ stats.nb_CT \in Nat /\ stats.nb_RT \in Nat /\ stats.nb_CRT \in Nat
      /\ stats.file_nb_req \in Nat /\ stats.global_total_resp_recv \in Nat
      /\ stats \in [{"nb_CT", "nb_RT", "nb_CRT", "file_nb_req",
                     "global_total_resp_recv", "global_errors"} -> Nat]
  BY <1>1, StatsAreNumbers
<1>3. CASE NoCount
  <2>1. /\ Total("errors")' = Total("errors") /\ Waiting' = Waiting
        /\ Total("nbRequestsOnIteration")' = Total("nbRequestsOnIteration")
        /\ Total("total_resp_recv")' = Total("total_resp_recv")
        /\ Connected' = Connected /\ stats' = stats
        /\ phase' = phase \/ phase' = "clean"
    BY <1>3, CountsSame DEF NoCount, Counters
  <2> QED
    BY <2>1 DEF CountsInv, RunCounts, ReportCounts, NoCounts
<1>4. CASE phase = "run" /\ phase' = "run" /\ \E i \in Clients : OneStep(i)
  BY <1>1, <1>4, OneStepCounts DEF CountsInv
<1>5. CASE TakeOrder
  <2>1. /\ phase = "order" /\ phase' = "run" /\ client' = [i \in Clients |-> NewClient]
        /\ stats' = [stats EXCEPT !.nb_CT = 0, !.nb_RT = 0, !.nb_CRT = 0]
    BY <1>5 DEF TakeOrder
  <2>2. /\ stats'.nb_CT = 0 /\ stats'.nb_RT = 0 /\ stats'.nb_CRT = 0
        /\ stats'.file_nb_req = 0 /\ stats'.global_total_resp_recv = 0
    BY <1>2, <2>1 DEF CountsInv, NoCounts
  <2>3. /\ Total("errors")' = 0 /\ Total("nbRequestsOnIteration")' = 0
        /\ Total("total_resp_recv")' = 0
        /\ Cardinality(Waiting)' = 0 /\ Cardinality(Connected)' = 0
    BY <2>1, NewClientCounts, TotalIsTotalOf DEF Counters, Waiting, Connected
  <2>4. MsgPerConn * 0 = 0 /\ 0 * MsgPerConn = 0
    BY InjectorAssumption
  <2>5. RunCounts'
    BY <2>2, <2>3, <2>4 DEF RunCounts
  <2> QED
    BY <2>1, <2>5 DEF CountsInv
<1>6. CASE ComputeStats
  <2>1. /\ phase = "run" /\ phase' = "report" /\ client' = client
        /\ stats' = [stats EXCEPT
              !.global_total_resp_recv = @ + Total("total_resp_recv"),
              !.global_errors = Total("errors"),
              !.nb_CRT = @ + Total("nbRequestsOnIteration")]
    BY <1>6 DEF ComputeStats, Running
  <2>2. RunCounts
    BY <2>1 DEF CountsInv
  <2>3. /\ stats'.global_total_resp_recv = 0 + Total("total_resp_recv")
        /\ stats'.global_errors = Total("errors")
        /\ stats'.nb_CRT = stats.nb_CRT + Total("nbRequestsOnIteration")
        /\ stats'.nb_RT = stats.nb_RT /\ stats'.file_nb_req = stats.file_nb_req
    BY <1>2, <2>1, <2>2 DEF RunCounts
  <2>4. Waiting' = Waiting
    BY <2>1 DEF Waiting
  <2>5. ReportCounts'
    BY <1>2, <2>2, <2>3, <2>4 DEF RunCounts, ReportCounts
  <2> QED
    BY <2>1, <2>5 DEF CountsInv
<1>7. CASE Clean
  BY <1>7 DEF Clean, ResetStats, NoStats, CountsInv, NoCounts
<1>8. CASE UNCHANGED vars
  <2>1. UNCHANGED <<client, stats, phase>>
    BY <1>8 DEF vars, clientVars, mainVars
  <2> QED
    BY <1>1, <1>3, <2>1, NothingNew DEF NoCount, KernelInv, KernelTypes
<1> QED
  BY <1>1, <1>3, <1>4, <1>5, <1>6, <1>7, <1>8, StepKinds

\* The counts hold in every reachable state.
THEOREM CountsInvariance == Spec => []CountsInv
<1>1. SocketInv /\ SocketInv' /\ CountsInv /\ [Next]_vars => CountsInv'
  BY NextCounts
<1> QED
  BY <1>1, InitCounts, SocketInvariance, PTL DEF Spec

\* What a run has sent is answered, failed or still awaited, no connection
\* carries more than MsgPerConn requests, and compute_stats counts every
\* answer once, for every number of clients.
THEOREM AccountingCorrect == Spec => []Accounting
<1>1. SocketInv /\ CountsInv => Accounting
  <2> SUFFICES ASSUME SocketInv, CountsInv PROVE Accounting
    OBVIOUS
  <2>1. KernelInv /\ MainTypes
    BY DEF SocketInv, ThreadsInv
  <2>2. ASSUME phase = "run" PROVE stats.nb_RT <= stats.nb_CT * MsgPerConn
    <3> DEFINE T == Total("nbRequestsOnIteration")
               K == MsgPerConn * Cardinality(Connected)
    <3>1. T <= K
      <4>1. MsgPerConn \in Nat /\ Clients \cap Connected = Connected
        BY InjectorAssumption DEF Connected
      <4>2. \A i \in Clients :
              /\ client[i].nbRequestsOnIteration \in 0 .. MsgPerConn
              /\ i \notin Connected => client[i].nbRequestsOnIteration = 0
        <5> SUFFICES ASSUME NEW i \in Clients
                     PROVE  /\ client[i].nbRequestsOnIteration \in 0 .. MsgPerConn
                            /\ i \notin Connected => client[i].nbRequestsOnIteration = 0
          OBVIOUS
        <5>1. client[i].nbRequestsOnIteration \in 0 .. MsgPerConn - 1
          BY <2>1, ClientNumbers DEF KernelInv, KernelTypes
        <5>2. i \notin Connected => client[i].nbRequestsOnIteration = 0
          BY <2>1 DEF Connected, KernelInv, ClientsOK, ClientOK, ConnectOK
        <5> QED
          BY <5>1, <5>2, InjectorAssumption
      <4>3. \A i \in Clients :
              /\ client[i]["nbRequestsOnIteration"] \in 0 .. MsgPerConn
              /\ i \notin Connected => client[i]["nbRequestsOnIteration"] = 0
        BY <4>2
      <4>4. TotalOf(client, "nbRequestsOnIteration", Clients)
              <= MsgPerConn * Cardinality(Clients \cap Connected)
        BY <4>1, <4>3, ClientsFinite, TotalBound
      <4> QED
        BY <4>1, <4>4, TotalIsTotalOf
    <3>2. /\ T \in Nat /\ stats.nb_CRT \in Nat /\ stats.nb_RT \in Nat
      BY <2>1, TotalsAreNumbers, StatsAreNumbers DEF Counters
    <3>3. K \in Nat /\ stats.nb_CT * MsgPerConn \in Nat
      <4>1. Cardinality(Connected) \in Nat
        BY ClientsFinite, FS_Subset, FS_CardinalityType DEF Connected
      <4>2. stats.nb_CT \in Nat /\ MsgPerConn \in Nat
        BY <2>1, StatsAreNumbers, InjectorAssumption
      <4> QED
        BY <4>1, <4>2
    <3>4. stats.nb_RT = stats.nb_CRT + T /\ stats.nb_CRT + K <= stats.nb_CT * MsgPerConn
      BY <2>2 DEF CountsInv, RunCounts
    <3> DEFINE B == stats.nb_CT * MsgPerConn
    <3> HIDE DEF T, K, B
    <3>5. stats.nb_RT <= B
      BY <3>1, <3>2, <3>3, <3>4 DEF B
    <3> QED
      BY <3>5 DEF B
  <2> QED
    BY <2>2 DEF CountsInv, RunCounts, ReportCounts, Accounting, Waiting
<1> QED
  BY <1>1, SocketInvariance, CountsInvariance, PTL

-----------------------------------------------------------------------------
(***************************************************************************)
(* The injector implements the closed loop.                                *)
(***************************************************************************)

\* The values the refinement mapping gives LoadSession's session and served.
SessionOf(state) == CASE state = "CONNECT" -> "closed"
                      [] state = "WRITING" -> "ready"
                      [] state = "READING" -> "waiting"
session == [i \in Clients |-> SessionOf(client[i].state)]
served == [i \in Clients |-> client[i].nbRequestsOnIteration]

\* Before the first order nobody is connected.
LEMMA InitSession == Init => Session!Init
<1> SUFFICES ASSUME Init PROVE Session!Init
  OBVIOUS
<1>1. client = [i \in Clients |-> NewClient] /\ stats = NoStats
  BY DEF Init
<1>2. Total("errors") = 0
  BY <1>1, NewClientCounts, TotalIsTotalOf DEF Counters
<1> QED
  BY <1>1, <1>2 DEF Session!Init, Session!Clients, Clients, NewClient, NoStats

\* What a step of one client does to the session.
LEMMA SessionTurns ==
  ASSUME NEW i \in Clients, NEW from, NEW to, NEW n, NEW e, NEW r,
         Turns(i, from, to, n, e, r)
  PROVE  /\ session[i] = SessionOf(from)
         /\ session' = [session EXCEPT ![i] = SessionOf(to)]
         /\ served[i] = client[i].nbRequestsOnIteration
         /\ served' = [served EXCEPT ![i] = n]
<1>1. /\ client[i].state = from /\ client'[i].state = to
      /\ client'[i].nbRequestsOnIteration = n
      /\ \A j \in Clients \ {i} :
           /\ client'[j].state = client[j].state
           /\ client'[j].nbRequestsOnIteration = client[j].nbRequestsOnIteration
  BY DEF Turns, SameNumbers
<1>2. /\ session' = [j \in Clients |-> SessionOf(client'[j].state)]
      /\ served' = [j \in Clients |-> client'[j].nbRequestsOnIteration]
  BY DEF session, served
<1> QED
  BY <1>1, <1>2 DEF session, served

\* The three states of a session.
LEMMA SessionStates ==
  /\ SessionOf("CONNECT") = "closed"
  /\ SessionOf("WRITING") = "ready"
  /\ SessionOf("READING") = "waiting"
BY DEF SessionOf

\* A client takes one more step of its session.
LEMMA OneStepSession ==
  ASSUME KernelInv, KernelInv', MainTypes, NEW i \in Clients, OneStep(i)
  PROVE  Session!Next
<1> DEFINE E == Total("errors")
<1>1. /\ client[i].errors \in Nat /\ client[i].nbRequestsOnIteration \in Nat
      /\ E \in Nat /\ i \in Session!Clients
  BY ClientNumbers, TotalsAreNumbers DEF KernelInv, KernelTypes, Counters, Clients,
     Session!Clients
<1>2. /\ stats.nb_RT \in Nat /\ stats.file_nb_req \in Nat
      /\ stats \in [{"nb_CT", "nb_RT", "nb_CRT", "file_nb_req",
                     "global_total_resp_recv", "global_errors"} -> Nat]
  BY StatsAreNumbers
<1>3. CASE Opens(i)
  <2>1. Turns(i, "CONNECT", "WRITING", 0, client[i].errors, client[i].total_resp_recv)
    BY <1>3 DEF Opens
  <2>2. client[i].nbRequestsOnIteration = 0
    BY <2>1 DEF Turns, KernelInv, ClientsOK, ClientOK, ConnectOK
  <2>3. /\ session[i] = "closed" /\ session' = [session EXCEPT ![i] = "ready"]
        /\ served' = served
    <3>1. /\ session[i] = "closed" /\ session' = [session EXCEPT ![i] = "ready"]
          /\ served' = [served EXCEPT ![i] = 0] /\ served[i] = 0
      BY <2>1, <2>2, SessionTurns, SessionStates
    <3> QED
      BY <3>1 DEF served
  <2>4. E' = E
    <3> HIDE DEF E
    <3> QED
      BY <1>1, <2>1, CountsChange DEF E
  <2>5. stats'.nb_RT = stats.nb_RT /\ stats'.file_nb_req = stats.file_nb_req
    BY <1>2, <1>3 DEF Opens
  <2> QED
    BY <1>1, <2>3, <2>4, <2>5 DEF Session!Next, Session!Connect, session, served, SessionOf
<1>4. CASE Sends(i)
  <2>1. Turns(i, "WRITING", "READING", client[i].nbRequestsOnIteration, client[i].errors,
              client[i].total_resp_recv)
    BY <1>4 DEF Sends
  <2>2. /\ session[i] = "ready" /\ session' = [session EXCEPT ![i] = "waiting"]
        /\ served' = served
    <3>1. /\ session[i] = "ready" /\ session' = [session EXCEPT ![i] = "waiting"]
          /\ served' = [served EXCEPT ![i] = served[i]]
      BY <2>1, SessionTurns, SessionStates
    <3> QED
      BY <3>1 DEF served
  <2>3. E' = E
    <3> HIDE DEF E
    <3> QED
      BY <1>1, <2>1, CountsChange DEF E
  <2>4. stats'.nb_RT = stats.nb_RT /\ stats'.file_nb_req = stats.file_nb_req + 1
    BY <1>2, <1>4 DEF Sends
  <2> QED
    BY <1>1, <2>2, <2>3, <2>4 DEF Session!Next, Session!Send, session, served, SessionOf
<1>5. CASE Answers(i)
  <2>1. Turns(i, "READING", "WRITING", client[i].nbRequestsOnIteration + 1,
              client[i].errors, client[i].total_resp_recv + 1)
    BY <1>5 DEF Answers
  <2>2. /\ session[i] = "waiting" /\ session' = [session EXCEPT ![i] = "ready"]
        /\ served[i] + 1 < MsgPerConn /\ served' = [served EXCEPT ![i] = @ + 1]
    BY <1>5, <2>1, SessionTurns, SessionStates DEF Answers
  <2>3. E' = E
    <3> HIDE DEF E
    <3> QED
      BY <1>1, <2>1, CountsChange DEF E
  <2>4. stats'.nb_RT = stats.nb_RT + 1 /\ stats'.file_nb_req = stats.file_nb_req
    BY <1>2, <1>5 DEF Answers
  <2> QED
    BY <1>1, <2>2, <2>3, <2>4 DEF Session!Next, Session!Answer, session, served, SessionOf
<1>6. CASE AnswersLast(i)
  <2>1. Turns(i, "READING", "CONNECT", 0, client[i].errors, client[i].total_resp_recv + 1)
    BY <1>6 DEF AnswersLast
  <2>2. /\ session[i] = "waiting" /\ session' = [session EXCEPT ![i] = "closed"]
        /\ served[i] + 1 = MsgPerConn /\ served' = [served EXCEPT ![i] = 0]
    BY <1>6, <2>1, SessionTurns, SessionStates DEF AnswersLast
  <2>3. E' = E
    <3> HIDE DEF E
    <3> QED
      BY <1>1, <2>1, CountsChange DEF E
  <2>4. stats'.nb_RT = stats.nb_RT + 1 /\ stats'.file_nb_req = stats.file_nb_req
    BY <1>2, <1>6 DEF AnswersLast
  <2> QED
    BY <1>1, <2>2, <2>3, <2>4 DEF Session!Next, Session!Answer, session, served, SessionOf
<1>7. CASE Fails(i)
  <2>1. Turns(i, "READING", "CONNECT", 0, client[i].errors + 1, client[i].total_resp_recv)
    BY <1>7 DEF Fails
  <2>2. /\ session[i] = "waiting" /\ session' = [session EXCEPT ![i] = "closed"]
        /\ served' = [served EXCEPT ![i] = 0]
    BY <2>1, SessionTurns, SessionStates
  <2>3. E' = E + 1
    <3> HIDE DEF E
    <3> QED
      BY <1>1, <2>1, CountsChange DEF E
  <2>4. stats'.nb_RT = stats.nb_RT /\ stats'.file_nb_req = stats.file_nb_req
    BY <1>2, <1>7 DEF Fails
  <2> QED
    BY <1>1, <2>2, <2>3, <2>4 DEF Session!Next, Session!Fail, session, served, SessionOf
<1> QED
  BY <1>3, <1>4, <1>5, <1>6, <1>7 DEF OneStep

\* Steps that the closed loop does not see.
LEMMA SessionStutters ==
  ASSUME \A j \in Clients : SameNumbers(j), stats'.nb_RT = stats.nb_RT,
         stats'.file_nb_req = stats.file_nb_req
  PROVE  UNCHANGED Session!vars
<1>1. Total("errors")' = Total("errors")
  BY CountsSame DEF Counters
<1>2. session' = session /\ served' = served
  <2>1. \A j \in Clients :
           /\ client'[j].state = client[j].state
           /\ client'[j].nbRequestsOnIteration = client[j].nbRequestsOnIteration
    BY DEF SameNumbers
  <2> QED
    BY <2>1 DEF session, served
<1> QED
  BY <1>1, <1>2 DEF Session!vars, session, served, SessionOf

\* Every step is one of the closed loop, or none.
LEMMA NextSession ==
  ASSUME SocketInv, SocketInv', CountsInv, [Next]_vars
  PROVE  [Session!Next]_Session!vars
<1>1. /\ KernelInv /\ KernelInv' /\ MainTypes /\ ThreadsInv
      /\ client \in [Clients -> ClientRecords]
  BY DEF SocketInv, ThreadsInv, KernelInv, KernelTypes
<1>2. stats \in [{"nb_CT", "nb_RT", "nb_CRT", "file_nb_req",
                 "global_total_resp_recv", "global_errors"} -> Nat]
  BY <1>1, StatsAreNumbers
<1>3. CASE NoCount
  BY <1>3, SessionStutters DEF NoCount
<1>4. CASE \E i \in Clients : OneStep(i)
  BY <1>1, <1>4, OneStepSession
<1>5. CASE TakeOrder
  <2>1. /\ phase = "order" /\ client' = [i \in Clients |-> NewClient]
        /\ stats' = [stats EXCEPT !.nb_CT = 0, !.nb_RT = 0, !.nb_CRT = 0]
    BY <1>5 DEF TakeOrder
  <2>2. client' = client /\ stats.nb_RT = 0
    BY <1>1, <2>1 DEF KernelInv, Idle, CountsInv, NoCounts
  <2>3. stats'.nb_RT = stats.nb_RT /\ stats'.file_nb_req = stats.file_nb_req
    BY <1>2, <2>1, <2>2
  <2> QED
    BY <1>1, <2>2, <2>3, NothingNew, SessionStutters
<1>6. CASE ComputeStats
  <2>1. client' = client
    BY <1>6 DEF ComputeStats
  <2>2. stats'.nb_RT = stats.nb_RT /\ stats'.file_nb_req = stats.file_nb_req
    BY <1>2, <1>6 DEF ComputeStats
  <2> QED
    BY <1>1, <2>1, <2>2, NothingNew, SessionStutters
<1>7. CASE Clean
  <2>1. /\ client' = [i \in Clients |-> NewClient]
        /\ stats'.nb_RT = 0 /\ stats'.file_nb_req = 0
    BY <1>7 DEF Clean, ResetStats, NoStats
  <2>2. Total("errors")' = 0
    BY <2>1, NewClientCounts, TotalIsTotalOf DEF Counters
  <2>3. Session!Reset
    BY <2>1, <2>2 DEF Session!Reset, Session!Clients, Clients, NewClient
  <2> QED
    BY <2>3 DEF Session!Next
<1>8. CASE UNCHANGED vars
  <2>1. UNCHANGED <<client, stats>>
    BY <1>8 DEF vars, clientVars
  <2> QED
    BY <1>1, <2>1, NothingNew, SessionStutters
<1> QED
  BY <1>1, <1>3, <1>4, <1>5, <1>6, <1>7, <1>8, StepKinds

\* The two threads together are N clients in a closed loop.
THEOREM ImplementsLoadSessionCorrect == Spec => ImplementsLoadSession
<1>1. SocketInv /\ SocketInv' /\ CountsInv /\ [Next]_vars => [Session!Next]_Session!vars
  BY NextSession
<1> QED
  BY <1>1, InitSession, SocketInvariance, CountsInvariance, PTL
  DEF Spec, ImplementsLoadSession, Session!Spec
=============================================================================
