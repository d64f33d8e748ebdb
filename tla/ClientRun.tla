------------------------------ MODULE ClientRun ------------------------------
(***************************************************************************)
(* What one load is measured on: the clients of a slave, tick by tick and  *)
(* byte by byte.  A client connects, sends a request, and reads the answer *)
(* in as many pieces as the network makes of it: read_headers until the    *)
(* empty line is in read_hdr_buf, then read_content until Content-Length   *)
(* bytes of the body are there.  Whatever is in read_hdr_buf is searched,  *)
(* also bytes that came in excess with an earlier answer.  Times, bytes    *)
(* and answers are summed.                                                 *)
(*                                                                         *)
(* Which thread does a step is Injector.tla's concern: there a client is   *)
(* in one thread's hands at a time, so that here its steps are atomic.  So *)
(* are the errors of sockets that end the process at once, such as a       *)
(* refused or a reset connection.                                          *)
(* The build is Injector's: HTTP, IGNORE_HTTP_CONTENT, CLOSE_AFTER_REQUEST *)
(* 0.  Requests are written whole.                                         *)
(***************************************************************************)
EXTENDS TimeArith, Sequences, FiniteSetsExt

CONSTANTS N,             \* nb_clients
          MsgPerConn,    \* nb_msg_per_connection
          MaxHdr,        \* MAX_HDR_LENGTH, of read_hdr_buf and of buffer
          UInt,          \* values of an unsigned int
          Answers,       \* what the server may answer
          Start,         \* what the clock shows at first, in microseconds
          MaxTicks,      \* bound: microseconds that pass
          MaxReplies,    \* bound: answers of the server
          MaxFaults      \* bound: dishonest answers, connections closed by
                         \* the server, and reads that find nothing

(***************************************************************************)
(* Text is a sequence of units, each counted as one byte.  A unit tells    *)
(* which of the words that read_headers looks for end in it, "nul" being   *)
(* the 0 a search stops at, and the number after "Content-Length" if that *)
(* is one of them.  A word is not split between two units, so not between  *)
(* two reads or two answers either.                                        *)
(***************************************************************************)
Sought == {"empty-line", "200-OK", "Content-Length", "nul"}
UnitType == [words : SUBSET Sought, number : Nat]

\* Where strstr and strcasestr may find w in s.
StrStr(s, w) == {p \in 1 .. Len(s) : /\ w \in s[p].words
                                     /\ \A q \in 1 .. p : "nul" \notin s[q].words}

Has(s, w) == StrStr(s, w) # {}
FirstAt(s, w) == Min(StrStr(s, w))

(***************************************************************************)
(* An answer is a header, which should end with its only empty line, and a *)
(* body.  A server should be honest, but nothing makes it so.              *)
(***************************************************************************)
AnswerType == [hdr : Seq(UnitType), body : Seq(UnitType)]

IsHeader(h) == StrStr(h, "empty-line") = {Len(h)}

\* The length a's header announces, -1 if it announces none.
Announced(a) == IF Has(a.hdr, "Content-Length")
                  THEN a.hdr[FirstAt(a.hdr, "Content-Length")].number
                  ELSE -1

Honest(a) == /\ IsHeader(a.hdr) /\ Len(a.hdr) <= MaxHdr /\ Has(a.hdr, "200-OK")
             /\ Len(a.body) = Announced(a) /\ Announced(a) < UInt

\* a may be taken for another answer than it is: it has no proper header, or
\* more body than announced, or announces more than an unsigned int holds, or
\* has "200-OK" only in its body.
Misleads(a) == \/ ~ IsHeader(a.hdr)
               \/ Len(a.body) > Announced(a)
               \/ Announced(a) >= UInt
               \/ ~ Has(a.hdr, "200-OK") /\ Has(a.body, "200-OK")

\* A run is far shorter than the 2^64 microseconds of an unsigned long.
ASSUME ClientRunAssumption ==
  /\ N \in Nat /\ MsgPerConn \in Nat \ {0} /\ MaxHdr \in Nat \ {0}
  /\ UInt \in Nat /\ MaxHdr < UInt /\ 2 * UInt <= Word
  /\ Answers \subseteq AnswerType
  /\ Start \in Nat /\ MaxTicks \in Nat /\ MaxTicks < Word
  /\ MaxReplies \in Nat /\ MaxFaults \in Nat

VARIABLES
  now,      \* the clock
  client,   \* all_clients
  net,      \* the connection of each client, as the kernel sees it
  stats,    \* the sums of the run
  exit,     \* why the process exited, "no" while it runs
  took,     \* history: what was done, and how long it really took
  taken,    \* history: the bytes read, and the reads that found nothing
  used      \* how much of the bounds is used

vars == <<now, client, net, stats, exit, took, taken, used>>

Clients == 0 .. N - 1

-----------------------------------------------------------------------------
(***************************************************************************)
(* The kernel.  text is what will be read.  owed: a request is unanswered; *)
(* for the properties, cur is the latest answer, and odd tells that one of *)
(* those so far was misleading.                                            *)
(***************************************************************************)
NoAnswer == [hdr |-> <<>>, body |-> <<>>]
NewConnection == [text |-> <<>>, owed |-> FALSE, fin |-> FALSE,
                  cur |-> NoAnswer, odd |-> FALSE]

Unread(c) == Len(c.text)

Least(a, b) == IF a <= b THEN a ELSE b

\* The connection after a read of k bytes, and what the read returns.
Drop(c, k) == [c EXCEPT !.text = SubSeq(@, k + 1, Len(@))]
Taken(c, k) == SubSeq(c.text, 1, k)

\* How many bytes a read into a buffer with room for room may return: the
\* network may have delivered any part of what is on its way.
Pieces(c, room) == 1 .. Least(room, Unread(c))

-----------------------------------------------------------------------------
(***************************************************************************)
(* The client record                                                       *)
(***************************************************************************)
NewClient == [state |-> "CONNECT", fd |-> FALSE, nbRequestsOnIteration |-> 0,
              bytes_read |-> 0, header_length |-> 0, content_length |-> 0,
              read_hdr_buf |-> <<>>, errors |-> 0, total_bytes_recv |-> 0, total_resp_recv |-> 0,
              CTstart |-> Timeval(0), RTstart |-> Timeval(0),
              CRTstart |-> Timeval(0)]

\* Mutant: the answer after the first is read with the length of its header.
ChangeState_KeepsHeader(c, new) ==
  CASE new = "READING" -> [c EXCEPT !.state = new]
    [] new = "WRITING" -> [c EXCEPT !.state = new, !.bytes_read = 0,
                             !.read_hdr_buf = <<>>]
    [] new = "CONNECT" -> [c EXCEPT !.state = new, !.bytes_read = 0,
                             !.header_length = 0, !.content_length = 0,
                             !.nbRequestsOnIteration = 0]

\* change_state: entering a state resets what the one before has left.
ChangeState(c, new) ==
  CASE new = "READING" -> [c EXCEPT !.state = new]
    [] new = "WRITING" -> [c EXCEPT !.state = new, !.bytes_read = 0,
                             !.header_length = 0, !.content_length = 0,
                             !.read_hdr_buf = <<>>]
    [] new = "CONNECT" -> [c EXCEPT !.state = new, !.bytes_read = 0,
                             !.header_length = 0, !.content_length = 0,
                             !.nbRequestsOnIteration = 0]

\* compare_time of a start and the present.
Elapsed(start) == CompareTime(start, Timeval(now))

\* The time that has really passed.
TrueElapsed(start) == now - Moment(start)

\* reset_stats
NoStats == [avgCT |-> 0, nb_CT |-> 0, avgRT |-> 0, nb_RT |-> 0,
            avgCRT |-> 0, nb_CRT |-> 0, maxCT |-> 0, minCT |-> 0,
            file_nb_req |-> 0]
NothingTook == [CT |-> 0, connections |-> 0, RT |-> 0, answers |-> 0,
                CRT |-> 0, errors |-> 0]
NothingTaken == [bytes |-> 0, nothings |-> 0]

Init == /\ now = Start
        /\ client = [i \in Clients |-> NewClient]
        /\ net = [i \in Clients |-> NewConnection]
        /\ stats = NoStats
        /\ exit = "no"
        /\ took = NothingTook /\ taken = NothingTaken
        /\ used = [replies |-> 0, faults |-> 0]

-----------------------------------------------------------------------------
(***************************************************************************)
(* Connecting and sending                                                  *)
(***************************************************************************)

\* init_client_socket, and the connect that follows.
InitClientSocket(i) ==
  /\ client[i].state = "CONNECT" /\ ~ client[i].fd
  /\ client' = [client EXCEPT ![i].fd = TRUE,
                              ![i].CTstart = Timeval(now),
                              ![i].CRTstart = Timeval(now)]
  /\ net' = [net EXCEPT ![i] = NewConnection]
  /\ UNCHANGED <<now, stats, exit, took, taken, used>>

\* finalize_connect_client_to_server, when the connection is there.  A connect
\* that timed out is tried again on its descriptor and without a new CTstart:
\* it changes nothing here.
FinalizeConnect(i) ==
  /\ client[i].state = "CONNECT" /\ client[i].fd
  /\ LET ct_time == Elapsed(client[i].CTstart)
     IN  stats' = [stats EXCEPT !.minCT = IF ct_time < @ THEN ct_time ELSE @,
                                !.maxCT = IF ct_time > @ THEN ct_time ELSE @,
                                !.avgCT = @ + ct_time, !.nb_CT = @ + 1]
  /\ took' = [took EXCEPT !.CT = @ + TrueElapsed(client[i].CTstart),
                          !.connections = @ + 1]
  /\ client' = [client EXCEPT ![i] = ChangeState(@, "WRITING")]
  /\ UNCHANGED <<now, net, exit, taken, used>>

\* send_request, the whole request in one write.
SendRequest(i) ==
  /\ client[i].state = "WRITING"
  /\ client' = [client EXCEPT ![i] = ChangeState([@ EXCEPT !.RTstart = Timeval(now)],
                                                 "READING")]
  /\ net' = [net EXCEPT ![i].owed = TRUE]
  /\ stats' = [stats EXCEPT !.file_nb_req = @ + 1]
  /\ UNCHANGED <<now, exit, took, taken, used>>

-----------------------------------------------------------------------------
(***************************************************************************)
(* Reading                                                                 *)
(***************************************************************************)

\* The connection of c ends: what treat_error and read_complete add for it.
WithCRT(st, c) == [st EXCEPT !.avgCRT = @ + Elapsed(c.CRTstart),
                             !.nb_CRT = @ + c.nbRequestsOnIteration]

\* treat_error, for client i that was brought to c.
TreatError(i, c) ==
  /\ client' = [client EXCEPT
                  ![i] = ChangeState([c EXCEPT !.errors = @ + 1, !.fd = FALSE],
                                     "CONNECT")]
  /\ stats' = WithCRT(stats, c)
  /\ took' = [took EXCEPT !.CRT = @ + TrueElapsed(c.CRTstart), !.errors = @ + 1]
  /\ UNCHANGED exit

\* read_complete, for client i that was brought to c.
ReadComplete(i, c) ==
  LET d == [c EXCEPT !.total_resp_recv = @ + 1, !.nbRequestsOnIteration = @ + 1]
      timed == [stats EXCEPT !.avgRT = @ + Elapsed(c.RTstart), !.nb_RT = @ + 1]
      tookRT == [took EXCEPT !.RT = @ + TrueElapsed(c.RTstart), !.answers = @ + 1]
  IN  /\ \/ /\ d.nbRequestsOnIteration < MsgPerConn
            /\ client' = [client EXCEPT ![i] = ChangeState(d, "WRITING")]
            /\ stats' = timed
            /\ took' = tookRT
         \/ /\ d.nbRequestsOnIteration >= MsgPerConn
            /\ client' = [client EXCEPT
                            ![i] = ChangeState([d EXCEPT !.fd = FALSE], "CONNECT")]
            /\ stats' = WithCRT(timed, d)
            /\ took' = [tookRT EXCEPT !.CRT = @ + TrueElapsed(c.CRTstart)]
      /\ UNCHANGED exit

\* PANIC: the process is gone.
Panic(why) == exit' = why /\ UNCHANGED <<client, stats, took>>

\* The bytes are in, and no more than that.
GoOn(i, c) == /\ client' = [client EXCEPT ![i] = c]
              /\ UNCHANGED <<stats, took, exit>>

Reading(i) == client[i].state = "READING"

\* Mutant: a counter that may be negative.
Counted_Signed(c, ret) == [c EXCEPT !.total_bytes_recv = @ + ret]

\* read has returned ret, and total_bytes_recv is increased by it.
Counted(c, ret) == [c EXCEPT !.total_bytes_recv = (@ + ret) % Word]

\* Client i after a read has returned k bytes.
Received(i, k) ==
  [Counted(client[i], k) EXCEPT !.bytes_read = (@ + k) % UInt]

\* The same, when the bytes go into read_hdr_buf.
Buffered(i, k) ==
  [Received(i, k) EXCEPT !.read_hdr_buf = @ \o Taken(net[i], k)]

\* atol and atoll: a number that is too large for a long becomes the largest.
Atol(n) == Least(n, Word \div 2 - 1)

\* atoi, which is strtol with a long made an int, stored in an unsigned int.
Atoi(n) == Atol(n) % UInt

\* c when all three words are in read_hdr_buf: what follows the first empty
\* line is body.
Parsed(c) ==
  LET buf == c.read_hdr_buf
      header_length == FirstAt(buf, "empty-line")
  IN  [c EXCEPT !.header_length = header_length,
                !.content_length = Atoi(buf[FirstAt(buf, "Content-Length")].number),
                !.bytes_read = @ - header_length]

\* Mutant: a full buffer is refused before the empty line is searched.
ReadHeaders_FullFirst(i, k) ==
  LET c == Buffered(i, k)
      buf == c.read_hdr_buf
      p == Parsed(c)
  IN  IF c.bytes_read >= MaxHdr THEN Panic("no-headers")
      ELSE IF ~ Has(buf, "empty-line") THEN GoOn(i, c)
      ELSE IF ~ Has(buf, "200-OK") THEN TreatError(i, c)
      ELSE IF ~ Has(buf, "Content-Length") THEN Panic("no-length")
      ELSE IF p.bytes_read = p.content_length THEN ReadComplete(i, p)
      ELSE GoOn(i, p)

\* read_headers, when the read returns k bytes.
ReadHeaders(i, k) ==
  LET c == Buffered(i, k)
      p == Parsed(c)
      found == Has(c.read_hdr_buf, "empty-line")
      good == found /\ Has(c.read_hdr_buf, "200-OK")
      sized == good /\ Has(c.read_hdr_buf, "Content-Length")
  IN  \/ ~ found /\ c.bytes_read < MaxHdr /\ GoOn(i, c)
      \/ ~ found /\ c.bytes_read >= MaxHdr /\ Panic("no-headers")
      \/ found /\ ~ good /\ TreatError(i, c)
      \/ good /\ ~ sized /\ Panic("no-length")
      \/ sized /\ p.bytes_read # p.content_length /\ GoOn(i, p)
      \/ sized /\ p.bytes_read = p.content_length /\ ReadComplete(i, p)

\* read_content, when the read returns k bytes.
ReadContent(i, k) ==
  LET c == Received(i, k)
  IN  \/ c.bytes_read # c.content_length /\ GoOn(i, c)
      \/ c.bytes_read = c.content_length /\ ReadComplete(i, c)

\* read_response, when there is something to read.
ReadResponse(i) ==
  /\ Reading(i)
  /\ \/ /\ client[i].header_length = 0
        /\ \E k \in Pieces(net[i], MaxHdr - client[i].bytes_read) :
             /\ ReadHeaders(i, k)
             /\ net' = [net EXCEPT ![i] = Drop(@, k)]
             /\ taken' = [taken EXCEPT !.bytes = @ + k]
     \/ /\ client[i].header_length > 0
        /\ \E k \in Pieces(net[i], MaxHdr) :
             /\ ReadContent(i, k)
             /\ net' = [net EXCEPT ![i] = Drop(@, k)]
             /\ taken' = [taken EXCEPT !.bytes = @ + k]
  /\ UNCHANGED <<now, used>>

\* The environment is allowed one more fault, and has it.
OneMoreFault == /\ used.faults < MaxFaults
                /\ used' = [used EXCEPT !.faults = @ + 1]

\* read returns 0: the end of an answer without a body is an error of the
\* connection, within a body it is the end of the process.
ReadEof(i) ==
  /\ Reading(i) /\ net[i].fin /\ Unread(net[i]) = 0
  /\ \/ client[i].header_length = 0 /\ TreatError(i, client[i])
     \/ client[i].header_length > 0 /\ Panic("EOF")
  /\ UNCHANGED <<now, net, taken, used>>

\* read returns -1 with EAGAIN, which total_bytes_recv counts like any other.
ReadNothing(i) ==
  /\ Reading(i) /\ OneMoreFault
  /\ client' = [client EXCEPT ![i] = Counted(@, -1)]
  /\ taken' = [taken EXCEPT !.nothings = @ + 1]
  /\ UNCHANGED <<now, net, stats, exit, took>>

-----------------------------------------------------------------------------
(***************************************************************************)
(* The server and the clock                                                *)
(***************************************************************************)

\* The connection when a has been sent, behind what is unread.
Sent(c, a) == [c EXCEPT !.text = @ \o a.hdr \o a.body, !.cur = a, !.owed = FALSE,
                        !.odd = @ \/ Misleads(a)]

\* The server answers, in one go or not: a read may return any part of it.
ServerAnswers(i) ==
  /\ net[i].owed /\ ~ net[i].fin /\ used.replies < MaxReplies
  /\ \E a \in Answers :
       /\ net' = [net EXCEPT ![i] = Sent(@, a)]
       /\ \/ Honest(a) /\ used' = [used EXCEPT !.replies = @ + 1]
          \/ /\ ~ Honest(a) /\ used.faults < MaxFaults
             /\ used' = [replies |-> used.replies + 1, faults |-> used.faults + 1]
  /\ UNCHANGED <<now, client, stats, exit, took, taken>>

ServerCloses(i) ==
  /\ client[i].fd /\ client[i].state # "CONNECT"
  /\ ~ net[i].fin /\ OneMoreFault
  /\ net' = [net EXCEPT ![i].fin = TRUE]
  /\ UNCHANGED <<now, client, stats, exit, took, taken>>

Tick == /\ now < Start + MaxTicks
        /\ now' = now + 1
        /\ UNCHANGED <<client, net, stats, exit, took, taken, used>>

ClientStep(i) == \/ InitClientSocket(i) \/ FinalizeConnect(i) \/ SendRequest(i)
                 \/ ReadResponse(i) \/ ReadEof(i) \/ ReadNothing(i)

Next == /\ exit = "no"
        /\ \/ \E i \in Clients : ClientStep(i) \/ ServerAnswers(i) \/ ServerCloses(i)
           \/ Tick

Spec == Init /\ [][Next]_vars

-----------------------------------------------------------------------------
(***************************************************************************)
(* Properties                                                              *)
(***************************************************************************)
TimevalType == [sec : Nat, usec : 0 .. Second - 1]
ClientType ==
  [state : {"CONNECT", "WRITING", "READING"}, fd : BOOLEAN,
   nbRequestsOnIteration : 0 .. MsgPerConn - 1, bytes_read : 0 .. UInt - 1,
   header_length : 0 .. MaxHdr, content_length : 0 .. UInt - 1,
   read_hdr_buf : Seq(UnitType), errors : Nat,
   total_bytes_recv : 0 .. Word - 1, total_resp_recv : Nat,
   CTstart : TimevalType, RTstart : TimevalType, CRTstart : TimevalType]
ConnectionType == [text : Seq(UnitType), owed : BOOLEAN, fin : BOOLEAN,
                   cur : AnswerType, odd : BOOLEAN]
StatsType == [avgCT : Nat, nb_CT : Nat, avgRT : Nat, nb_RT : Nat, avgCRT : Nat,
              nb_CRT : Nat, maxCT : Nat, minCT : Nat, file_nb_req : Nat]
TookType == [CT : Nat, connections : Nat, RT : Nat, answers : Nat, CRT : Nat,
             errors : Nat]

\* The types of the variables: no count or length is ever negative, which an
\* unsigned variable cannot be and would show as a huge number, and nothing is
\* read past the end of read_hdr_buf.
RunTypeOK ==
  /\ now \in Start .. Start + MaxTicks
  /\ client \in [Clients -> ClientType] /\ net \in [Clients -> ConnectionType]
  /\ \A i \in Clients : Len(client[i].read_hdr_buf) <= MaxHdr
  /\ stats \in StatsType /\ took \in TookType
  /\ taken \in [bytes : Nat, nothings : Nat]
  /\ used \in [replies : 0 .. MaxReplies, faults : 0 .. MaxFaults]

\* The sums of the run are the times that connects, answers and, from connect to
\* close, connections that have ended really took.
TimesRight ==
  /\ stats.avgCT = took.CT /\ stats.nb_CT = took.connections
  /\ stats.avgRT = took.RT /\ stats.nb_RT = took.answers
  /\ stats.avgCRT = took.CRT

\* Client i's answer is counted in this step.
AnswerCounted(i) == client'[i].total_resp_recv > client[i].total_resp_recv

\* An answer is counted when its header and the announced bytes of its body
\* have been read, no sooner and no later, in whatever pieces they came and
\* whatever the connections before and the answers before on this one have
\* left in the client's record, unless one of these answers was misleading: what
\* that has in excess may be counted as the next answer.
AnswersWhole ==
  [][\A i \in Clients :
       AnswerCounted(i) =>
         LET c == net'[i]
         IN  \/ c.odd
             \/ /\ ~ c.owed /\ c.text = <<>> /\ Has(c.cur.hdr, "200-OK")
                /\ Len(c.cur.body) = Announced(c.cur)]_vars

\* A server with no misleading answers never makes a client wait for more than
\* it announced, and never ends the process: a client that has read all there
\* is waits for an answer to come, or for the rest of a body that was not as
\* long as announced; a header that fits read_hdr_buf is found there, and the
\* length in it; and the end of the connection is not met behind a whole answer.
HonestAnswersServed ==
  LET Unfair(i) == Len(net[i].cur.body) # Announced(net[i].cur)
  IN  /\ \A i \in Clients :
           Reading(i) /\ exit = "no" /\ net[i].text = <<>> /\ ~ net[i].odd =>
             net[i].owed \/ Unfair(i)
      /\ exit = "no-headers" =>
           \E i \in Clients : Reading(i) /\ (net[i].odd \/ Len(net[i].cur.hdr) > MaxHdr)
      /\ exit = "no-length" => \E i \in Clients : Reading(i) /\ net[i].odd
      /\ exit = "EOF" => \E i \in Clients : Reading(i) /\ (net[i].odd \/ Unfair(i))
=============================================================================
