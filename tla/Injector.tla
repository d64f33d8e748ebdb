------------------------------ MODULE Injector ------------------------------
(***************************************************************************)
(* The load injector of one slave, slg.c in its default build: HTTP, one   *)
(* file, USE_RST, non-blocking sockets, CLOSE_AFTER_REQUEST 0.             *)
(*                                                                         *)
(* The writing thread connects and sends, the reading thread receives, and *)
(* they hand the clients to each other through toReadBuffer and            *)
(* toWriteBuffer, without a lock: client records, sockets and select sets  *)
(* are safe only because a client is in one thread's hands at a time.      *)
(* The main thread starts a run on an order of the master, joins both      *)
(* threads when the time is up, reports and cleans up.                     *)
(*                                                                         *)
(* The two queues are FIFO queues with room for N clients whose operations *)
(* are atomic, which CircularBuffer.tla shows of circular_buffer.c.  A     *)
(* step is a system call, a queue operation, or the local work up to the   *)
(* next one.  The length of an answer is counted in units: HdrLen of       *)
(* header, BodyLen of body, which are as many as it announces.  Bytes in   *)
(* excess of that are only in ClientRun.tla.                               *)
(***************************************************************************)
EXTENDS Integers, Sequences, FiniteSets, FiniteSetsExt

CONSTANTS N,            \* nb_clients
          MsgPerConn,   \* nb_msg_per_connection
          HdrLen,       \* units of an answer up to the empty line
          BodyLen,      \* units Content-Length announces
          FirstFd,      \* lowest file descriptor not in use by the process
          FdSetSize,    \* FD_SETSIZE, the descriptors a select set has room for
          MaxRuns,      \* bound: orders the master gives
          MaxReplies,   \* bound: requests the server answers in a run
          MaxFaults     \* bound: errors of the network and the server

ASSUME InjectorAssumption ==
  /\ N \in Nat /\ MsgPerConn \in Nat \ {0}
  /\ HdrLen \in Nat \ {0} /\ BodyLen \in Nat
  /\ FirstFd \in Nat \ {0} /\ FdSetSize \in Nat
  /\ MaxRuns \in Nat /\ MaxReplies \in Nat /\ MaxFaults \in Nat

VARIABLES
  sock,           \* the kernel: what each file descriptor stands for
  client,         \* all_clients
  toWriteBuffer,  \* clients on their way to the writing thread
  toReadBuffer,   \* clients on their way to the reading thread
  writer,         \* writingFunc: where it is, the client it works on
  internalToWrite,            \* the clients it has marked DO_WRITE
  master_connect_fds,         \* the descriptors it waits for
  max_connect_socket,         \* the highest one it passes to select
  master_connect_fds_select,  \* what its latest select returned
  reader,         \* readingFunc: where it is, its client, that client's fd
  internalToRead,             \* the clients it has marked DO_READ
  master_read_set,            \* the descriptors it waits for
  maxFd,                      \* the highest one it passes to select
  readfds,                    \* what its latest select returned
  stats,          \* the counters of the run
  phase,          \* main: waiting for an order, running, reporting, cleaning
  masterOrderSocket,
  timeUp,         \* has duration elapsed?
  exit,           \* why the process exited, "no" while it runs
  runs, replies, faults       \* how much of the bounds is used

clientVars == <<sock, client, stats>>
writerVars == <<writer, internalToWrite, master_connect_fds,
                max_connect_socket, master_connect_fds_select>>
readerVars == <<reader, internalToRead, master_read_set, maxFd, readfds>>
mainVars == <<phase, masterOrderSocket, timeUp, exit, runs>>
envVars == <<replies, faults>>
vars == <<clientVars, toWriteBuffer, toReadBuffer, writerVars, readerVars,
          mainVars, envVars>>

Clients == 0 .. N - 1
Fds == FirstFd .. FirstFd + N    \* enough for the master and N clients
AnswerLen == HdrLen + BodyLen

Running == phase = "run" /\ exit = "no"

\* One more error of the network or the server.
Fault == faults < MaxFaults /\ faults' = faults + 1

-----------------------------------------------------------------------------
(***************************************************************************)
(* The kernel.  toSend counts the units of answers the server owes, avail  *)
(* the ones a read can take, bad says that the answer's status is not 200  *)
(* and fin that the server has closed its end.                             *)
(***************************************************************************)
Socket(st) == [st |-> st, toSend |-> 0, avail |-> 0, bad |-> FALSE, fin |-> FALSE]

FreeFds == {f \in Fds : sock[f].st = "free"}

\* select's answers.  A socket with an error is ready for both.
Writable(f) == sock[f].st \in {"fresh", "timedout", "refused", "open", "reset"}
Readable(f) == \/ sock[f].avail > 0
               \/ sock[f].fin
               \/ sock[f].st = "reset"

-----------------------------------------------------------------------------
(***************************************************************************)
(* The client record and its states.                                       *)
(***************************************************************************)
NewClient == [state |-> "CONNECT", fd |-> -1, connect_in_progress |-> FALSE,
              nbRequestsOnIteration |-> 0, bytes_read |-> 0,
              header_length |-> 0, errors |-> 0, total_resp_recv |-> 0]

\* Mutant: a new connection goes on with the count of the one before.
ChangeState_KeepsCount(c, new) ==
  IF new = "READING" THEN [c EXCEPT !.state = new]
  ELSE LET d == [c EXCEPT !.state = new, !.bytes_read = 0, !.header_length = 0]
       IN  IF new = "WRITING" THEN d ELSE [d EXCEPT !.fd = -1]

\* change_state: entering a state resets what the one before has left.
ChangeState(c, new) ==
  IF new = "READING" THEN [c EXCEPT !.state = new]
  ELSE LET d == [c EXCEPT !.state = new, !.bytes_read = 0, !.header_length = 0]
       IN  IF new = "WRITING" THEN d
           ELSE [d EXCEPT !.fd = -1, !.nbRequestsOnIteration = 0]

NoStats == [nb_CT |-> 0, nb_RT |-> 0, nb_CRT |-> 0, file_nb_req |-> 0,
            global_total_resp_recv |-> 0, global_errors |-> 0]

Init ==
  /\ sock = [f \in Fds |-> Socket("free")]
  /\ client = [i \in Clients |-> NewClient]
  /\ toWriteBuffer = <<>> /\ toReadBuffer = <<>>
  /\ writer = [at |-> "done", i |-> 0]
  /\ internalToWrite = {}
  /\ master_connect_fds = {} /\ max_connect_socket = 0
  /\ master_connect_fds_select = {}
  /\ reader = [at |-> "done", i |-> 0, fd |-> -1]
  /\ internalToRead = {}
  /\ master_read_set = {} /\ maxFd = -1 /\ readfds = {}
  /\ stats = NoStats
  /\ phase = "order" /\ masterOrderSocket = -1
  /\ timeUp = FALSE /\ exit = "no"
  /\ runs = 0 /\ replies = 0 /\ faults = 0

-----------------------------------------------------------------------------
(***************************************************************************)
(* main                                                                    *)
(***************************************************************************)

\* FD_ZERO(&master_connect_fds)
ZeroedWriteSet == {}

\* main from accept to the creation of both threads: every client is in
\* toWriteBuffer.  max_connect_socket keeps its value from the run before.
TakeOrder ==
  /\ phase = "order" /\ exit = "no" /\ runs < MaxRuns
  /\ masterOrderSocket' = Min(FreeFds)
  /\ sock' = [sock EXCEPT ![masterOrderSocket'] = Socket("order")]
  /\ client' = [i \in Clients |-> NewClient]
  /\ master_connect_fds' = ZeroedWriteSet
  /\ toWriteBuffer' = [k \in 1 .. N |-> k - 1]
  /\ toReadBuffer' = <<>>
  /\ writer' = [at |-> "fill", i |-> 0]
  /\ internalToWrite' = {} /\ master_connect_fds_select' = {}
  /\ reader' = [at |-> "fill", i |-> 0, fd |-> -1]
  /\ internalToRead' = {} /\ master_read_set' = {} /\ maxFd' = -1
  /\ readfds' = {}
  /\ phase' = "run" /\ timeUp' = FALSE
  /\ runs' = runs + 1 /\ replies' = 0
  /\ stats' = [stats EXCEPT !.nb_CT = 0, !.nb_RT = 0, !.nb_CRT = 0]
  /\ UNCHANGED <<max_connect_socket, exit, faults>>

\* The master closes the connection before its order is complete.
OrderFails ==
  /\ phase = "order" /\ exit = "no" /\ runs < MaxRuns
  /\ Fault
  /\ exit' = "order"
  /\ UNCHANGED <<clientVars, toWriteBuffer, toReadBuffer, writerVars,
                 readerVars, phase, masterOrderSocket, timeUp, runs, replies>>

\* The sum of a field of the client records.
Total(field) == MapThenSumSet(LAMBDA i : client[i][field], Clients)

\* main joins both threads and calls compute_stats.
ComputeStats ==
  /\ Running /\ writer.at = "done" /\ reader.at = "done"
  /\ stats' = [stats EXCEPT
        !.global_total_resp_recv = @ + Total("total_resp_recv"),
        !.global_errors = Total("errors"),
        !.nb_CRT = @ + Total("nbRequestsOnIteration")]
  /\ phase' = "report"
  /\ UNCHANGED <<sock, client, toWriteBuffer, toReadBuffer, writerVars,
                 readerVars, masterOrderSocket, timeUp, exit, runs, envVars>>

\* send_stat_response writes the totals and closes the master's socket.
Report ==
  /\ phase = "report" /\ exit = "no"
  /\ sock' = [sock EXCEPT ![masterOrderSocket] = Socket("free")]
  /\ phase' = "clean"
  /\ UNCHANGED <<client, stats, toWriteBuffer, toReadBuffer, writerVars,
                 readerVars, masterOrderSocket, timeUp, exit, runs, envVars>>

\* The master is gone: PANIC "Error sending response to master".
ReportFails ==
  /\ phase = "report" /\ exit = "no"
  /\ Fault
  /\ exit' = "report"
  /\ UNCHANGED <<clientVars, toWriteBuffer, toReadBuffer, writerVars,
                 readerVars, phase, masterOrderSocket, timeUp, runs, replies>>

\* Mutant: one total goes on from run to run.
ResetStats_KeepsResponses ==
  /\ client' = [i \in Clients |-> NewClient]
  /\ stats' = [NoStats EXCEPT
        !.global_errors = stats.global_errors,
        !.global_total_resp_recv = stats.global_total_resp_recv]

\* reset_stats: frees the clients and zeroes every counter.  global_errors is
\* left for compute_stats to set.
ResetStats ==
  /\ client' = [i \in Clients |-> NewClient]
  /\ stats' = [NoStats EXCEPT !.global_errors = stats.global_errors]

\* Mutant: the loop starts at the second client.
RemainingFds_ButFirst == {client[i].fd : i \in Clients \ {0}}

\* clean_remaing_clients_fd: what it closes.  close(-1) has no effect.
RemainingFds == {client[i].fd : i \in Clients}

\* clean_remaing_clients_fd, reset_stats, the end of the queues, and the
\* second close of the master's socket.
Clean ==
  /\ phase = "clean" /\ exit = "no"
  /\ LET closed == RemainingFds \cup {masterOrderSocket}
     IN  sock' = [f \in Fds |-> IF f \in closed THEN Socket("free") ELSE sock[f]]
  /\ ResetStats
  /\ toWriteBuffer' = <<>> /\ toReadBuffer' = <<>>
  /\ phase' = "order"
  /\ UNCHANGED <<writerVars, readerVars, masterOrderSocket, timeUp, exit, runs,
                 envVars>>

-----------------------------------------------------------------------------
(***************************************************************************)
(* writingFunc                                                             *)
(***************************************************************************)
\* Mutant: the limit of select is forgotten.
AddToWriteSet_NoLimit(f) ==
  /\ master_connect_fds' = master_connect_fds \cup {f}
  /\ UNCHANGED max_connect_socket

\* add_client_to_master_write_set
AddToWriteSet(f) ==
  /\ master_connect_fds' = master_connect_fds \cup {f}
  /\ max_connect_socket' = IF f > max_connect_socket THEN f
                                                     ELSE max_connect_socket

\* Mutant: FD_CLR is missing.
RemoveFromWriteSet_Keeps(f) == UNCHANGED <<master_connect_fds, max_connect_socket>>

\* Mutant: the search for the new limit breaks after one step, as the reading
\* thread's does, and then takes the set for empty.
RemoveFromWriteSet_BreaksEarly(f) ==
  /\ master_connect_fds' = master_connect_fds \ {f}
  /\ max_connect_socket' =
       IF max_connect_socket # f THEN max_connect_socket
       ELSE IF f - 1 \in master_connect_fds THEN f - 1 ELSE 0

\* remove_client_from_master_write_set
RemoveFromWriteSet(f) ==
  LET lower == {g \in master_connect_fds : g < f}
  IN  /\ master_connect_fds' = master_connect_fds \ {f}
      /\ max_connect_socket' =
           IF max_connect_socket # f THEN max_connect_socket
           ELSE IF lower = {} THEN 0 ELSE Max(lower)

\* Takes the next client out of toWriteBuffer.
WriterTakes ==
  /\ Running /\ writer.at = "fill" /\ toWriteBuffer # <<>>
  /\ LET i == Head(toWriteBuffer)
     IN  /\ internalToWrite' = internalToWrite \cup {i}
         /\ IF client[i].fd >= 0
              THEN AddToWriteSet(client[i].fd)
              ELSE UNCHANGED <<master_connect_fds, max_connect_socket>>
  /\ toWriteBuffer' = Tail(toWriteBuffer)
  /\ UNCHANGED <<clientVars, toReadBuffer, writer, master_connect_fds_select,
                 readerVars, mainVars, envVars>>

WriterFilled ==
  /\ Running /\ writer.at = "fill" /\ toWriteBuffer = <<>>
  /\ writer' = [writer EXCEPT !.at = "select"]
  /\ UNCHANGED <<clientVars, toWriteBuffer, toReadBuffer, internalToWrite,
                 master_connect_fds, max_connect_socket,
                 master_connect_fds_select, readerVars, mainVars, envVars>>

\* Mutant: the set passed to select is used in place of select's answer.
WriteSelect_AllSet == master_connect_fds

\* What select leaves in the set.  Whether it fails is not looked at: when it
\* does, because of a closed descriptor, the set keeps all its members.
WriteSelect ==
  LET asked == {f \in master_connect_fds : f <= max_connect_socket}
  IN  IF \E f \in asked : sock[f].st = "free" THEN master_connect_fds
      ELSE {f \in asked : Writable(f)}

WriterSelects ==
  /\ Running /\ writer.at = "select"
  /\ master_connect_fds_select' = WriteSelect
  /\ writer' = [at |-> "scan", i |-> 0]
  /\ UNCHANGED <<clientVars, toWriteBuffer, toReadBuffer, internalToWrite,
                 master_connect_fds, max_connect_socket, readerVars, mainVars,
                 envVars>>

\* The loop over the clients looks at i next.
WriterAt(i) ==
  /\ Running /\ writer.at = "scan"
  /\ i \in internalToWrite /\ i >= writer.i
  /\ \A j \in internalToWrite : j >= writer.i => i <= j

WriterReady(i) == client[i].fd \in master_connect_fds_select

\* Nothing to do for i in this turn of the loop.
WriterWaits(i) ==
  /\ WriterAt(i) /\ ~ WriterReady(i)
  /\ client[i].state = "WRITING" \/ client[i].connect_in_progress
  /\ writer' = [writer EXCEPT !.i = i + 1]
  /\ UNCHANGED <<clientVars, toWriteBuffer, toReadBuffer, internalToWrite,
                 master_connect_fds, max_connect_socket,
                 master_connect_fds_select, readerVars, mainVars, envVars>>

\* send_request: the whole request is written, the client leaves this thread.
SendRequest(i) ==
  /\ WriterAt(i) /\ WriterReady(i) /\ client[i].state = "WRITING"
  /\ LET f == client[i].fd
     IN  /\ sock[f].st # "reset"
         /\ sock' = [sock EXCEPT ![f].toSend =
                       IF sock[f].fin THEN @ ELSE @ + AnswerLen]
         /\ RemoveFromWriteSet(f)
  /\ client' = [client EXCEPT ![i] = ChangeState(@, "READING")]
  /\ stats' = [stats EXCEPT !.file_nb_req = @ + 1]
  /\ internalToWrite' = internalToWrite \ {i}
  /\ writer' = [at |-> "hand", i |-> i]
  /\ UNCHANGED <<toWriteBuffer, toReadBuffer, master_connect_fds_select,
                 readerVars, mainVars, envVars>>

\* send_request finds an error on the socket: PANIC.
SendRequestError(i) ==
  /\ WriterAt(i) /\ WriterReady(i) /\ client[i].state = "WRITING"
  /\ sock[client[i].fd].st = "reset"
  /\ exit' = "reset"
  /\ UNCHANGED <<clientVars, toWriteBuffer, toReadBuffer, writerVars,
                 readerVars, phase, masterOrderSocket, timeUp, runs, envVars>>

\* write takes none or only a part of the request: send_request returns with
\* the client still in ST_WRITING, and writingFunc calls PANIC.
SendRequestShort(i) ==
  /\ WriterAt(i) /\ WriterReady(i) /\ client[i].state = "WRITING"
  /\ sock[client[i].fd].st # "reset"
  /\ Fault
  /\ exit' = "short write"
  /\ UNCHANGED <<clientVars, toWriteBuffer, toReadBuffer, writerVars,
                 readerVars, phase, masterOrderSocket, timeUp, runs, replies>>

\* put_circ(toReadBuffer, i), and PANIC when it is full.
WriterHands ==
  /\ Running /\ writer.at = "hand"
  /\ IF Len(toReadBuffer) < N
       THEN /\ toReadBuffer' = Append(toReadBuffer, writer.i)
            /\ writer' = [at |-> "scan", i |-> writer.i + 1]
            /\ UNCHANGED exit
       ELSE /\ exit' = "put_circ"
            /\ UNCHANGED <<toReadBuffer, writer>>
  /\ UNCHANGED <<clientVars, toWriteBuffer, internalToWrite, master_connect_fds,
                 max_connect_socket, master_connect_fds_select, readerVars,
                 phase, masterOrderSocket, timeUp, runs, envVars>>

\* finalize_connect_client_to_server.  A client whose connect timed out stays
\* in ST_CONNECT with its socket; a refused one ends the process, because
\* NB_CONNECT_ATTEMPTS_MAX is 1.
FinalizeConnect(i) ==
  /\ WriterAt(i) /\ WriterReady(i)
  /\ client[i].state = "CONNECT" /\ client[i].connect_in_progress
  /\ LET f == client[i].fd
         c == [client[i] EXCEPT !.connect_in_progress = FALSE]
     IN  \/ /\ sock[f].st \in {"open", "connecting", "fresh"}    \* SO_ERROR is 0
            /\ client' = [client EXCEPT ![i] = ChangeState(c, "WRITING")]
            /\ stats' = [stats EXCEPT !.nb_CT = @ + 1]
            /\ UNCHANGED <<sock, exit>>
         \/ /\ sock[f].st = "timedout"
            /\ client' = [client EXCEPT ![i] = c]
            /\ sock' = [sock EXCEPT ![f].st = "fresh"]
            /\ UNCHANGED <<stats, exit>>
         \/ /\ sock[f].st \in {"refused", "reset", "free"}
            /\ exit' = sock[f].st
            /\ UNCHANGED clientVars
  /\ writer' = [writer EXCEPT !.i = i + 1]
  /\ UNCHANGED <<toWriteBuffer, toReadBuffer, internalToWrite,
                 master_connect_fds, max_connect_socket,
                 master_connect_fds_select, readerVars, phase,
                 masterOrderSocket, timeUp, runs, envVars>>

\* The descriptor connect is called with: the client's, or one that
\* init_client_socket gets from socket().
ConnectFd(i) == IF client[i].fd # -1 THEN client[i].fd ELSE Min(FreeFds)

\* init_client_socket returns: the client has a descriptor, or gets one that
\* fits a select set, assert(client->fd < FD_SETSIZE).
HasFd(i) == \/ client[i].fd # -1
            \/ FreeFds # {} /\ ConnectFd(i) < FdSetSize

\* initialize_connect_client_to_server, EINPROGRESS.
InitializeConnect(i) ==
  /\ WriterAt(i) /\ client[i].state = "CONNECT"
  /\ ~ client[i].connect_in_progress
  /\ HasFd(i)
  /\ LET f == ConnectFd(i)
     IN  /\ sock' = [sock EXCEPT ![f] = Socket("connecting")]
         /\ client' = [client EXCEPT ![i].fd = f, ![i].connect_in_progress = TRUE]
         /\ AddToWriteSet(f)
  /\ writer' = [writer EXCEPT !.i = i + 1]
  /\ UNCHANGED <<stats, toWriteBuffer, toReadBuffer, internalToWrite,
                 master_connect_fds_select, readerVars, mainVars, envVars>>

\* The same, EADDRNOTAVAIL or ECONNABORTED: "Will try later".
InitializeConnectLater(i) ==
  /\ WriterAt(i) /\ client[i].state = "CONNECT"
  /\ ~ client[i].connect_in_progress
  /\ HasFd(i)
  /\ Fault
  /\ LET f == ConnectFd(i)
     IN  /\ sock' = [sock EXCEPT ![f] = Socket("fresh")]
         /\ client' = [client EXCEPT ![i].fd = f]
  /\ writer' = [writer EXCEPT !.i = i + 1]
  /\ UNCHANGED <<stats, toWriteBuffer, toReadBuffer, internalToWrite,
                 master_connect_fds, max_connect_socket,
                 master_connect_fds_select, readerVars, mainVars, replies>>

\* The same, when there is no descriptor left, the one from socket() does not
\* fit a select set, or connect has another error: all end the process.
InitializeConnectFails(i) ==
  /\ WriterAt(i) /\ client[i].state = "CONNECT"
  /\ ~ client[i].connect_in_progress
  /\ \/ HasFd(i) /\ exit' = "connect" /\ Fault
     \/ /\ ~ HasFd(i)
        /\ exit' = IF FreeFds = {} THEN "socket" ELSE "FD_SETSIZE"
        /\ UNCHANGED faults
  /\ UNCHANGED <<clientVars, toWriteBuffer, toReadBuffer, writerVars,
                 readerVars, phase, masterOrderSocket, timeUp, runs, replies>>

\* The end of the loop over the clients: once more, unless the time is up.
WriterLoops ==
  /\ Running /\ writer.at = "scan"
  /\ \A j \in internalToWrite : j < writer.i
  /\ writer' = [at |-> IF timeUp THEN "done" ELSE "fill", i |-> 0]
  /\ master_connect_fds_select' = {}    \* not used before the next select
  /\ UNCHANGED <<clientVars, toWriteBuffer, toReadBuffer, internalToWrite,
                 master_connect_fds, max_connect_socket, readerVars, mainVars,
                 envVars>>

WriterStep ==
  \/ WriterTakes \/ WriterFilled \/ WriterSelects \/ WriterHands \/ WriterLoops
  \/ \E i \in Clients :
       \/ WriterWaits(i)
       \/ SendRequest(i) \/ SendRequestError(i) \/ SendRequestShort(i)
       \/ FinalizeConnect(i)
       \/ InitializeConnect(i) \/ InitializeConnectLater(i)
       \/ InitializeConnectFails(i)

-----------------------------------------------------------------------------
(***************************************************************************)
(* readingFunc                                                             *)
(***************************************************************************)

\* Mutant: the limit of select follows the latest client.
RaisedMaxFd_Latest(f) == f

\* The limit of select, with f in the set.
RaisedMaxFd(f) == IF f > maxFd THEN f ELSE maxFd

\* Takes the next client out of toReadBuffer.
ReaderTakes ==
  /\ Running /\ reader.at = "fill" /\ toReadBuffer # <<>>
  /\ LET i == Head(toReadBuffer)
         f == client[i].fd
     IN  /\ internalToRead' = internalToRead \cup {i}
         /\ master_read_set' = master_read_set \cup {f}
         /\ maxFd' = RaisedMaxFd(f)
  /\ toReadBuffer' = Tail(toReadBuffer)
  /\ UNCHANGED <<clientVars, toWriteBuffer, writerVars, reader, readfds,
                 mainVars, envVars>>

\* Mutant: the time is not looked at before the next turn.
ReaderFilled_NoTimeCheck ==
  /\ Running /\ reader.at = "fill" /\ toReadBuffer = <<>>
  /\ reader' = [reader EXCEPT !.at = IF maxFd > -1 THEN "select" ELSE "fill"]
  /\ UNCHANGED <<clientVars, toWriteBuffer, toReadBuffer, writerVars,
                 internalToRead, master_read_set, maxFd, readfds, mainVars,
                 envVars>>

\* Nothing was ever to be read: no select before the next turn.
ReaderFilled ==
  /\ Running /\ reader.at = "fill" /\ toReadBuffer = <<>>
  /\ reader' = [reader EXCEPT !.at = IF maxFd > -1 THEN "select"
                                     ELSE IF timeUp THEN "done" ELSE "fill"]
  /\ UNCHANGED <<clientVars, toWriteBuffer, toReadBuffer, writerVars,
                 internalToRead, master_read_set, maxFd, readfds, mainVars,
                 envVars>>

\* A closed descriptor in the set makes select fail, and the process exit.
ReaderSelects ==
  /\ Running /\ reader.at = "select"
  /\ LET asked == {f \in master_read_set : f <= maxFd}
     IN  IF \E f \in asked : sock[f].st = "free"
           THEN exit' = "select" /\ UNCHANGED <<readfds, reader>>
           ELSE /\ readfds' = {f \in asked : Readable(f)}
                /\ reader' = [reader EXCEPT !.at = "scan", !.i = 0]
                /\ UNCHANGED exit
  /\ UNCHANGED <<clientVars, toWriteBuffer, toReadBuffer, writerVars,
                 internalToRead, master_read_set, maxFd, phase,
                 masterOrderSocket, timeUp, runs, envVars>>

\* The loop over the clients looks at i next.
ReaderAt(i) ==
  /\ Running /\ reader.at = "scan"
  /\ i \in internalToRead /\ i >= reader.i
  /\ \A j \in internalToRead : j >= reader.i => i <= j

\* Nothing to read for i: select has not answered it, or read says EAGAIN.
ReaderWaits(i) ==
  /\ ReaderAt(i)
  /\ client[i].fd \in readfds => ~ Readable(client[i].fd)
  /\ reader' = [reader EXCEPT !.i = i + 1]
  /\ UNCHANGED <<clientVars, toWriteBuffer, toReadBuffer, writerVars,
                 internalToRead, master_read_set, maxFd, readfds, mainVars,
                 envVars>>

\* Mutant: the answer is over with its header.
AnswerComplete_AtHeader(c) == TRUE

\* "If we have read headers and all data"
AnswerComplete(c) == c.bytes_read = BodyLen

\* Mutant: one request too many over each connection.
MoreRequests_OneTooMany(n) == n <= MsgPerConn

\* "We will process another request with this connection"
MoreRequests(n) == n < MsgPerConn

\* read_complete, on a client record c that has read its whole answer and a
\* kernel where the answer is consumed.
ReadComplete(i, c, kernel) ==
  LET n == c.nbRequestsOnIteration + 1
      d == [c EXCEPT !.total_resp_recv = @ + 1, !.nbRequestsOnIteration = n]
  IN  IF MoreRequests(n)
        THEN /\ client' = [client EXCEPT ![i] = ChangeState(d, "WRITING")]
             /\ sock' = kernel
             /\ stats' = [stats EXCEPT !.nb_RT = @ + 1]
        ELSE /\ client' = [client EXCEPT ![i] = ChangeState(d, "CONNECT")]
             /\ sock' = [kernel EXCEPT ![c.fd] = Socket("free")]
             /\ stats' = [stats EXCEPT !.nb_RT = @ + 1, !.nb_CRT = @ + n]

\* Mutant: the socket is not closed.
TreatError_NoClose(i) ==
  LET c == [client[i] EXCEPT !.errors = @ + 1]
  IN  /\ client' = [client EXCEPT ![i] = ChangeState(c, "CONNECT")]
      /\ stats' = [stats EXCEPT !.nb_CRT = @ + c.nbRequestsOnIteration]
      /\ UNCHANGED sock

\* Mutant: the answers of the failed connection are forgotten.
TreatError_NoCRT(i) ==
  LET c == [client[i] EXCEPT !.errors = @ + 1]
  IN  /\ client' = [client EXCEPT ![i] = ChangeState(c, "CONNECT")]
      /\ sock' = [sock EXCEPT ![c.fd] = Socket("free")]
      /\ UNCHANGED stats

\* treat_error: the connection is closed and counted as an error.
TreatError(i) ==
  LET c == [client[i] EXCEPT !.errors = @ + 1]
  IN  /\ client' = [client EXCEPT ![i] = ChangeState(c, "CONNECT")]
      /\ sock' = [sock EXCEPT ![c.fd] = Socket("free")]
      /\ stats' = [stats EXCEPT !.nb_CRT = @ + c.nbRequestsOnIteration]

\* Where the reading thread goes after read_response, by the state it returns.
AfterRead(i) ==
  reader' = [at |-> IF client'[i].state = "READING" THEN "scan" ELSE "hand",
             i |-> IF client'[i].state = "READING" THEN i + 1 ELSE i,
             fd |-> IF client'[i].state = "READING" THEN -1 ELSE client[i].fd]

UnchangedByRead ==
  UNCHANGED <<toWriteBuffer, toReadBuffer, writerVars, internalToRead,
              master_read_set, maxFd, readfds, phase, masterOrderSocket,
              timeUp, runs, envVars>>

\* read_headers takes n units: part of the header, or the header and as much
\* of the body as has come with it.
ReadHeaders(i, n) ==
  /\ ReaderAt(i) /\ client[i].fd \in readfds /\ client[i].header_length = 0
  /\ n \in 1 .. sock[client[i].fd].avail
  /\ LET f == client[i].fd
         got == client[i].bytes_read + n
         kernel == [sock EXCEPT ![f].avail = @ - n]
         c == [client[i] EXCEPT !.header_length = HdrLen,
                                !.bytes_read = got - HdrLen]
     IN  \/ /\ got < HdrLen
            /\ client' = [client EXCEPT ![i].bytes_read = got]
            /\ sock' = kernel
            /\ UNCHANGED stats
         \/ /\ got >= HdrLen /\ sock[f].bad
            /\ TreatError(i)
         \/ /\ got >= HdrLen /\ ~ sock[f].bad
            /\ IF AnswerComplete(c)
                 THEN ReadComplete(i, c, kernel)
                 ELSE /\ client' = [client EXCEPT ![i] = c]
                      /\ sock' = kernel
                      /\ UNCHANGED stats
  /\ AfterRead(i)
  /\ UnchangedByRead /\ UNCHANGED exit

\* read_content takes n units of the body.
ReadContent(i, n) ==
  /\ ReaderAt(i) /\ client[i].fd \in readfds /\ client[i].header_length # 0
  /\ n \in 1 .. sock[client[i].fd].avail
  /\ LET kernel == [sock EXCEPT ![client[i].fd].avail = @ - n]
         c == [client[i] EXCEPT !.bytes_read = @ + n]
     IN  IF AnswerComplete(c)
           THEN ReadComplete(i, c, kernel)
           ELSE /\ client' = [client EXCEPT ![i] = c]
                /\ sock' = kernel
                /\ UNCHANGED stats
  /\ AfterRead(i)
  /\ UnchangedByRead /\ UNCHANGED exit

\* read answers without a byte: an error of the connection (PANIC), the end of
\* the stream (treat_error before the header is complete, PANIC in the body).
ReadNothing(i) ==
  /\ ReaderAt(i) /\ client[i].fd \in readfds
  /\ sock[client[i].fd].avail = 0
  /\ LET s == sock[client[i].fd]
     IN  \/ /\ s.st = "reset" \/ (s.fin /\ client[i].header_length # 0)
            /\ exit' = IF s.st = "reset" THEN "reset" ELSE "eof"
            /\ UNCHANGED <<clientVars, reader>>
         \/ /\ s.st # "reset" /\ s.fin /\ client[i].header_length = 0
            /\ TreatError(i)
            /\ AfterRead(i)
            /\ UNCHANGED exit
  /\ UnchangedByRead

\* Mutant: the client keeps its mark DO_READ.
StillToRead_Kept(i) == internalToRead

\* internalToRead[i] = DO_NOTHING
StillToRead(i) == internalToRead \ {i}

\* Mutant: FD_CLR is missing.
ReadSetWithout_Kept(f) == master_read_set

\* FD_CLR(fd, &master_read_set)
ReadSetWithout(f) == master_read_set \ {f}

\* Mutant: the client is put once for each state it may be in.
GivenBack_Twice(i) == toWriteBuffer \o <<i, i>>

\* put_circ(toWriteBuffer, i), with room in the queue.
GivenBack(i) == Append(toWriteBuffer, i)

\* A client that is done reading leaves this thread: its descriptor out of the
\* set, put_circ(toWriteBuffer, i), and PANIC when it is full.  The search for
\* a new maxFd looks at maxFd - 1 only: its break is outside the if.
ReaderHands ==
  /\ Running /\ reader.at = "hand"
  /\ internalToRead' = StillToRead(reader.i)
  /\ maxFd' = IF reader.fd # maxFd THEN maxFd
              ELSE IF maxFd = 0 THEN -2
              ELSE IF maxFd - 1 \in master_read_set THEN maxFd - 1 ELSE maxFd
  /\ master_read_set' = ReadSetWithout(reader.fd)
  /\ IF Len(toWriteBuffer) < N
       THEN /\ toWriteBuffer' = GivenBack(reader.i)
            /\ reader' = [at |-> "scan", i |-> reader.i + 1, fd |-> -1]
            /\ UNCHANGED exit
       ELSE /\ exit' = "put_circ"
            /\ UNCHANGED <<toWriteBuffer, reader>>
  /\ UNCHANGED <<clientVars, toReadBuffer, writerVars, readfds, phase,
                 masterOrderSocket, timeUp, runs, envVars>>

ReaderLoops ==
  /\ Running /\ reader.at = "scan"
  /\ \A j \in internalToRead : j < reader.i
  /\ reader' = [at |-> IF timeUp THEN "done" ELSE "fill", i |-> 0, fd |-> -1]
  /\ readfds' = {}    \* not used before the next select
  /\ UNCHANGED <<clientVars, toWriteBuffer, toReadBuffer, writerVars,
                 internalToRead, master_read_set, maxFd, mainVars, envVars>>

ReaderStep ==
  \/ ReaderTakes \/ ReaderFilled \/ ReaderSelects \/ ReaderHands \/ ReaderLoops
  \/ \E i \in Clients :
       \/ ReaderWaits(i) \/ ReadNothing(i)
       \/ \E n \in 1 .. AnswerLen : ReadHeaders(i, n) \/ ReadContent(i, n)

-----------------------------------------------------------------------------
(***************************************************************************)
(* The clock, the network and the server.                                  *)
(***************************************************************************)
UnchangedByServer ==
  UNCHANGED <<client, stats, toWriteBuffer, toReadBuffer, writerVars, readerVars,
              mainVars>>

Timeout ==
  /\ Running /\ ~ timeUp
  /\ timeUp' = TRUE
  /\ UNCHANGED <<clientVars, toWriteBuffer, toReadBuffer, writerVars, readerVars,
                 phase, masterOrderSocket, exit, runs, envVars>>

Accept(f) ==
  /\ Running /\ sock[f].st = "connecting"
  /\ sock' = [sock EXCEPT ![f].st = "open"]
  /\ UnchangedByServer /\ UNCHANGED envVars

ConnectError(f, how) ==
  /\ Running /\ sock[f].st = "connecting"
  /\ Fault
  /\ sock' = [sock EXCEPT ![f].st = how]
  /\ UnchangedByServer /\ UNCHANGED replies

\* The server sends n units of the answer it owes.
Answer(f, n) ==
  /\ Running /\ sock[f].st = "open" /\ n <= sock[f].toSend
  /\ IF sock[f].toSend = AnswerLen
       THEN replies < MaxReplies /\ replies' = replies + 1
       ELSE UNCHANGED replies
  /\ sock' = [sock EXCEPT ![f].toSend = @ - n, ![f].avail = @ + n]
  /\ UnchangedByServer /\ UNCHANGED faults

\* The server starts an answer whose status is not 200.
AnswerBad(f) ==
  /\ Running /\ sock[f].st = "open" /\ sock[f].toSend = AnswerLen /\ ~ sock[f].bad
  /\ Fault
  /\ sock' = [sock EXCEPT ![f].bad = TRUE]
  /\ UnchangedByServer /\ UNCHANGED replies

\* The server closes its end, and drops what it owes.
ServerCloses(f) ==
  /\ Running /\ sock[f].st = "open" /\ ~ sock[f].fin
  /\ Fault
  /\ sock' = [sock EXCEPT ![f].fin = TRUE, ![f].toSend = 0]
  /\ UnchangedByServer /\ UNCHANGED replies

\* A reset: what has been received before can still be read.
ServerResets(f) ==
  /\ Running /\ sock[f].st = "open"
  /\ Fault
  /\ sock' = [sock EXCEPT ![f].st = "reset", ![f].toSend = 0]
  /\ UnchangedByServer /\ UNCHANGED replies

Environment ==
  \/ Timeout
  \/ \E f \in Fds :
       \/ Accept(f) \/ AnswerBad(f) \/ ServerCloses(f) \/ ServerResets(f)
       \/ \E how \in {"timedout", "refused"} : ConnectError(f, how)
       \/ \E n \in 1 .. AnswerLen : Answer(f, n)

Main == TakeOrder \/ OrderFails \/ ComputeStats \/ Report \/ ReportFails \/ Clean

\* The process has exited, or the master has no more orders.
Terminated == /\ exit # "no" \/ (phase = "order" /\ runs = MaxRuns)
              /\ UNCHANGED vars

Next == Main \/ WriterStep \/ ReaderStep \/ Environment \/ Terminated

Spec == Init /\ [][Next]_vars

(***************************************************************************)
(* Both threads poll without ever blocking, so the scheduler keeps running *)
(* them, and main is woken by the join; the server goes on accepting and   *)
(* answering as far as the bounds allow.                                   *)
(***************************************************************************)
ThreadFairness == /\ WF_vars(WriterStep) /\ WF_vars(ReaderStep)
                  /\ WF_vars(ComputeStats) /\ WF_vars(Report) /\ WF_vars(Clean)

ServerFairness == \A f \in Fds : /\ WF_vars(Accept(f))
                                /\ WF_vars(\E n \in 1 .. AnswerLen : Answer(f, n))

FairSpec == Spec /\ ThreadFairness /\ ServerFairness

-----------------------------------------------------------------------------
(***************************************************************************)
(* Types                                                                   *)
(***************************************************************************)
ClientRecords ==
  [state : {"CONNECT", "WRITING", "READING"}, fd : Fds \cup {-1},
   connect_in_progress : BOOLEAN, nbRequestsOnIteration : 0 .. MsgPerConn - 1,
   bytes_read : 0 .. AnswerLen, header_length : {0, HdrLen}, errors : Nat,
   total_resp_recv : Nat]

Sockets ==
  [st : {"free", "order", "fresh", "connecting", "timedout", "refused", "open",
         "reset"},
   toSend : 0 .. AnswerLen, avail : 0 .. AnswerLen, bad : BOOLEAN, fin : BOOLEAN]

\* Why the process may have exited.
Exits == {"no", "order", "report", "reset", "refused", "short write", "connect",
          "eof", "FD_SETSIZE", "put_circ", "socket", "select", "free"}

\* The types of the variables, with the bounds the code relies on: an answer
\* is never read past its end, and nbRequestsOnIteration is below
\* nb_msg_per_connection between two reads.
TypeOK ==
  /\ sock \in [Fds -> Sockets]
  /\ client \in [Clients -> ClientRecords]
  /\ toWriteBuffer \in Seq(Clients) /\ toReadBuffer \in Seq(Clients)
  /\ writer \in [at : {"fill", "select", "scan", "hand", "done"}, i : 0 .. N]
  /\ reader \in [at : {"fill", "select", "scan", "hand", "done"}, i : 0 .. N,
                 fd : Fds \cup {-1}]
  /\ internalToWrite \subseteq Clients /\ internalToRead \subseteq Clients
  /\ master_connect_fds \subseteq Fds /\ master_read_set \subseteq Fds
  /\ master_connect_fds_select \subseteq Fds /\ readfds \subseteq Fds
  /\ max_connect_socket \in Fds \cup {0} /\ maxFd \in Fds \cup {-1}
  /\ stats \in [DOMAIN NoStats -> Nat]
  /\ phase \in {"order", "run", "report", "clean"}
  /\ masterOrderSocket \in Fds \cup {-1}
  /\ timeUp \in BOOLEAN /\ exit \in Exits
  /\ runs \in 0 .. MaxRuns /\ replies \in 0 .. MaxReplies
  /\ faults \in 0 .. MaxFaults

-----------------------------------------------------------------------------
(***************************************************************************)
(* Who has a client: the threads never share one.                          *)
(***************************************************************************)
SeqSet(q) == {q[k] : k \in 1 .. Len(q)}
NoDuplicates(q) == \A j, k \in 1 .. Len(q) : j # k => q[j] # q[k]

WriterHand == IF writer.at = "hand" THEN {writer.i} ELSE {}

\* The clients the writing thread may touch, and the reading thread may.
WriterHas == internalToWrite \cup WriterHand
ReaderHas == internalToRead

\* During a run every client is in one place: with a thread, or once in one
\* of the two queues.  So no record or socket is ever used by both threads,
\* and none is lost.
OneOwner ==
  phase = "run" =>
    /\ NoDuplicates(toWriteBuffer) /\ NoDuplicates(toReadBuffer)
    /\ WriterHas \cap ReaderHas = {}
    /\ SeqSet(toWriteBuffer) \cap SeqSet(toReadBuffer) = {}
    /\ (WriterHas \cup ReaderHas)
         \cap (SeqSet(toWriteBuffer) \cup SeqSet(toReadBuffer)) = {}
    /\ WriterHas \cup ReaderHas \cup SeqSet(toWriteBuffer)
         \cup SeqSet(toReadBuffer) = Clients

\* A client in the hands of the writing thread has room in toReadBuffer, and
\* the other way around: PANIC "put_circ error. should be impossible" is.
HandsHaveRoom ==
  /\ phase = "run" /\ writer.at = "hand" => Len(toReadBuffer) < N
  /\ phase = "run" /\ reader.at = "hand" => Len(toWriteBuffer) < N

(***************************************************************************)
(* Select sets and sockets.                                                *)
(***************************************************************************)

\* The clients a thread waits for on a descriptor.
WriterAwaits == {i \in internalToWrite :
                   client[i].state = "WRITING" \/ client[i].connect_in_progress}
ReaderAwaits == {i \in internalToRead : client[i].state = "READING"}

\* Each thread asks select for the descriptors of all the clients it waits
\* for, never above the limit it passes, and for no one else's: a descriptor
\* closed by the other thread, or reused for another client, would make
\* select fail or answer for the wrong connection.  The reading thread still
\* has the descriptor of a client it is handing over.
SelectSetsFollow ==
  phase = "run" =>
    /\ {client[i].fd : i \in WriterAwaits} \subseteq master_connect_fds
    /\ master_connect_fds \subseteq {client[i].fd : i \in internalToWrite}
    /\ \A f \in master_connect_fds : f <= max_connect_socket
    /\ {client[i].fd : i \in ReaderAwaits} \subseteq master_read_set
    /\ master_read_set \subseteq {client[i].fd : i \in ReaderAwaits}
                               \cup (IF reader.at = "hand" THEN {reader.fd} ELSE {})
    /\ \A f \in master_read_set : f <= maxFd

\* What select has answered is still true when the loop gets to the client,
\* and about the client's present connection, whatever the other thread has
\* closed and opened in between.
AnswersStayTrue ==
  phase = "run" =>
    /\ \A i \in WriterAwaits : writer.at = "scan" /\ i >= writer.i
          /\ client[i].fd \in master_connect_fds_select => Writable(client[i].fd)
    /\ \A i \in ReaderAwaits : reader.at = "scan" /\ i >= reader.i
          /\ client[i].fd \in readfds => Readable(client[i].fd)

\* Requests go over, and answers come from, a connection that was established
\* for this client, with nothing left over from an earlier request when answers
\* have the length they announce.
OwnConnection ==
  \A i \in Clients : exit = "no" /\ phase = "run" =>
    /\ client[i].state # "CONNECT" => sock[client[i].fd].st \in {"open", "reset"}
    /\ client[i].state = "WRITING" =>
         sock[client[i].fd].toSend = 0 /\ sock[client[i].fd].avail = 0
    /\ \A j \in Clients : client[i].fd = client[j].fd /\ i # j => client[i].fd = -1

\* No socket is leaked: during a run each open one is a client's or the
\* master's, after it none is left.  The reading thread keeps a closed
\* descriptor's number only until it has taken it out of its set.
NoLeak ==
  {f \in Fds : sock[f].st # "free"} =
    IF phase = "order" THEN {}
    ELSE ({client[i].fd : i \in Clients} \ {-1})
          \cup (IF phase = "clean" THEN {} ELSE {masterOrderSocket})

(***************************************************************************)
(* Failures and numbers                                                    *)
(***************************************************************************)

\* The process exits only because of the network, the server or the master, or
\* because it has more clients than a select set has room for beside its other
\* descriptors; never because its own threads got in each other's way.
OnlyOutsideCauses ==
  exit # "no" =>
    \/ /\ faults > 0
       /\ exit \notin {"FD_SETSIZE", "put_circ", "socket", "select", "free"}
    \/ exit = "FD_SETSIZE" /\ FirstFd + N >= FdSetSize

\* No thread puts a descriptor into a select set that has no room for it, which
\* FD_SET and FD_ISSET would write and read beyond the set: neither thread
\* looks, both rely on the assertion at the socket's creation, also for
\* descriptors that come back from the other thread or are tried again.
SetsInRange ==
  \A f \in master_connect_fds \cup master_read_set : f < FdSetSize

\* "Number of maximum clients which this injector can simulate": MAX_CLIENTS,
\* which is FD_SETSIZE, and up to which check_parameters takes an order.
MaxClientsFit == N <= FdSetSize => exit # "FD_SETSIZE"

\* What a run has sent is answered, failed or still awaited; connections carry
\* at most MsgPerConn requests; and the report counts every answer once, those
\* on connections the end of the run cut short included.
Accounting ==
  LET awaited == Cardinality({i \in Clients : client[i].state = "READING"})
  IN  /\ phase = "run" /\ exit = "no" =>
           /\ stats.file_nb_req = stats.nb_RT + Total("errors") + awaited
           /\ stats.nb_RT = stats.nb_CRT + Total("nbRequestsOnIteration")
           /\ stats.nb_RT <= stats.nb_CT * MsgPerConn
      /\ phase = "report" =>
           /\ stats.global_total_resp_recv = stats.nb_RT
           /\ stats.nb_CRT = stats.nb_RT
           /\ stats.file_nb_req = stats.nb_RT + stats.global_errors + awaited

\* The closed loop the client records and the counters stand for.
Session ==
  INSTANCE LoadSession WITH
    session <- [i \in Clients |-> CASE client[i].state = "CONNECT" -> "closed"
                                     [] client[i].state = "WRITING" -> "ready"
                                     [] client[i].state = "READING" -> "waiting"],
    served <- [i \in Clients |-> client[i].nbRequestsOnIteration],
    sent <- stats.file_nb_req,
    answered <- stats.nb_RT,
    failed <- Total("errors")

\* The two threads together are N clients in a closed loop: each sends a
\* request only after the answer to the one before, MsgPerConn over each
\* connection, and the counters count exactly what was sent and answered.
ImplementsLoadSession == Session!Spec

\* "Socket is in a non-blocking mode, Continue is needed": a request that is
\* not written at once is continued, as send_request's comment says.
ShortWriteContinues == exit # "short write"

(***************************************************************************)
(* Progress                                                                *)
(***************************************************************************)
Over == timeUp \/ exit # "no"

\* A client whose whole answer has arrived gets it, until the time is up: no
\* client is forgotten in toReadBuffer or left out of the reading thread's
\* select, whatever order descriptors are handed back in.
AnswersAreRead ==
  \A i \in Clients :
    client[i].state = "READING" /\ client[i].header_length = 0 /\ phase = "run"
        /\ sock[client[i].fd].avail = AnswerLen
      ~> client[i].state # "READING" \/ Over

\* A client without a connection gets one and sends a request over it, until
\* the time is up: none is forgotten in toWriteBuffer or left out of the
\* writing thread's select, a connect that timed out included.
RequestsAreSent ==
  \A i \in Clients :
    client[i].state = "CONNECT" /\ phase = "run" ~> client[i].state = "READING" \/ Over

\* When the time is up both threads end and the run is reported, also when the
\* server has stopped answering.
RunsEnd == phase = "run" /\ timeUp ~> phase = "clean" \/ exit # "no"
=============================================================================
