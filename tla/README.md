# SLG, specified in TLA+

SLG is a distributed, closed-loop load injector for web servers.  One process
`slg_master` runs a benchmark: it orders loads of its slaves, each slave (`slg`)
simulates a number of HTTP clients for a while and reports, and the master puts
the reports into a table.  This directory holds TLA+ specifications of that
program, the TLC configurations that check them on small instances, and proofs
checked by the TLA+ proof system for every value of the constants.

The build that is modelled is the one the Makefile makes: HTTP, a single file
(`ONE_FILE`), `USE_RST`, non-blocking sockets, `CLOSE_AFTER_REQUEST` 0,
`NB_CONNECT_ATTEMPTS_MAX` 1, gcc `-O2` on x86-64.

## The system

| Part | Code | State | Operations |
|---|---|---|---|
| Queue between the threads | `circular_buffer.c` | array, `readPos`, `writePos` | `open_circ`, `put_circ`, `get_circ`, `close_circ` |
| Load injector of a slave | `slg.c` | client records and sockets, two queues, per thread: marks (`internalToWrite`, `internalToRead`), select sets and their limits; counters; `stop` times | `writingFunc` (connect, `send_request`), `readingFunc` (`read_headers`, `read_content`, `read_complete`, `treat_error`), `compute_stats`, `reset_stats`, `clean_remaing_clients_fd` |
| Daemon loop of a slave | `slg.c`, `main` | the connection of the master, the order | `waitMasterConnection`, `waitMasterOrder`, `check_parameters`, `send_stat_response` |
| Master | `slg_master.c` | number of clients, wave, iteration, connections, reports, tables of samples | `warmup_time`, `connect_to_slaves`, `send_order_to_slaves`, `read_slaves_response`, `fill_master_stat_report`, `print_stats` |
| Samples | `stats_utils.c` | arrays of samples | `insert_Lf`, averages, deviations, `percentil_average_Lf` |
| Choice of files | `slg.c` | cumulative tables | `choose_url`, `zipf` |
| Sums and report of a run | `slg.c` | times, bytes and answers of the clients and of the run | `read_complete`, `treat_error`, `compute_stats`, `send_stat_response`, `reset_stats` |
| Clock | `debug_tools.c` | - | `compare_time` |
| Configuration | `slg_master.c` | parameters | `parse_config_file`, `parse_command_line` |

How they interact:

- In a slave, three threads share memory without a lock.  The writing thread puts
  the number of a client into `toReadBuffer` when its request is sent, the
  reading thread puts it into `toWriteBuffer` when its answer is there (or the
  connection is lost).  Client records, sockets and descriptors are plain shared
  data: they are safe only because a client is in one thread's hands at a time.
  `main` starts both threads and joins them.
- Master and slave talk over one TCP connection per load: an order there, a
  report back, closed by both.  All reads block, and there is no timeout.
- The slave's sockets share one space of descriptors: a number that one thread
  has closed is the next one the other thread gets from `socket`.

What is hard, and what must hold in each part:

- **Queue.** `readPos` and `writePos` are plain `int`s, each read by the other
  thread; `get_circ` advances `readPos` in two stores when it wraps.  It must be
  a FIFO queue all the same: nothing lost, nothing twice, never full for a caller
  that holds one of the elements (the code exits if it is).
- **Injector.** A client handed over twice, or kept marked, is shared by two
  threads; one forgotten lowers the load silently.  Descriptors are closed by one
  thread, taken out of a set later, and reused by the other in between; limits of
  `select` are kept up incrementally.  Errors come at any point of a request.
  Runs follow each other in one process, and a run is cut short anywhere.
  Clients must be a closed loop, sockets must not leak, select sets must follow
  the sockets, and the counters must agree with what was sent and answered.
- **Campaign.** Slaves must load the server together and only then, each sample
  must be made of one report of each slave of the same measured load, with
  processes that stop and start again at any point.
- **Answers.** The network cuts an answer anywhere, a header may fill the buffer,
  and a server may send more or less than it announces, with any words in it.  An
  answer must be counted when it is there, neither before nor never.
- **Numbers.** A number of the table goes through unsigned sums of differences of
  a clock in two parts, a division that may be by zero, a line of text with
  buffers of different sizes at its ends, and a sorted sample that is cut.  It
  must be about one load, all of it and nothing else.

`PROJECT.json` lists these hazards line by line with the properties that cover
them.

## Modules

| Module | What it is |
|---|---|
| `BoundedFifo` | abstract: a bounded queue with atomic operations, what `circular_buffer.h` promises |
| `CircularBuffer` | `circular_buffer.c`, one step per access to shared memory; implements `BoundedFifo` |
| `CircularBufferProofs` | its invariants and the refinement, proved |
| `LoadSession` | abstract: N clients in a closed loop and the totals of a run |
| `Injector` | `slg.c` in a run: both threads, `main`, the kernel, the server; implements `LoadSession` |
| `InjectorProofs` | the hand-over between the threads, proved |
| `InjectorSocketProofs` | its sockets, select sets, types and exits, proved |
| `InjectorAccountProofs` | its counters and the refinement of `LoadSession`, proved |
| `Benchmark` | abstract: what the table of the master means, loads in lock-step |
| `Campaign` | `slg_master.c` and the daemon loop of the slaves, with processes that stop; implements `Benchmark` |
| `CampaignProofs` | its types, samples and tables, and with one master the loads in step and the refinement of `Benchmark`, proved |
| `TimeArith` | `compare_time` of `debug_tools.c`, in unsigned words |
| `ClientRun` | the clients of a run, tick by tick and byte by byte: what its report is about |
| `ClientRunProofs` | the clock, and a run's types, times and answers, proved |
| `LineTransfer` | a line written and read in pieces: an order or a report |
| `StatsSample` | `stats_utils.c`: sums and the cut of a sample |
| `Measurement` | composes the four: from the bytes of answers to the table of a wave |
| `MeasurementProofs` | its lines, what the master reads of a load, and its table, proved |
| `MCMeasurement` | `Measurement` with answers and reports to check it with |
| `SumTheorems` | sums of a field over the clients, for the proofs |

How they fit together: `CircularBuffer` justifies the atomic queues of `Injector`;
`Injector` justifies that a client's steps are atomic in `ClientRun` (`OneOwner`)
and that runs end, as `Campaign` assumes; `Measurement` has within one connection
what `Campaign` abstracts to a message, and `Campaign` has the connections,
processes and waves that `Measurement` leaves out.

Definitions have the names of the functions and variables they stand for;
`PROJECT.json` maps each to its lines.  Definitions that a comment calls a mutant
are plausible mistakes in the definition that follows: they are used nowhere in
the specifications, and each is there because one of the properties finds it.

### `CircularBuffer`

A call is in progress in `put` (`idle`, `store`, `publish`) and one in `get`
(`idle`, `load`, `advance`, `wrap`).  `PutCheck` reads `readPos`, `PutStore`
writes the slot, `PutPublish` writes `writePos`; `GetCheck` reads `writePos`,
`GetLoad` the slot, `GetAdvance` and `GetWrap` store `readPos`.  Stores become
visible in the order of the machine code (x86).  Two constants describe the use:

- `SplitWrap`: the build stores `readPos` twice when it wraps, so that
  `readPos = size` can be seen for a while.  gcc does that with the Makefile's
  flags.
- `TokenBounded`: at most `Cap` elements are between the start of a `put_circ`
  and the return of the `get_circ` that takes them out.  This is how `slg.c` uses
  its queues: clients are the elements, `nb_clients` the capacity, and `Injector`
  shows (`OneOwner`) that a client is never in two places.

The queue that the words stand for is `[k \in 1 .. Used |-> buffer[SlotAt(k - 1)]]`,
from the oldest slot up to `writePos`, where `readPos = size` counts as 0.

### `Injector`

A step is a system call, a queue operation, or the local work up to the next one.
The two queues are sequences with atomic operations: `CircularBuffer` justifies
that.  `writer.at` and `reader.at` say where each thread is: `fill` (moving
clients from its queue to its marks), `select`, `scan` (the loop over the clients,
with the index `i`), `hand` (about to call `put_circ`), `done`.  The kernel is
`sock`: what each descriptor stands for, how much of an answer is owed, how much
can be read, whether the other end is closed.  `socket` returns the lowest free
descriptor, as POSIX says.

- `PANIC`, `exit` and a failed `assert` set the variable `exit` to a reason; nothing
  moves after.
- `FdSetSize` is `FD_SETSIZE`: `init_client_socket` asserts that a new descriptor is
  below it (`HasFd`).  A lower limit of the operating system on open files, which
  makes `socket` fail, is one of the errors from outside.
- `select` fails if a descriptor asked for is closed: the reading thread then
  exits, the writing thread does not look and takes its whole set for the answer.
- The reading thread's search for a new `maxFd` stops after one step (its `break`
  is outside the `if`), so `maxFd` is an upper bound that seldom comes down.
- `max_connect_socket` and the number `masterOrderSocket` keep their values from
  run to run.

An answer is counted in units, `HdrLen` of header and `BodyLen` of body, that a
read takes any number of.  Answers have the length they announce here: what
`OwnConnection` says rests on that, and bytes in excess are in `ClientRun`.
Errors are chosen by the environment, at most `MaxFaults` of them: a connect that
times out, is refused or is to be retried, a status other than 200, a closed or reset
connection, a short write, a master that goes away.

Left out: times and byte counters, which are in `ClientRun`; the text of requests
and answers; `pthread_create` failing, signals.

### `Campaign`

`master.at` is where `main` of the master is (`wave`, `connect`, `send`, `read`,
`fill`, `end`), with the slave `i`, the iteration, and whether it is the warm-up.
`slave[s].at` is where the daemon is (`accept`, `order`, `run`, `report`,
`clean`, or `dead`).  `link[s]` is the sequence of connections made to `s`, of
which it has accepted `accepted[s]`: the rest is in the backlog.  A connection
holds the order sent, the report sent, and which ends are open.  When a process
ends, the kernel closes its ends.  Reading from a closed connection that holds no
message ends the reader (`exit` or `PANIC`, on both sides); a write to one may
succeed or end the writer.

`round` numbers the loads and goes with the orders.  It is not in the messages:
it lets properties tell whether a report is for the present load.

Left out: messages in several parts and the values of a report, which are in
`Measurement`; the sleep between loads.  `nb_clients_min <= nb_clients_max` and
`step > 0` are assumptions of the module that the code does not check (`step` 0 divides
by zero).

### `ClientRun`

`client[i]` is the client record: `state`, `bytes_read`, `header_length`,
`content_length`, the counters and the three start times.  `stats` holds the sums
(`avgCT`, `nb_CT` and so on, as in `slg.c`), `now` the clock.  `net[i]` is what the
kernel has for the client: the text that will be read, which may begin with what
earlier answers had in excess.

Text is a sequence of units.  A unit stands for one byte and says which of the words
that `read_headers` looks for end there: the empty line, `200 OK`,
`Content-Length:` with the number behind it, or the 0 at which `strstr` stops.  An
answer is a header and a body of any such text; `Answers` says which ones the server
may give, and nothing makes it honest.  A read returns any number of the units on
their way that fits the buffer (`Pieces`), nothing (`ReadNothing`, `EAGAIN`), or
the end (`ReadEof`).  `read_headers` searches the three words in all of
`read_hdr_buf`, each for itself and from its beginning (`StrStr`, `Has`, `FirstAt`),
also in bytes in excess of the answer before; `header_length` ends at the first empty
line found, and `content_length` is what `Atoi` makes of the number behind the first
`Content-Length:`.  `atoi` is `strtol` made an `int`, and the `int` becomes an
`unsigned int`: up to 2^32 - 1 a length is right, from there on it is another one
(`UInt` is 2^32).

An answer is misleading (`Misleads`) if it may be taken for another one than it is: no
proper header, more body than announced, more announced than an `unsigned int` holds,
or a failure with `200 OK` in its body.  `odd` remembers that a connection has had
one.  `Word` is the number of values of an `unsigned long`: `compare_time` and
`total_bytes_recv` wrap around there.

`took` and `taken` are history: what was really done, how long it really took and
how many bytes were read.  Nothing in the model reads them but the properties.

### `Measurement`

`slaveAt` is where `main` of the slave is in its loop (`order`, `load`, `report`,
`reset`), `masterAt` where `main` of the master is in a wave (`send`, `read`,
`fill`, `print`, `end`).  `order` and `report` are lines on their way: a byte is
its position in the line, so that a line spoilt on the way is told from a whole
one.  The order has a length and no contents (`Campaign` has those), the report
has its values in `said`, as `%Lf` prints them: rounded to `1 / Scale`
microseconds, `NaN` for 0/0, `Inf` for x/0.  `Atol` is what the master makes of an
integer that is too large.

The slave modelled in full is the first; the others' reports are any of
`OtherReports`.  An element of the sample is kept as the sum over the slaves, which
differs from what is inserted by the division by `nbSlaves`; so are the rates,
before their division by the time that the master has waited.  `PrintStats`
averages one column, any of them.

## What is checked

| Run | Instance | States | What it shows |
|---|---|---|---|
| `ring_tokens` | capacity 3, 2 values, split store, token discipline | 10^3-10^4 | FIFO refinement, never full, no race on a slot, elements accounted for |
| `ring_onestore` | capacity 3, 2 values, single store, any use | 10^3-10^4 | FIFO refinement, a full queue included |
| `ring_anyuse` | capacity 2, split store, any use | violation | finding 1 |
| `injector_faults` | 2 clients, 2 requests a connection, 3 answers, 1 error | 905,362 | the safety properties and the refinement of `LoadSession` |
| `injector_reruns` | 3 clients, 2 requests a connection, 2 runs, 3 answers, header in 2 parts, empty body | 2,732,213 | hand-over and select limits with three descriptors, nothing of a run is left to the next |
| `injector_progress` | 2 clients, 2 answers, 1 error, fair | 210,157 | no client is forgotten, the run ends |
| `injector_manyclients` | as many clients as a select set has room for | violation | finding 4 |
| `injector_shortwrite` | as `injector_faults` | violation | finding 2 |
| `campaign_benchmark` | 3 slaves, 2 waves of a warm-up and 2 iterations, 1 kill, 1 failure | 64,000 | lock-step, one load per sample, tables, refinement of `Benchmark` |
| `campaign_restarts` | 2 slaves, 2 masters, the second wave over `MAX_CLIENTS`, fair | 64,670 | a second master is not disturbed by what the first has left; all come to an end |
| `campaign_failedorder` | 2 slaves, 1 kill | violation | finding 3 |
| `measurement` | 2 slaves, a wave of 3 loads, 3 answers of 12 kinds, 1 fault, 1 tick | 4,084,430 | honest servers are served, answers counted when whole, averages and totals of one load, lines whole, the cut |

Properties of the queue:

- `Accounted`, `PutNeverFails`: elements stored and in transit are those in
  circulation, and a caller that holds one finds room, while the other thread is
  at any point of its call.
- `NoSlotRace`: the two threads never access one slot at one time.
- `ImplementsFifo`: each call has the answer and the effect of an atomic one.

Properties of the injector:

- `OneOwner`: each client is with one thread, or once in one queue.
- `HandsHaveRoom`: `put_circ` finds room, so its `PANIC` is indeed "impossible".
- `SelectSetsFollow`: each thread waits for the descriptors of exactly the
  clients it should, and never above the limit it passes to `select`.
- `AnswersStayTrue`: what `select` answered is true, and about the same
  connection, when the loop gets to the client.
- `OwnConnection`: a client sends over a connection of its own with nothing left
  over from an earlier request.
- `NoLeak`: the open sockets are those of the clients and the master.
- `OnlyOutsideCauses`: the process exits only after an outside error, or because its
  clients and other descriptors are more than a select set has room for (finding 4);
  never for a full queue, a missing descriptor, a failed `select` or a closed
  descriptor.
- `Accounting`: requests sent are answered, failed or awaited; requests on closed
  connections, and on those the end of the run cuts short, add up to the answers.
- `ImplementsLoadSession`: both threads together are N clients in a closed loop.
- `AnswersAreRead`, `RequestsAreSent`, `RunsEnd`: progress.

Properties of the campaign:

- `LoadsInStep`: slaves that load the server at one time run the order of the
  present load, and a living master is collecting reports meanwhile.  This is a
  property of one master (`campaign_benchmark`): one that is started again may
  begin while a slave still runs the order of the master before.
- `SamplesAreOneLoad`: a sample is one report of each slave, of one measured load
  with the number of clients of its wave, and no load is counted twice.
- `TablesFit`: indices are in range, `insert_Lf`'s assertion holds, and a wave
  has all its samples when it is printed.
- `ImplementsBenchmark`: the orders and reports are the benchmark of `Benchmark`.
- `CampaignEnds`, `SlavesComeBack`: a master always ends, a slave that serves one
  waits for the next one afterwards (or has exited).

Properties of the measurement:

- `HonestAnswersServed`: on a connection without a misleading answer, a client that has
  read all there is waits for an answer that is owed or for the rest of a body that is
  shorter than announced; and the process gives up on a header only if it is too
  long, on the end of a connection only if such a rest is missing, and never on a
  length.
- `AnswersWhole`: on such a connection an answer is counted exactly when its header
  and the announced bytes of its body are read.  After a misleading answer nothing is
  claimed: an empty line in the excess ends the next header there and the client may
  wait for ever, a number there is taken for its length, and a second response for its
  answer.
- `AveragesRight`: the times and counts that the master has read are those of the load
  it has ordered, also across a second and with connections cut short, and `avgCT` and
  `avgRT` are averages over all its connects and answers.  `avgCRT` is no average of
  anything that took time: it is the time of the connections that have ended, divided
  by the number of all answers (`slg.c:1477-1482`), those of connections that the end of
  the load has cut short included, whose time is in no sum.  All three are over all of
  the sample (see the remarks below).
- `BytesCounted`: the bytes reported are those read, less one for every read that
  found nothing (`slg.c:1153`), and of a total below zero the master makes the
  largest `long`.  This states what the code does: the error is one byte per
  `EAGAIN`, and only a load without any answer shows it.
- `LinesWhole`: a line that is taken for whole is the line that was written; only
  one that does not fit is lost.
- `TableHolds`: a printed average is over one value of each load, cut at both ends
  so that at least the share `percent_stats_kept_master` and at most two values
  more are left, and what is kept is the middle, unless a `NaN` is among the values.

### Bounds

- Capacity 3 of the ring is the least with a first, an inner and a last slot that
  differ; both positions wrap many times.  Proofs cover all capacities.
- Two clients are enough for one thread to close, and the other to reuse, a
  descriptor, and for the two queues to hold all clients or none; two requests a
  connection give a first and a last.  `injector_reruns` adds a descriptor between
  two others.  Three answers let a client go round its connection once and begin
  another while the other client is in any state.
- `MaxReplies` bounds the server and not the program: the clients stay as they are
  when it falls silent.  `MaxFaults` 1 covers each single error at every point.
- Two waves and two iterations give each loop of the master a first and a last
  turn.  Two masters and one kill let a slave hold a connection of a dead master
  at every point of its loop.

- In `measurement`, one client is enough: clients share nothing but sums, and the
  proofs cover any number.  Two requests a connection give a first and a last one,
  and a connection on which excess bytes meet the next answer.  Buffers hold 2
  (header) and 3 (lines) units: answers and orders are shorter, as long, and
  longer than they are.  Misleading answers have in excess nothing of interest, a 0,
  an empty line or a whole response; `UInt` 16 lets an announced 17 become 1.
  `Second` 3 and `Start` 14 let the one tick cross a second, and `Word` 64 is above all
  sums, so that what wraps around is a difference.  Three loads are the least of which a cut (`Percents` 33) leaves the
  middle.  One fault is a dishonest answer, a closed connection or a read that
  finds nothing, at any point.

### Fairness

`ThreadFairness` is weak fairness of each thread and of `main` after the join:
both threads poll (`select` with a zero timeout) and never block, so a scheduler
runs them again and again.  `ServerFairness` says that the server accepts a
pending connection and goes on with an answer, up to `MaxReplies`.  The timer
need not fire: `AnswersAreRead` and `RequestsAreSent` speak of the time before
it, `RunsEnd` of the time after it, also when the server has stopped answering.

In `Campaign`, weak fairness says that a process that can go on does, which
includes that a run ends (`RunsEnd` of `Injector`).  Kills, failures and restarts
are not fair: they may happen or not.

## What is proved

For every capacity and set of elements (`CircularBufferProofs`):

- `TypeCorrect`, `AccountedCorrect`, `PutNeverFailsCorrect`, `NoSlotRaceCorrect`,
  `RingImplementsFifo`, from `SafeUse`: the token discipline is kept, or the build
  stores `readPos` once.  Without it the refinement is false (finding 1).  The
  theorem is thus also the condition under which the header's claim is right.
- The inductive invariant `IInv` is `TypeOK` and `Accounted` with four facts that
  tie the program counters to the positions: `readPos = size` exactly between the
  two stores (`WrapInv`), a call that has passed its check still has its slot
  (`RoomInv`), what the producer stored is in the slot it will publish
  (`PutInv`), what the consumer loaded is in the slot it will free (`GetInv`).
  `Accounted` alone is not inductive: that `PutPublish` keeps it needs that there
  is still room, which the check established two steps before.

For every number of clients and every environment (`InjectorProofs`):

- `OneOwnerCorrect` and `HandsHaveRoomCorrect`, from `OwnerInv`: `OneOwner` with
  `Shape` (the queues are sequences of clients, the marks sets of clients) and
  `Hands` (a thread that hands a client over has it in its hand, and a reading
  thread still has it marked).
- That `put_circ` finds room is a pigeonhole argument: a sequence of clients
  without duplicates that misses one of them is shorter than N
  (`RoomForOneMore`).

For every number of clients, every number of requests, runs and errors and every
behaviour of the server (`InjectorSocketProofs`):

- `TypesCorrect`, `SelectSetsCorrect`, `AnswersCorrect`, `OwnConnectionCorrect`,
  `NoLeakCorrect` and `OnlyOutsideCausesCorrect`, from `SocketInv`.  Its core,
  `ThreadsInv`, has four parts: `OwnerInv`; `KernelInv`, which says what each state of
  a client promises of its record and its socket, that no two clients have one
  descriptor and that nothing leaks; and `WriterInv` and
  `ReaderInv`, which say of each thread in which states its clients are, that its
  set and its limit follow them, and that what `select` has told it is still so.
- None of the six is inductive.  That an answer of `select` stays true while the
  other thread closes and opens descriptors needs `OwnFds` and `OneOwner`: a step
  of a thread changes one client that is its own, and a socket that is that
  client's or that nobody had.  The part of the other thread does not see such a
  step, which is a lemma for each thread (`WriterUnaware` and its like) and
  spares the proof the product of both threads' steps.
- The same facts rule out each reason for an exit that would come from inside, but
  one, which is `OnlyOutsideCauses`: open sockets are at most the clients' and the
  master's, so that the lowest free number is below `FirstFd + N + 1`, and the
  assertion on it fails only if that is more than the set has room for.
- `SetsInRangeCorrect`, from `RangeInv`: no descriptor is put into a select set that has
  no room for it, whichever thread has its client, although only `init_client_socket`
  looks.  The runs do not check this one: a process that lacks room ends before its
  clients are connected (`injector_manyclients`).

For the same (`InjectorAccountProofs`):

- `AccountingCorrect`, from `CountsInv`, which has one part for each phase in which
  the counters mean something (`RunCounts`, `ReportCounts`, `NoCounts`).
  `Accounting` compares counters of the run with sums over the clients;
  `RunCounts` adds how many clients have a connection or wait, so that each step
  moves one client from one sum to another.
- `ImplementsLoadSessionCorrect`: initial states map to initial states and each
  step of either thread, of `main`, the kernel and the server to a step of
  `LoadSession` or to none.

`SumTheorems` has what these proofs, and those of `Measurement`, need of the sum of
a field over a finite set: a sum exists, does not depend on the order, changes with
one of its terms by that term, and is zero, bounded or equal to another when all
terms are.  The library's induction theorems take an operator as parameter, so the
lemma `SubsetInduction` states induction over the subsets of a finite set with a set
in the place of the predicate; it is proved from the least size of a counterexample.

For every number of slaves, every configuration of the benchmark and any number of
kills, failures and restarts (`CampaignProofs`):

- `CampaignTypeCorrect`, `SamplesAreOneLoadCorrect` and `TablesFitCorrect`, from
  the inductive `IInv`: `TypeOK` and `SamplesAreOneLoad` with five parts that
  follow a load from the order to the table.  The latest
  connections hold the present order exactly as far as the master has got with
  sending it (`Sent`); a slave answers over
  a connection with the order of that connection (`Reported`); hence what the
  master has collected is of its present order (`Collected`), and newer than all
  samples in the table (`Older`).  `SamplesAreOneLoad` alone is not inductive: it
  does not know what is under way.
- `Counters` ties the number of samples to the three loop counters and `nb_clients`
  to the wave.  `WavesCounted` is the arithmetic behind it: the division that sizes
  the table answers the number of turns of the loop that adds `step`, for all
  `nb_clients_min <= nb_clients_max` and `step > 0`.
- With one `slg_master` (`MaxMasters = 1`), `LoadsInStepCorrect` and
  `ImplementsBenchmarkCorrect`, from `LoadInv`: a connection that is not served to
  the end has no report and all others have one (`Unreported`, `AllReported`), which
  is why no slave can be at an earlier load; orders of earlier loads are older
  (`Rounds`); and the loop counters tell which load of the benchmark it is
  (`Position`).  Both are false for a master that is started again while slaves
  still run the order of the one before, so the hypothesis is not a convenience.

For every number of clients, buffer size, set of answers (failures and misleading
ones included) and cutting into pieces (`ClientRunProofs`):

- `RunIsTyped`, `SumsAreTheTimes`, `ClientsServeHonestAnswers` and
  `CountedAnswersAreWhole`, from the inductive `IInv`.  Its core is `ReadingOK`,
  which says what `bytes_read` counts while a client reads over a connection without
  a misleading answer: all bytes of the buffer before the empty line has been found
  (`HeaderOK`), those of the body after it (`BodyOK`), and how that relates to what is
  left in the connection.  That what `strstr` finds in the buffer is of the present
  answer follows from there: the buffer is a beginning of its header and body.
  `HonestAnswersServed` alone is not inductive: that no client waits in vain
  needs that the bytes read and those to come add up.  `TimesOK` says that a start
  time is not in the future and less than a word away; `CompareTimeIsRight` then
  gives that each difference is the time that passed.
- `CompareTimeIsRight` and `ClockDifference`, for every width of a word and length
  of a second.

For every number of clients, slaves and loads, every set of answers and every length
of orders, reports and buffers (`MeasurementProofs`):

- `LinesArriveWhole`, from `LinesOK`: buffer, connection and what is not yet
  written are, one after the other, the line.
- `EveryLoadServesHonestAnswers` and `EveryLoadCountsWholeAnswers`, from `LoadOK`:
  the part of `IInv` without the sums holds in every load of a wave, whatever the
  load before has left.
- `AveragesRightCorrect` and `BytesCountedCorrect`, from `WaveInv`: `LoadOK` and
  `LinesOK` with `Turns` and `Known`.  `Turns` says that a master waits for the report
  before it orders again and a slave for the order before it loads, so order and
  report keep the two in step.  `Known` says what is known of the load at each of
  their turns: while it runs, the books agree with what was done (`Agree`: sums over
  the clients' counters, the bytes modulo a word, and never more than the server
  and the faults have provided for); from `compute_stats` until the master has
  filled its table, the report tells of it (`Told`).
- Both have the hypothesis `LoadIsShort(len)`: no answer is longer than `len`, and
  ticks, and answers times `len` with faults, are each less than half a word, 2^63 on
  this machine.  It is needed: `atol` ends there, and a time beyond a word
  wraps around.
- `TypesAreRight` and `TableHoldsCorrect`, from `Typed`, whose part `SamplesOK` says
  that all columns grow by one value a load until there is one for each.
  `TableHolds` needs of sorting only that it is a bijection onto an ordered sequence.
- `CutsKeepTheShare`, for every size of a sample: the cut leaves at least one value,
  at least the share asked for, and at most two values more.  Rounding each end down
  leaves less than two more; exactly two are left where the share of a sample of 150
  values or more should be a whole number and the `float` is just below it.  That
  size is out of reach of a run, whose samples are of three.

The assumptions are the named ones on the constants.  Of `Measurement` these are that
lines and samples have a length, that the reports of the other slaves are reports,
that a report fits the buffer of `send_stat_response` (it asserts that), and that a
word has more than one value, because a `long` is signed.  `InjectorProofs` assumes
that queue operations are atomic; `RingImplementsFifo` gives that under
`TokenBounded`, which `OneOwner` gives.

Every invariant and action property and every refinement of the passing runs is
stated by one of these theorems.  Only model-checked are the liveness properties:
`AnswersAreRead`, `RequestsAreSent`, `RunsEnd`, `CampaignEnds` and `SlavesComeBack`
rest on fairness, that is on `ENABLED`, which is out of the prover's reach.
`LoadsInStep` and the refinement of `Benchmark` are claimed for one master only.  The
findings are counterexamples, which TLC gives.

## Findings

1. **The ring is not safe for any one producer and one consumer.**
   `circular_buffer.h:27-28` promises it.  With the two stores of
   `circular_buffer.c:76-77` the producer can see `readPos = size`, and then
   misses that the queue is full: `writePos` catches up with `readPos` and all
   elements are lost.  `slg.c` is not affected, because it never calls `put_circ`
   on a full queue (run `ring_tokens`).  Run: `ring_anyuse`.
2. **A short write is not continued.**  Comments at `slg.c:1062` and
   `slg.c:1591` say that a request that is not written at once is continued in
   the write thread; `slg.c:1600` calls `PANIC` instead.  Run:
   `injector_shortwrite`.
3. **A slave does not outlive a failed order.**  `slg.c:2096` says "if order
   fails, we continue"; `waitMasterOrder` calls `exit(-1)`.  Run:
   `campaign_failedorder`.
4. **The largest number of clients does not fit.**  `slg.h:55-56` calls `MAX_CLIENTS`,
   1024, the "number of maximum clients which this injector can simulate", and
   `check_parameters` takes an order for so many (`slg.c:1431`).  A select set has room
   for 1024 descriptors, and the process has others than those of clients: the last
   clients' sockets fail `assert(client->fd < FD_SETSIZE)` (`slg.c:583`).  Run:
   `injector_manyclients`.

Two more comments do not say what the code does.  They have no run of their own; the
properties state the code's side:

- `slg.c:1447` says of `compute_stats` "Value are computed only on 80% of the sample".  It
  divides the sums over all connects and answers (`slg.c:1475-1484`), as `AveragesRight`
  says.  Only the master cuts a sample, of loads and not of answers.
- `slg.c:1301` and `slg.c:1361` say "Ok the request has been answered correctly".
  `read_headers` searches all of `read_hdr_buf` (`slg.c:1230`), and a whole second response
  in what a server has sent in excess of its `Content-Length` is counted for a request
  that it has not answered.  `AnswersWhole` excepts connections with such an answer.

## What is not modelled

- The memcached protocol (experimental).
- A word or number of a header that is split between two reads or two answers: a unit
  of text is whole.  Split between two reads it is found all the same, with the next
  read, as the search is always from the beginning of the buffer; a word whose two
  parts come from two answers could mislead as one in the excess does.  The
  terminating 0 that `slg.c:1186` may write one past `read_hdr_buf` lands in
  `read_content_buf`, a pointer that is NULL and not used in this build.
- The division of the rates by the master's duration, the formula of the
  deviation, and the functions of `stats_utils.c` that nothing calls.
- `send_order_to_slaves` writes the order from its start again after a short write
  (`slg_master.c:759`): a blocking socket takes an order at once.
- Nothing is checked of `global_minCT` and `global_maxCT`: the run keeps them up to
  date, `compute_stats` sets them to `(unsigned long) -1` and 0 when the run is over
  (`slg.c:1460-1461`), so that every report holds these two values (`ComputeStats`
  has them), and the master reads them and never uses them.
- A slave whose machine stops without closing its connection: the master waits for
  ever, there is no timeout that could be modelled.
- `choose_url` with its tables and `zipf`: random, and not compiled in this build.
- The text of requests, the command line and the configuration file: read once,
  before anything else happens.

## Plan

In this order; each module with its runs, and with proofs where they say more than
the runs:

1. Done: `BoundedFifo`, `CircularBuffer` with proofs; `LoadSession`, `Injector`
   with the proof of the hand-over; `Benchmark`, `Campaign` with the proof of its
   samples and tables.
2. Done: `TimeArith`, `ClientRun`, `LineTransfer`, `StatsSample` and `Measurement`, which
   composes them, with proofs of what they compute.
3. `Campaign`: 32-bit waves, with `step` and the bounds unchecked.
4. `HandOff`: two rings composed with the threads that use them, so that the
   token discipline is discharged within one specification.
5. Done: proofs of all safety properties and refinements of the passing runs.
