----------------------------- MODULE Measurement -----------------------------
(***************************************************************************)
(* How a number gets into the table of slg_master: from the socket of a    *)
(* client, through the sums of its slave, a line of text and the samples   *)
(* of the master.  For every load of a wave                                *)
(*                                                                         *)
(*   the master writes an order, LineTransfer;                             *)
(*   the slave reads it and lets its clients load the server, ClientRun;   *)
(*   compute_stats makes averages of the sums;                             *)
(*   send_stat_response writes the report, LineTransfer again;             *)
(*   the master reads it, adds the reports of all slaves and inserts them  *)
(*   into the samples of the wave, StatsSample, which are printed after    *)
(*   the last load.                                                        *)
(*                                                                         *)
(* One slave is modelled in full, the reports of the others may be any of  *)
(* OtherReports.  Connections, waves and processes that stop are           *)
(* Campaign.tla.                                                           *)
(***************************************************************************)
EXTENDS ClientRun, LineTransfer, StatsSample

CONSTANTS Scale,         \* parts of a microsecond that %Lf prints
          OrderCap,      \* MASTER_ORDER_BUFFER_SIZE of the slave
          OrderLens,     \* how long an order may be
          ReportCap,     \* RESPONSE_SIZE of the master
          ReportLen,     \* how long the report is
          NbSlaves,      \* nb_slaves
          OtherReports,  \* what the other slaves may report
          Iterations,    \* nb_iterations_in_a_wave
          Percents       \* what percent_stats_kept_master may be

\* What a line may report.
Words == 0 .. Word - 1
ReportType == [totalTime : Words, bytes_recv : Words, resp_recv : Nat,
               avgCT : Values, avgRT : Values, avgCRT : Values, minCT : Words,
               maxCT : Words, errors : Nat]

ASSUME MeasurementAssumption ==
  /\ Scale \in Nat \ {0}
  /\ OrderCap \in Nat \ {0} /\ OrderLens \subseteq Nat \ {0}
  /\ ReportCap \in Nat \ {0}
  /\ ReportLen \in 1 .. ReportCap - 1    \* send_stat_response asserts it
  /\ NbSlaves \in Nat \ {0} /\ OtherReports \subseteq ReportType
  /\ Iterations \in Nat \ {0}
  /\ Percents \subseteq 1 .. 100

VARIABLES
  slaveAt,       \* slg's main: reading an order, at a load, reporting, resetting
  masterAt,      \* slg_master's main: sending, reading, filling, printing
  order,         \* the order on its way
  report,        \* the report on its way
  said,          \* what the report says
  start_time,    \* when the load began
  global_total,  \* global_total_bytes_recv and global_total_resp_recv
  slaves_stats,  \* the reports of the load, as the master has read them
  master_stats,  \* the samples of the wave
  row,           \* what one of the printed averages is made of
  took_time      \* history: how long the load really took

slaveVars == <<slaveAt, said, start_time, global_total, took_time>>
masterVars == <<masterAt, slaves_stats, master_stats, row>>
allVars == <<vars, slaveVars, masterVars, order, report>>

NoReport == [totalTime |-> 0, bytes_recv |-> 0, resp_recv |-> 0, avgCT |-> 0,
             avgRT |-> 0, avgCRT |-> 0, minCT |-> 0, maxCT |-> 0, errors |-> 0]

\* The columns of the table.
Columns == {"totalTime", "bytes_recv", "resp_recv", "avgCT", "avgRT", "avgCRT",
            "errors"}
EmptySamples == [c \in Columns |-> <<>>]
NoRow == [col |-> "none", percent |-> 0, kept |-> <<>>]

MeasurementInit ==
  /\ Init
  /\ slaveAt = "order" /\ masterAt = "send"
  /\ order = NoLine /\ report = NoLine
  /\ said = NoReport /\ start_time = Timeval(0)
  /\ global_total = [bytes |-> 0, resp |-> 0]
  /\ slaves_stats = <<>> /\ master_stats = EmptySamples /\ row = NoRow
  /\ took_time = 0

-----------------------------------------------------------------------------
(***************************************************************************)
(* The slave                                                               *)
(***************************************************************************)

\* waitMasterOrder: a read, or the end because the buffer is full.
ReadOrder ==
  /\ slaveAt = "order"
  /\ \/ /\ \E k \in ReadSizes(order, OrderCap) : order' = Got(order, k)
        /\ UNCHANGED exit
     \/ /\ ReadsNoMore(order, OrderCap)
        /\ order' = GivenUp(order)
        /\ exit' = "order"
  /\ UNCHANGED <<now, client, net, stats, took, taken, used, slaveVars,
                 masterVars, report>>

\* What init_clients makes of the sums: the others are reset_stats' part.
InitStats(st) == [st EXCEPT !.avgCT = 0, !.nb_CT = 0, !.avgRT = 0,
                            !.nb_RT = 0, !.avgCRT = 0, !.nb_CRT = 0]

\* The order is there.  One that fills the buffer fails the assertion; else
\* init_clients is called, and the load begins.
TakeOrder ==
  /\ slaveAt = "order" /\ order.at = "whole"
  /\ \/ /\ Len(order.buf) >= OrderCap
        /\ exit' = "assertion"
        /\ UNCHANGED <<client, net, stats, took, taken, slaveVars, order>>
     \/ /\ Len(order.buf) < OrderCap
        /\ slaveAt' = "load"
        /\ order' = NoLine
        /\ start_time' = Timeval(now)
        /\ client' = [i \in Clients |-> NewClient]
        /\ net' = [i \in Clients |-> NewConnection]
        /\ stats' = InitStats(stats)
        /\ took' = NothingTook /\ taken' = NothingTaken /\ took_time' = 0
        /\ UNCHANGED <<exit, said, global_total>>
  /\ UNCHANGED <<now, used, masterVars, report>>

\* readingFunc and writingFunc do their work.
Load == /\ slaveAt = "load"
        /\ Next
        /\ UNCHANGED <<slaveVars, masterVars, order, report>>

\* a / nb as a long double, printed with %Lf: rounded to a whole number of
\* parts, ties to the even one.
Rounded(a, nb) ==
  LET q == a \div nb
      r == a % nb
  IN  IF 2 * r > nb \/ (2 * r = nb /\ q % 2 = 1) THEN q + 1 ELSE q

\* sum / nb: a number, nan or inf on the line.
Mean(sum, nb) == IF nb # 0 THEN Rounded(sum * Scale, nb)
                 ELSE IF sum = 0 THEN NaN
                 ELSE Inf

\* The clients' counters in one.
Total(field) == MapThenSumSet(LAMBDA i : client[i][field], Clients)

\* Both threads have ended: compute_stats, and the line is formatted.  The
\* answers of connections that are still open count for the average of CRT.
ComputeStats ==
  /\ slaveAt = "load" /\ exit = "no"
  /\ LET bytes == (global_total.bytes + Total("total_bytes_recv")) % Word
         resp == global_total.resp + Total("total_resp_recv")
         nb_CRT == stats.nb_CRT + Total("nbRequestsOnIteration")
     IN  /\ global_total' = [bytes |-> bytes, resp |-> resp]
         /\ said' = [totalTime |-> Elapsed(start_time),
                     bytes_recv |-> bytes, resp_recv |-> resp,
                     avgCT |-> Mean(stats.avgCT, stats.nb_CT),
                     avgRT |-> Mean(stats.avgRT, stats.nb_RT),
                     avgCRT |-> Mean(stats.avgCRT, nb_CRT),
                     minCT |-> Word - 1, maxCT |-> 0,
                     errors |-> Total("errors")]
  /\ took_time' = TrueElapsed(start_time)
  /\ report' = NewLine(ReportLen)
  /\ slaveAt' = "report"
  /\ UNCHANGED <<vars, start_time, masterVars, order>>

\* send_stat_response, a write.
WriteReport ==
  /\ slaveAt = "report"
  /\ \E k \in WriteSizes(report) : report' = Wrote(report, k)
  /\ slaveAt' = IF report'.written = report.len THEN "reset" ELSE slaveAt
  /\ UNCHANGED <<vars, said, start_time, global_total, took_time,
                 masterVars, order>>

\* Mutant: the totals go on with the next load.
ResetTotal_Kept == global_total

\* What reset_stats makes of the totals.
ResetTotal == [bytes |-> 0, resp |-> 0]

\* clean_remaing_clients_fd and reset_stats.
ResetStats ==
  /\ slaveAt = "reset"
  /\ slaveAt' = "order"
  /\ stats' = NoStats
  /\ global_total' = ResetTotal
  /\ UNCHANGED <<now, client, net, exit, took, taken, used, said, start_time,
                 took_time, masterVars, order, report>>

-----------------------------------------------------------------------------
(***************************************************************************)
(* The master                                                              *)
(***************************************************************************)

\* send_order_to_slaves: the socket is blocking and takes the order whole.
SendOrder ==
  /\ masterAt = "send"
  /\ \E n \in OrderLens : order' = Wrote(NewLine(n), n)
  /\ masterAt' = "read"
  /\ UNCHANGED <<vars, slaveVars, slaves_stats, master_stats, row, report>>

\* read_slaves_response, a read.
ReadReport ==
  /\ masterAt = "read"
  /\ \E k \in ReadSizes(report, ReportCap) : report' = Got(report, k)
  /\ UNCHANGED <<vars, slaveVars, masterVars, order>>

\* The fields of the line, as strtok, atol and atof find them.
Fields(r) == [r EXCEPT !.totalTime = Atol(@), !.bytes_recv = Atol(@),
                       !.resp_recv = Atol(@), !.minCT = Atol(@),
                       !.maxCT = Atol(@), !.errors = Atol(@)]

\* read_slaves_response: the lines of all slaves are there.
ParseReports ==
  /\ masterAt = "read" /\ report.at = "whole"
  /\ \E others \in [2 .. NbSlaves -> OtherReports] :
       slaves_stats' = [s \in 1 .. NbSlaves |->
                          IF s = 1 THEN Fields(said) ELSE Fields(others[s])]
  /\ report' = NoLine
  /\ masterAt' = "fill"
  /\ UNCHANGED <<vars, slaveVars, master_stats, row, order>>

\* fill_master_stat_report and insert_Lf.  An element is kept multiplied by
\* nbSlaves, as the sum over the slaves; rates before their division by the
\* time the master has waited.
FillMasterStatReport ==
  /\ masterAt = "fill"
  /\ master_stats' = [c \in Columns |->
       Append(master_stats[c],
              SumOf([s \in 1 .. NbSlaves |-> slaves_stats[s][c]]))]
  /\ slaves_stats' = <<>>
  /\ masterAt' = IF Len(master_stats'["errors"]) < Iterations THEN "send" ELSE "print"
  /\ UNCHANGED <<vars, slaveVars, row, order, report>>

\* print_stats: each column has its average, from its own sample.  One of the
\* columns, any, is modelled.
PrintStats ==
  /\ masterAt = "print"
  /\ \E p \in Percents, c \in Columns : \E kept \in Kept(master_stats[c], p) :
       row' = [col |-> c, percent |-> p, kept |-> kept]
  /\ masterAt' = "end"
  /\ UNCHANGED <<vars, slaveVars, slaves_stats, master_stats, order, report>>

\* The wave is over, or the slave has exited.
Terminated == (masterAt = "end" \/ exit # "no") /\ UNCHANGED allVars

MeasurementNext ==
  \/ /\ exit = "no"
     /\ \/ ReadOrder \/ TakeOrder \/ Load \/ ComputeStats \/ WriteReport
        \/ ResetStats \/ SendOrder \/ ReadReport \/ ParseReports
        \/ FillMasterStatReport \/ PrintStats
  \/ Terminated

MeasurementSpec == MeasurementInit /\ [][MeasurementNext]_allVars

-----------------------------------------------------------------------------
(***************************************************************************)
(* Properties                                                              *)
(***************************************************************************)
\* The types of the variables of slave and master.
TypeOK ==
  /\ RunTypeOK
  /\ exit \in {"no", "order", "assertion", "no-headers", "no-length", "EOF"}
  /\ slaveAt \in {"order", "load", "report", "reset"}
  /\ masterAt \in {"send", "read", "fill", "print", "end"}
  /\ order \in LineType /\ report \in LineType
  /\ said \in ReportType /\ slaves_stats \in Seq(ReportType)
  /\ master_stats \in [Columns -> Seq(Values)]
  /\ row \in [col : Columns \cup {"none"}, percent : 0 .. 100, kept : Seq(Values)]

\* v is the average of nb numbers with this sum, as exactly as %Lf prints it.
IsAverage(v, sum, nb) ==
  \/ nb > 0 /\ v \in Nat /\ 2 * (v * nb - sum * Scale) \in -nb .. nb
  \/ nb = 0 /\ sum = 0 /\ v = NaN
  \/ nb = 0 /\ sum > 0 /\ v = Inf

\* What the master has read from a slave is what happened in the load it has
\* ordered, and in no other: how long it took, how often it failed and was
\* answered, and the averages of the times that connects and answers really
\* took, of all of them, wherever in a second they began and ended; not of 80% of
\* the sample, as the comment on compute_stats says.  avgCRT is no
\* average of anything that took time: it is the time of the connections that
\* have ended by the number of all answers, those of connections that the end of
\* the load has cut short included, whose time is in no sum.  Only over nothing
\* there is no average.
AveragesRight ==
  masterAt = "fill" =>
    LET r == slaves_stats[1]
    IN  /\ r.totalTime = took_time /\ r.errors = took.errors
        /\ r.resp_recv = took.answers
        /\ IsAverage(r.avgCT, took.CT, took.connections)
        /\ IsAverage(r.avgRT, took.RT, took.answers)
        /\ IsAverage(r.avgCRT, took.CRT, took.answers)

\* The bytes that the master takes for received are off by the number of reads
\* that found nothing; a load that received less than that reports nearly 2^64
\* bytes, of which the master makes the largest long.
BytesCounted ==
  masterAt = "fill" =>
    LET really == taken.bytes - taken.nothings
    IN  slaves_stats[1].bytes_recv =
          IF really >= 0 THEN really ELSE Word \div 2 - 1

\* Orders and reports arrive as they were written, in whatever pieces.
LinesWhole == Intact(order, OrderCap) /\ Intact(report, ReportCap)

\* An average of the table is made of one value of each load of the wave, but
\* for the two ends that percent_stats_kept_master cuts: it keeps at least that
\* share, and at most two values more, at least one; and as many values as
\* were cut are not above, and not below, each one kept, if all are numbers.
TableHolds ==
  row.col # "none" =>
    LET s == master_stats[row.col]
        n == Len(s)
        kept == Len(row.kept)
    IN  /\ n = Iterations
        /\ kept > 0 /\ 100 * kept \in n * row.percent .. n * row.percent + 200
        /\ NaN \notin Range(s) =>
             \A k \in 1 .. kept :
               LET v == row.kept[k]
                   notAbove == {j \in 1 .. n : ~ Below(v, s[j])}
                   notBelow == {j \in 1 .. n : ~ Below(s[j], v)}
               IN  /\ v \in Range(s)
                   /\ 2 * Cardinality(notAbove) > n - kept
                   /\ 2 * Cardinality(notBelow) > n - kept
=============================================================================
