----------------------------- MODULE Campaign -----------------------------
(***************************************************************************)
(* A benchmark: slg_master.c, and of each slave the daemon loop of slg.c.  *)
(*                                                                         *)
(* For every load the master opens a connection to each slave, sends its   *)
(* order, waits for the report and closes.  A slave serves one connection  *)
(* at a time: it reads the order, runs it, writes the report, closes, and  *)
(* cleans up before it accepts the next connection.  Any process may stop  *)
(* at any time, and be started again.                                      *)
(*                                                                         *)
(* What happens in a slave during a run is Injector.tla.  An order is its  *)
(* number of clients and whether it is a warm-up; round, the number of the *)
(* load, is not in the message: it tells orders apart in the properties.   *)
(* Messages are read whole: both sides read until the end of the line.     *)
(***************************************************************************)
EXTENDS Integers, Sequences

CONSTANTS NbSlaves,      \* nb_slaves
          NbMin, NbMax,  \* nb_clients_min, nb_clients_max
          Step,          \* step
          Iterations,    \* nb_iterations_in_a_wave
          Warmup,        \* is warmup_length > 0?
          MaxClients,    \* MAX_CLIENTS of a slave
          MaxMasters,    \* bound: times slg_master is started
          MaxKills,      \* bound: times slg_master is killed
          MaxFaults      \* bound: slaves that stop by themselves

ASSUME CampaignAssumption ==
  /\ NbSlaves \in Nat \ {0}
  /\ NbMin \in Nat \ {0} /\ NbMax \in Nat \ {0} /\ NbMin <= NbMax
  /\ Step \in Nat \ {0} /\ Iterations \in Nat \ {0} /\ Warmup \in BOOLEAN
  /\ MaxClients \in Nat
  /\ MaxMasters \in Nat \ {0} /\ MaxKills \in Nat /\ MaxFaults \in Nat

VARIABLES
  master,        \* main: where it is, the slave and iteration it is at
  masterUp,      \* is slg_master running?
  nb_clients, current_wave_number,
  slaves_stats,  \* the reports of the present load
  master_stats,  \* the samples of each wave
  slave,         \* slg's main: where it is, the order it has or had last
  link,          \* the connections to each slave, oldest first
  accepted,      \* how many of them the slave has accepted
  round,         \* the number of the present load, for the properties
  masters, kills, faults    \* how much of the bounds is used

masterVars == <<master, masterUp, nb_clients, current_wave_number,
                slaves_stats, master_stats, round>>
boundVars == <<masters, kills, faults>>
vars == <<masterVars, slave, link, accepted, boundVars>>

Slaves == 0 .. NbSlaves - 1

\* Mutant: the last wave is forgotten.
NbWaves_NoLast == IF NbMax = NbMin THEN 1 ELSE (NbMax - NbMin) \div Step

\* nb_waves, the size of master_stats
NbWaves == (NbMax - NbMin) \div Step + 1

NoOrder == [round |-> 0, nb |-> 0, warm |-> FALSE]
NoReport == NoOrder

\* What a slave reports is told by the order it has run.
NewConnection == [order |-> NoOrder, report |-> NoReport,
                  masterOpen |-> TRUE, slaveOpen |-> TRUE]

FirstMaster == [at |-> "wave", i |-> 0, iter |-> 0, warm |-> FALSE]
NoStats == [s \in Slaves |-> NoReport]

Init ==
  /\ master = FirstMaster /\ masterUp = TRUE
  /\ nb_clients = NbMin /\ current_wave_number = 0
  /\ slaves_stats = NoStats
  /\ master_stats = [w \in 0 .. NbWaves - 1 |-> <<>>]
  /\ slave = [s \in Slaves |-> [at |-> "accept", order |-> NoOrder]]
  /\ link = [s \in Slaves |-> <<>>]
  /\ accepted = [s \in Slaves |-> 0]
  /\ round = 0
  /\ masters = 1 /\ kills = 0 /\ faults = 0

-----------------------------------------------------------------------------
(***************************************************************************)
(* slg_master                                                              *)
(***************************************************************************)
Master(at) == masterUp /\ master.at = at

\* The master's connection to s is the latest.
Latest(s) == link[s][Len(link[s])]
SetLatest(s, c) == link' = [link EXCEPT ![s][Len(link[s])] = c]

\* The master's process ends: the kernel closes its connections.
MasterStops ==
  /\ masterUp' = FALSE
  /\ link' = [s \in Slaves |->
                [k \in DOMAIN link[s] |-> [link[s][k] EXCEPT !.masterOpen = FALSE]]]

\* Mutant: the loop goes one slave too far.
NextSlave_OneTooMany(then) ==
  IF master.i < NbSlaves THEN [master EXCEPT !.i = @ + 1]
                         ELSE [master EXCEPT !.i = 0, !.at = then]

\* On to the next slave, or past the last one.
NextSlave(then) ==
  IF master.i + 1 < NbSlaves THEN [master EXCEPT !.i = @ + 1]
                             ELSE [master EXCEPT !.i = 0, !.at = then]

\* A new load: the master is about to connect to the slaves.
BeginLoad(warm, iter) ==
  /\ master' = [at |-> "connect", i |-> 0, iter |-> iter, warm |-> warm]
  /\ round' = round + 1

\* The test of main's loop over the waves, and the start of a wave.
BeginWave ==
  /\ Master("wave")
  /\ nb_clients <= NbMax
  /\ BeginLoad(Warmup, 0)
  /\ UNCHANGED <<masterUp, nb_clients, current_wave_number, slaves_stats,
                 master_stats, slave, link, accepted, boundVars>>

\* The last wave is over.
Finish ==
  /\ Master("wave")
  /\ nb_clients > NbMax
  /\ master' = [master EXCEPT !.at = "end"]
  /\ MasterStops
  /\ UNCHANGED <<nb_clients, current_wave_number, slaves_stats, master_stats,
                 round, slave, accepted, boundVars>>

\* connect_to_slaves, one slave.  It exits when the slave refuses.
ConnectToSlave ==
  /\ Master("connect")
  /\ IF slave[master.i].at = "dead"
       THEN MasterStops /\ UNCHANGED master
       ELSE /\ link' = [link EXCEPT ![master.i] = Append(@, NewConnection)]
            /\ master' = NextSlave("send")
            /\ UNCHANGED masterUp
  /\ UNCHANGED <<nb_clients, current_wave_number, slaves_stats, master_stats,
                 round, slave, accepted, boundVars>>

\* Mutant: the order has the number of clients of the first wave.
Order_FirstWave == [round |-> round, nb |-> NbMin, warm |-> master.warm]

\* The message of send_order_to_slaves.
Order == [round |-> round, nb |-> nb_clients, warm |-> master.warm]

\* send_order_to_slaves, one slave.  When the slave has gone the write may
\* still succeed, or end the master.
SendOrder ==
  /\ Master("send")
  /\ \/ /\ SetLatest(master.i, [Latest(master.i) EXCEPT !.order = Order])
        /\ master' = NextSlave("read")
        /\ UNCHANGED masterUp
     \/ /\ ~ Latest(master.i).slaveOpen
        /\ MasterStops
        /\ UNCHANGED master
  /\ UNCHANGED <<nb_clients, current_wave_number, slaves_stats, master_stats,
                 round, slave, accepted, boundVars>>

\* Mutant: the last slave is not waited for.
AllRead_ButLast == IF master.i + 2 < NbSlaves
                     THEN [master EXCEPT !.i = @ + 1]
                     ELSE [master EXCEPT !.i = 0, !.at = "fill"]

\* Where the loop of read_slaves_response goes.
AllRead == NextSlave("fill")

\* read_slaves_response, one slave: its report is there.  During a warm-up the
\* report is not looked at.
ReadReport ==
  /\ Master("read")
  /\ LET c == Latest(master.i)
     IN  /\ c.report # NoReport
         /\ SetLatest(master.i, [c EXCEPT !.masterOpen = FALSE])
         /\ slaves_stats' = IF master.warm THEN slaves_stats
                            ELSE [slaves_stats EXCEPT ![master.i] = c.report]
  /\ master' = AllRead
  /\ UNCHANGED <<masterUp, nb_clients, current_wave_number, master_stats, round,
                 slave, accepted, boundVars>>

\* The same: the slave has closed the connection without a report.
ReadReportFails ==
  /\ Master("read")
  /\ Latest(master.i).report = NoReport /\ ~ Latest(master.i).slaveOpen
  /\ MasterStops
  /\ UNCHANGED <<master, nb_clients, current_wave_number, slaves_stats,
                 master_stats, round, slave, accepted, boundVars>>

\* The end of warmup_time: the measured loads of the wave follow.
EndWarmup ==
  /\ Master("fill") /\ master.warm
  /\ BeginLoad(FALSE, 0)
  /\ UNCHANGED <<masterUp, nb_clients, current_wave_number, slaves_stats,
                 master_stats, slave, link, accepted, boundVars>>

\* Mutant: one iteration too many.
MoreIterations_OneTooMany == master.iter < Iterations

\* The test of main's loop over the iterations, after i++.
MoreIterations == master.iter + 1 < Iterations

\* Mutant: all waves fill the first table.
NextWave_KeepsIndex ==
  /\ master' = [master EXCEPT !.at = "wave"]
  /\ nb_clients' = nb_clients + Step
  /\ UNCHANGED <<current_wave_number, round>>

\* print_stats, and the next wave.
NextWave ==
  /\ master' = [master EXCEPT !.at = "wave"]
  /\ current_wave_number' = current_wave_number + 1
  /\ nb_clients' = nb_clients + Step
  /\ UNCHANGED round

\* fill_master_stat_report inserts a sample of the reports, and bzero empties
\* them.
EndIteration ==
  /\ Master("fill") /\ ~ master.warm
  /\ master_stats' = [master_stats EXCEPT
                        ![current_wave_number] = Append(@, slaves_stats)]
  /\ slaves_stats' = NoStats
  /\ IF MoreIterations
       THEN /\ BeginLoad(FALSE, master.iter + 1)
            /\ UNCHANGED <<nb_clients, current_wave_number>>
       ELSE NextWave
  /\ UNCHANGED <<masterUp, slave, link, accepted, boundVars>>

\* Control-C, or the machine of the master stops.
MasterKilled ==
  /\ masterUp /\ kills < MaxKills
  /\ kills' = kills + 1
  /\ MasterStops
  /\ UNCHANGED <<master, nb_clients, current_wave_number, slaves_stats,
                 master_stats, round, slave, accepted, masters, faults>>

\* Someone starts slg_master again.
MasterStarts ==
  /\ ~ masterUp /\ masters < MaxMasters
  /\ masters' = masters + 1
  /\ masterUp' = TRUE /\ master' = FirstMaster
  /\ nb_clients' = NbMin /\ current_wave_number' = 0
  /\ slaves_stats' = NoStats
  /\ master_stats' = [w \in 0 .. NbWaves - 1 |-> <<>>]
  /\ UNCHANGED <<slave, link, accepted, round, kills, faults>>

MasterStep == \/ BeginWave \/ Finish \/ ConnectToSlave \/ SendOrder
              \/ ReadReport \/ ReadReportFails \/ EndWarmup \/ EndIteration

-----------------------------------------------------------------------------
(***************************************************************************)
(* The daemon loop of a slave                                              *)
(***************************************************************************)
masterOnly == <<masterVars, boundVars>>

\* The connection the slave has accepted last.
Own(s) == link[s][accepted[s]]

\* The slave's process ends.  Connections it has not accepted are lost too.
SlaveStops(s) ==
  /\ slave' = [slave EXCEPT ![s] = [at |-> "dead", order |-> NoOrder]]
  /\ link' = [link EXCEPT ![s] =
                [k \in DOMAIN link[s] |-> [link[s][k] EXCEPT !.slaveOpen = FALSE]]]

WaitMasterConnection(s) ==
  /\ slave[s].at = "accept" /\ accepted[s] < Len(link[s])
  /\ accepted' = [accepted EXCEPT ![s] = @ + 1]
  /\ slave' = [slave EXCEPT ![s].at = "order"]
  /\ UNCHANGED <<masterOnly, link>>

\* Mutant: the loop goes on reading when an order asks for too many clients.
WaitMasterOrder_ReadsOn(s) ==
  /\ slave[s].at = "order" /\ Own(s).order # NoOrder
  /\ slave' = [slave EXCEPT ![s] = IF Own(s).order.nb > MaxClients
                                     THEN @
                                     ELSE [at |-> "run", order |-> Own(s).order]]
  /\ UNCHANGED <<masterOnly, link, accepted>>

\* waitMasterOrder and check_parameters, up to the start of the threads.
WaitMasterOrder(s) ==
  /\ slave[s].at = "order" /\ Own(s).order # NoOrder
  /\ IF Own(s).order.nb > MaxClients
       THEN SlaveStops(s)
       ELSE /\ slave' = [slave EXCEPT ![s] = [at |-> "run", order |-> Own(s).order]]
            /\ UNCHANGED link
  /\ UNCHANGED <<masterOnly, accepted>>

\* Mutant: the end of the connection is not noticed.
MasterOrderFails_Unnoticed(s) ==
  /\ slave[s].at = "order"
  /\ Own(s).order = NoOrder /\ ~ Own(s).masterOpen
  /\ UNCHANGED vars

\* waitMasterOrder: "Connection closed and master order not full", and exit.
MasterOrderFails(s) ==
  /\ slave[s].at = "order"
  /\ Own(s).order = NoOrder /\ ~ Own(s).masterOpen
  /\ SlaveStops(s)
  /\ UNCHANGED <<masterOnly, accepted>>

\* Both threads have ended: compute_stats.
RunEnds(s) ==
  /\ slave[s].at = "run"
  /\ slave' = [slave EXCEPT ![s].at = "report"]
  /\ UNCHANGED <<masterOnly, link, accepted>>

\* Mutant: the report goes to the connection made last.
SendStatResponse_ToLatest(s) ==
  /\ slave[s].at = "report"
  /\ \/ /\ link' = [link EXCEPT ![s][Len(link[s])] =
                       [@ EXCEPT !.report = slave[s].order, !.slaveOpen = FALSE]]
        /\ slave' = [slave EXCEPT ![s].at = "clean"]
     \/ ~ Own(s).masterOpen /\ SlaveStops(s)
  /\ UNCHANGED <<masterOnly, accepted>>

\* send_stat_response.  When the master has gone the write may still succeed,
\* or PANIC.
SendStatResponse(s) ==
  /\ slave[s].at = "report"
  /\ \/ /\ link' = [link EXCEPT ![s][accepted[s]] =
                       [@ EXCEPT !.report = slave[s].order, !.slaveOpen = FALSE]]
        /\ slave' = [slave EXCEPT ![s].at = "clean"]
     \/ ~ Own(s).masterOpen /\ SlaveStops(s)
  /\ UNCHANGED <<masterOnly, accepted>>

\* clean_remaing_clients_fd, reset_stats, and back to accept.
Clean(s) ==
  /\ slave[s].at = "clean"
  /\ slave' = [slave EXCEPT ![s].at = "accept"]
  /\ UNCHANGED <<masterOnly, link, accepted>>

\* PANIC in one of the threads, or the machine of the slave stops.
SlaveFails(s) ==
  /\ slave[s].at # "dead" /\ faults < MaxFaults
  /\ faults' = faults + 1
  /\ SlaveStops(s)
  /\ UNCHANGED <<masterVars, accepted, masters, kills>>

\* Someone starts slg again on the slave's machine.
SlaveStarts(s) ==
  /\ slave[s].at = "dead"
  /\ slave' = [slave EXCEPT ![s].at = "accept"]
  /\ accepted' = [accepted EXCEPT ![s] = Len(link[s])]
  /\ UNCHANGED <<masterOnly, link>>

SlaveStep(s) ==
  \/ WaitMasterConnection(s) \/ WaitMasterOrder(s) \/ MasterOrderFails(s)
  \/ RunEnds(s) \/ SendStatResponse(s) \/ Clean(s)

\* No master: the slaves wait for one.
Terminated == ~ masterUp /\ UNCHANGED vars

Next == \/ MasterStep \/ MasterKilled \/ MasterStarts \/ Terminated
        \/ \E s \in Slaves : SlaveStep(s) \/ SlaveFails(s) \/ SlaveStarts(s)

Spec == Init /\ [][Next]_vars

(***************************************************************************)
(* A process that can go on does: a run ends when its time is up.          *)
(***************************************************************************)
FairSpec == /\ Spec
            /\ WF_vars(MasterStep)
            /\ \A s \in Slaves : WF_vars(SlaveStep(s))

-----------------------------------------------------------------------------
(***************************************************************************)
(* Properties                                                              *)
(***************************************************************************)
Orders == [round : Nat, nb : Nat, warm : BOOLEAN]
Connections == [order : Orders, report : Orders, masterOpen : BOOLEAN,
                slaveOpen : BOOLEAN]

\* The types of the variables, and that a slave is never ahead of its link.
TypeOK ==
  /\ master \in [at : {"wave", "connect", "send", "read", "fill", "end"},
                 i : Slaves, iter : 0 .. Iterations - 1, warm : BOOLEAN]
  /\ masterUp \in BOOLEAN
  /\ nb_clients \in Nat /\ current_wave_number \in 0 .. NbWaves
  /\ slaves_stats \in [Slaves -> Orders]
  /\ master_stats \in [0 .. NbWaves - 1 -> Seq([Slaves -> Orders])]
  /\ slave \in [Slaves -> [at : {"accept", "order", "run", "report", "clean",
                                 "dead"}, order : Orders]]
  /\ link \in [Slaves -> Seq(Connections)]
  /\ accepted \in [Slaves -> Nat]
  /\ \A s \in Slaves : accepted[s] <= Len(link[s])
  /\ round \in Nat
  /\ masters \in 1 .. MaxMasters /\ kills \in 0 .. MaxKills
  /\ faults \in 0 .. MaxFaults

\* "A basic load is a single load generation order sent to all slaves": the
\* slaves that load the server at one time all run the order of the present
\* load, and while a master lives it is collecting reports, not recording a
\* sample, pausing, or making connections for the next load.
LoadsInStep ==
  \A s \in Slaves : slave[s].at = "run" =>
    /\ slave[s].order = Order
    /\ masterUp => master.at \in {"send", "read"}

\* Every sample is made of one report of each slave, all for the same load, a
\* measured one with the number of clients of its wave, and no load is counted
\* twice, whatever was killed and started again before.
SamplesAreOneLoad ==
  \A w \in 0 .. NbWaves - 1 : \A k \in 1 .. Len(master_stats[w]) :
    LET sample == master_stats[w][k]
    IN  /\ \A s \in Slaves : /\ sample[s] = sample[0]
                             /\ sample[s].nb = NbMin + w * Step
                             /\ ~ sample[s].warm
        /\ \A v \in 0 .. w : \A j \in 1 .. Len(master_stats[v]) :
             v < w \/ j < k => master_stats[v][j][0].round < sample[0].round

\* The tables of the master are large enough and are filled: insert_Lf's
\* assertion holds, no index is out of range, and a wave is printed when it
\* has all its samples.
TablesFit ==
  /\ masterUp /\ master.at = "fill" /\ ~ master.warm =>
       /\ current_wave_number < NbWaves
       /\ Len(master_stats[current_wave_number]) < Iterations
  /\ \A w \in 0 .. NbWaves - 1 : w < current_wave_number =>
       Len(master_stats[w]) = Iterations
  /\ master.at = "end" => current_wave_number = NbWaves

\* The loads that are over, seen from the master.
Done == IF master.at \in {"wave", "end"} THEN round ELSE round - 1

\* The orders and reports of one slg_master are the benchmark it promises.
TheBenchmark ==
  INSTANCE Benchmark WITH
    done <- Done,
    loading <- {s \in Slaves : slave[s].at = "run"},
    ended <- {s \in Slaves :
                \/ slave[s].at = "report" /\ slave[s].order.round = Done + 1
                \/ \E k \in DOMAIN link[s] : link[s][k].report.round = Done + 1},
    counted <- [w \in 0 .. NbWaves - 1 |-> Len(master_stats[w])]

\* What the processes of one slg_master do together is that benchmark: a load
\* begins after every slave has ended the one before, and only loads that all
\* slaves have ended are counted, under their own wave.
ImplementsBenchmark == TheBenchmark!Spec

\* slg.c: "if order fails, we continue": a slave outlives a master that goes
\* before its order is complete.
FailedOrderContinues ==
  [][\A s \in Slaves : slave[s].at = "order" => slave'[s].at # "dead"]_vars

\* A master always comes to an end, and no slave that stays alive keeps it
\* waiting.
CampaignEnds == masterUp ~> ~ masterUp

\* A slave that has begun to serve a master, whatever becomes of that master,
\* waits for another one in the end.
SlavesComeBack ==
  \A s \in Slaves : slave[s].at = "order" ~> slave[s].at \in {"accept", "dead"}
=============================================================================
