--------------------------- MODULE CampaignProofs ---------------------------
(***************************************************************************)
(* What holds of master and slaves for every number of slaves and every    *)
(* configuration of the benchmark, whatever processes stop and start again *)
(* at any point: the types, that a sample is of one load, and that the     *)
(* tables of slg_master are large enough.                                  *)
(*                                                                         *)
(* With one slg_master at a time, also: loads never overlap, and master    *)
(* and slaves together implement Benchmark.tla.                            *)
(***************************************************************************)
EXTENDS Campaign, SequenceTheorems, TLAPS

-----------------------------------------------------------------------------
(***************************************************************************)
(* Multiplication and division                                             *)
(***************************************************************************)
\* More waves, more clients.
LEMMA MulMonotone ==
  ASSUME NEW a \in Nat, NEW b \in Nat, NEW s \in Nat, a <= b
  PROVE  a * s <= b * s
  OBVIOUS

\* What the division of nb_waves answers.
LEMMA Quotient ==
  ASSUME NEW d \in Nat, NEW s \in Nat \ {0}
  PROVE  /\ d \div s \in Nat
         /\ (d \div s) * s <= d
         /\ d < (d \div s) * s + s
  OBVIOUS

\* w steps stay within d when w is at most the quotient.
LEMMA StepsWithin ==
  ASSUME NEW d \in Nat, NEW s \in Nat \ {0}, NEW w \in Nat
  PROVE  w * s <= d <=> w <= d \div s
<1> DEFINE q == d \div s
<1>1. q \in Nat /\ q * s <= d /\ d < q * s + s
  BY Quotient
<1> HIDE DEF q
<1>2. ASSUME w <= q PROVE w * s <= d
  BY <1>1, <1>2, MulMonotone
<1>3. ASSUME w > q PROVE w * s > d
  <2>1. (q + 1) * s <= w * s
    BY <1>1, <1>3, MulMonotone
  <2>2. (q + 1) * s = q * s + s
    BY <1>1
  <2> QED
    BY <1>1, <2>1, <2>2
<1> QED
  BY <1>1, <1>2, <1>3 DEF q

\* The number of clients of wave w.
Load(w) == NbMin + w * Step

\* main's loop goes on exactly for the waves nb_waves counts.
LEMMA WavesCounted ==
  ASSUME NEW w \in Nat
  PROVE  /\ NbWaves \in Nat \ {0}
         /\ Load(w) \in Nat
         /\ Load(w + 1) = Load(w) + Step
         /\ Load(w) <= NbMax <=> w < NbWaves
<1> DEFINE d == NbMax - NbMin
<1>1. d \in Nat /\ Step \in Nat \ {0} /\ NbMin \in Nat /\ NbMax = NbMin + d
  BY CampaignAssumption
<1>2. w * Step \in Nat /\ (w + 1) * Step = w * Step + Step
  BY <1>1
<1>3. NbWaves = d \div Step + 1 /\ d \div Step \in Nat
  BY <1>1, Quotient DEF NbWaves
<1>4. w * Step <= d <=> w <= d \div Step
  BY <1>1, StepsWithin
<1> HIDE DEF d
<1> QED
  BY <1>1, <1>2, <1>3, <1>4 DEF Load

-----------------------------------------------------------------------------
(***************************************************************************)
(* The inductive invariant: the types, and four parts that follow a load   *)
(* from the order to the table.                                            *)
(***************************************************************************)

\* While the master is at one of these, a load is under way.
UnderWay == {"connect", "send", "read", "fill"}

\* The wave and its number of clients go together, and the samples there are
\* are those of the loops' counters.
SamplesOf(w) == IF w < current_wave_number THEN Iterations
                ELSE IF w = current_wave_number /\ master.at \in UnderWay
                     THEN master.iter
                     ELSE 0

Counters ==
  /\ nb_clients = Load(current_wave_number)
  /\ master.at = "end" => current_wave_number = NbWaves
  /\ master.at \in UnderWay => current_wave_number < NbWaves /\ round > 0
  /\ master.warm => master.iter = 0
  /\ \A w \in 0 .. NbWaves - 1 : Len(master_stats[w]) = SamplesOf(w)

\* The master's connections of the present load have its order, once sent.
Sent ==
  \A s \in Slaves :
    /\ master.at = "connect" /\ s < master.i =>
         link[s] # <<>> /\ Latest(s).order = NoOrder
    /\ master.at = "send" =>
         /\ link[s] # <<>>
         /\ Latest(s).order = IF s < master.i THEN Order ELSE NoOrder
    /\ master.at = "read" => link[s] # <<>> /\ Latest(s).order = Order

\* A slave reports, over each connection, the order of that connection.
Reported ==
  \A s \in Slaves :
    /\ \A k \in 1 .. Len(link[s]) :
         link[s][k].report = NoReport \/ link[s][k].report = link[s][k].order
    /\ slave[s].at \notin {"accept", "dead"} => accepted[s] > 0
    /\ slave[s].at \in {"run", "report"} =>
         slave[s].order = Own(s).order /\ slave[s].order # NoOrder

\* What the master has read are reports of its present order.
Collected ==
  \A s \in Slaves :
    ~ master.warm /\ (master.at = "fill" \/ (master.at = "read" /\ s < master.i))
      => slaves_stats[s] = Order

\* The samples of earlier loads are older than the present one.
Older ==
  \A w \in 0 .. NbWaves - 1 : \A k \in 1 .. Len(master_stats[w]) :
    /\ master_stats[w][k][0].round <= round
    /\ master.at \in UnderWay => master_stats[w][k][0].round < round

\* The parts together, with the property that the samples are to have.
IInv == /\ TypeOK /\ Counters /\ Sent /\ Reported /\ Collected /\ Older
        /\ SamplesAreOneLoad

-----------------------------------------------------------------------------
(***************************************************************************)
(* Connections                                                             *)
(***************************************************************************)

\* A sequence changed member by member keeps its length.
LEMMA SameDomain ==
  ASSUME NEW S, NEW q \in Seq(S), NEW r, DOMAIN r = DOMAIN q,
         r = [k \in DOMAIN r |-> r[k]], \A k \in 1 .. Len(q) : r[k] \in S
  PROVE  r \in Seq(S) /\ Len(r) = Len(q)
<1>1. Len(q) \in Nat /\ DOMAIN r = 1 .. Len(q)
  BY LenProperties
<1>2. r \in [1 .. Len(q) -> S]
  BY <1>1
<1>3. r \in Seq(S)
  BY <1>1, <1>2, SeqDef
<1>4. Len(r) \in Nat /\ 1 .. Len(r) = 1 .. Len(q)
  BY <1>1, <1>3, LenProperties
<1> QED
  BY <1>1, <1>3, <1>4

\* The same connections, with the same orders.
SameOrders ==
  /\ link' \in [Slaves -> Seq(Connections)]
  /\ \A s \in Slaves :
       /\ Len(link'[s]) = Len(link[s])
       /\ \A k \in 1 .. Len(link[s]) : link'[s][k].order = link[s][k].order

\* The same reports on them.
SameReports ==
  \A s \in Slaves : \A k \in 1 .. Len(link[s]) :
    link'[s][k].report = link[s][k].report

\* The kernel closes a process's ends of its connections, and nothing else.
LEMMA MasterClosed ==
  ASSUME TypeOK, MasterStops
  PROVE  SameOrders /\ SameReports /\ masterUp' = FALSE
<1>1. ASSUME NEW s \in Slaves
      PROVE  /\ link'[s] \in Seq(Connections) /\ Len(link'[s]) = Len(link[s])
             /\ \A k \in 1 .. Len(link[s]) :
                  /\ link'[s][k].order = link[s][k].order
                  /\ link'[s][k].report = link[s][k].report
  <2> DEFINE r == [k \in DOMAIN link[s] |-> [link[s][k] EXCEPT !.masterOpen = FALSE]]
  <2>1. link[s] \in Seq(Connections)
    BY DEF TypeOK
  <2>2. link'[s] = r
    BY DEF MasterStops
  <2>3. \A k \in 1 .. Len(link[s]) : link[s][k] \in Connections /\ k \in DOMAIN link[s]
    BY <2>1, LenProperties, ElementOfSeq
  <2>4. \A k \in 1 .. Len(link[s]) :
          /\ r[k] \in Connections
          /\ r[k].order = link[s][k].order /\ r[k].report = link[s][k].report
    BY <2>3 DEF Connections
  <2>5. DOMAIN r = DOMAIN link[s] /\ r = [k \in DOMAIN r |-> r[k]]
    OBVIOUS
  <2> HIDE DEF r
  <2>6. r \in Seq(Connections) /\ Len(r) = Len(link[s])
    BY <2>1, <2>4, <2>5, SameDomain
  <2> QED
    BY <2>2, <2>4, <2>6
<1>2. link' \in [Slaves -> Seq(Connections)]
  BY <1>1 DEF MasterStops
<1> QED
  BY <1>1, <1>2 DEF SameOrders, SameReports, MasterStops

\* The kernel closes a slave's ends when its process ends: neither an order
\* nor a report that is under way is lost.
LEMMA SlaveClosed ==
  ASSUME TypeOK, NEW s \in Slaves, SlaveStops(s)
  PROVE  SameOrders /\ SameReports
<1>1. link \in [Slaves -> Seq(Connections)] /\ link[s] \in Seq(Connections)
  BY DEF TypeOK
<1> DEFINE r == [k \in DOMAIN link[s] |-> [link[s][k] EXCEPT !.slaveOpen = FALSE]]
<1>2. link' = [link EXCEPT ![s] = r]
  BY DEF SlaveStops
<1>3. \A k \in 1 .. Len(link[s]) : link[s][k] \in Connections /\ k \in DOMAIN link[s]
  BY <1>1, LenProperties, ElementOfSeq
<1>4. \A k \in 1 .. Len(link[s]) :
        /\ r[k] \in Connections
        /\ r[k].order = link[s][k].order /\ r[k].report = link[s][k].report
  BY <1>3 DEF Connections
<1>5. r \in Seq(Connections) /\ Len(r) = Len(link[s])
  <2>1. DOMAIN r = DOMAIN link[s] /\ r = [k \in DOMAIN r |-> r[k]]
    OBVIOUS
  <2> HIDE DEF r
  <2> QED
    BY <1>1, <1>4, <2>1, SameDomain
<1> HIDE DEF r
<1> QED
  BY <1>1, <1>2, <1>4, <1>5 DEF SameOrders, SameReports

\* A change of one connection.
OnlyChanged(s, j, c) ==
  /\ link' \in [Slaves -> Seq(Connections)]
  /\ \A t \in Slaves :
       /\ Len(link'[t]) = Len(link[t])
       /\ \A k \in 1 .. Len(link[t]) :
            link'[t][k] = IF t = s /\ k = j THEN c ELSE link[t][k]

\* A message written to one connection, or one end closed, changes that
\* connection only.
LEMMA OneConnection ==
  ASSUME TypeOK, NEW s \in Slaves, NEW j \in 1 .. Len(link[s]),
         NEW c \in Connections,
         link' = [link EXCEPT ![s] = [link[s] EXCEPT ![j] = c]]
  PROVE  OnlyChanged(s, j, c)
<1>1. link \in [Slaves -> Seq(Connections)] /\ link[s] \in Seq(Connections)
  BY DEF TypeOK
<1>2. /\ [link[s] EXCEPT ![j] = c] \in Seq(Connections)
      /\ Len([link[s] EXCEPT ![j] = c]) = Len(link[s])
      /\ \A k \in 1 .. Len(link[s]) :
           [link[s] EXCEPT ![j] = c][k] = IF k = j THEN c ELSE link[s][k]
  BY <1>1, ExceptSeq
<1> QED
  BY <1>1, <1>2 DEF OnlyChanged

-----------------------------------------------------------------------------
(***************************************************************************)
(* Steps that leave the master where it is.                                *)
(***************************************************************************)

\* The latest connection stays the latest.
LEMMA LatestKept ==
  ASSUME IInv, SameOrders, NEW s \in Slaves, link[s] # <<>>
  PROVE  link'[s] # <<>> /\ Latest(s)'.order = Latest(s).order
<1>1. link[s] \in Seq(Connections) /\ link'[s] \in Seq(Connections)
      /\ Len(link'[s]) = Len(link[s])
  BY DEF IInv, TypeOK, SameOrders
<1>2. link'[s] # <<>> /\ Len(link[s]) \in 1 .. Len(link[s])
  BY <1>1, EmptySeq, LenProperties
<1> QED
  BY <1>1, <1>2 DEF SameOrders, Latest

\* Sent is about orders only.
LEMMA SentKept ==
  ASSUME IInv, SameOrders, UNCHANGED <<master, nb_clients, round>>
  PROVE  Sent'
  BY LatestKept DEF IInv, Sent, Order

\* Reported is about reports and orders only.
LEMMA ReportedKept ==
  ASSUME IInv, SameOrders, SameReports, UNCHANGED <<slave, accepted>>
  PROVE  Reported'
<1> SUFFICES ASSUME NEW s \in Slaves
             PROVE  slave[s].at \in {"run", "report"} => Own(s)'.order = Own(s).order
  BY DEF IInv, Reported, SameOrders, SameReports
<1>1. accepted[s] \in Nat /\ accepted[s] <= Len(link[s]) /\ Len(link[s]) \in Nat
  BY LenProperties DEF IInv, TypeOK
<1>2. slave[s].at \in {"run", "report"} => accepted[s] > 0
  BY DEF IInv, Reported
<1> QED
  BY <1>1, <1>2 DEF SameOrders, Own

\* A step of a slave, or one that stops it or starts it.
LEMMA MasterStays ==
  ASSUME IInv, UNCHANGED masterVars, TypeOK', SameOrders, Reported'
  PROVE  IInv'
<1>1. Sent'
  BY SentKept DEF masterVars
<1>2. Counters' /\ Collected'
  BY DEF IInv, Counters, Collected, SamplesOf, Order, masterVars
<1>3. Older' /\ SamplesAreOneLoad'
  BY DEF IInv, Older, SamplesAreOneLoad, masterVars
<1> QED
  BY <1>1, <1>2, <1>3 DEF IInv

\* The master stops where it is.
LEMMA StoppedKept ==
  ASSUME IInv, MasterStops, masters' \in 1 .. MaxMasters,
         kills' \in 0 .. MaxKills, faults' \in 0 .. MaxFaults,
         UNCHANGED <<master, nb_clients, current_wave_number, slaves_stats,
                     master_stats, round, slave, accepted>>
  PROVE  IInv'
<1>1. SameOrders /\ SameReports /\ masterUp' = FALSE
  BY MasterClosed DEF IInv
<1>2. TypeOK'
  BY <1>1 DEF IInv, TypeOK, SameOrders
<1>3. Sent'
  BY <1>1, SentKept
<1>4. Reported'
  BY <1>1, ReportedKept
<1>5. Counters' /\ Collected'
  BY DEF IInv, Counters, Collected, SamplesOf, Order
<1>6. Older' /\ SamplesAreOneLoad'
  BY DEF IInv, Older, SamplesAreOneLoad
<1> QED
  BY <1>2, <1>3, <1>4, <1>5, <1>6 DEF IInv

-----------------------------------------------------------------------------
(***************************************************************************)
(* The steps of a slave                                                    *)
(***************************************************************************)
SlaveStates ==
  [at : {"accept", "order", "run", "report", "clean", "dead"}, order : Orders]

\* What a step of one slave must establish: its own state, and the reports on
\* its own connections.
LEMMA OneSlave ==
  ASSUME IInv, NEW s \in Slaves, UNCHANGED <<masterVars, masters, kills>>,
         faults' \in 0 .. MaxFaults, SameOrders,
         \A t \in Slaves : \A k \in 1 .. Len(link[t]) :
           link'[t][k].report \in {link[t][k].report, NoReport, link[t][k].order},
         NEW new \in SlaveStates, slave' = [slave EXCEPT ![s] = new],
         NEW n \in 0 .. Len(link[s]), accepted' = [accepted EXCEPT ![s] = n],
         new.at \notin {"accept", "dead"} => n > 0,
         new.at \in {"run", "report"} =>
           new.order = link[s][n].order /\ new.order # NoOrder
  PROVE  IInv'
<1>1. /\ slave \in [Slaves -> SlaveStates] /\ accepted \in [Slaves -> Nat]
      /\ \A t \in Slaves : accepted[t] <= Len(link[t]) /\ Len(link[t]) \in Nat
  BY LenProperties DEF IInv, TypeOK, SlaveStates
<1>2. /\ slave' \in [Slaves -> SlaveStates] /\ accepted' \in [Slaves -> Nat]
      /\ \A t \in Slaves : accepted'[t] <= Len(link'[t])
  <2>1. n \in Nat /\ n <= Len(link[s])
    BY <1>1
  <2>2. slave' \in [Slaves -> SlaveStates] /\ accepted' \in [Slaves -> Nat]
    BY <1>1, <2>1
  <2>3. \A t \in Slaves : accepted'[t] = IF t = s THEN n ELSE accepted[t]
    BY <1>1
  <2>4. \A t \in Slaves : Len(link'[t]) = Len(link[t])
    BY DEF SameOrders
  <2> QED
    BY <1>1, <2>1, <2>2, <2>3, <2>4
<1>3. TypeOK'
  BY <1>2 DEF IInv, TypeOK, SameOrders, SlaveStates, masterVars
<1>4. Reported'
  <2> SUFFICES ASSUME NEW t \in Slaves
               PROVE  /\ \A k \in 1 .. Len(link'[t]) :
                           link'[t][k].report \in {NoReport, link'[t][k].order}
                      /\ slave'[t].at \notin {"accept", "dead"} => accepted'[t] > 0
                      /\ slave'[t].at \in {"run", "report"} =>
                           /\ slave'[t].order = link'[t][accepted'[t]].order
                           /\ slave'[t].order # NoOrder
    BY DEF Reported, Own
  <2>1. \A k \in 1 .. Len(link'[t]) :
          link'[t][k].report \in {NoReport, link'[t][k].order}
    BY DEF IInv, Reported, SameOrders
  <2>2. CASE t = s
    <3>1. slave'[t] = new /\ accepted'[t] = n
      BY <1>1, <2>2
    <3>2. n > 0 => link'[s][n].order = link[s][n].order
      BY <1>1 DEF SameOrders
    <3> QED
      BY <2>1, <2>2, <3>1, <3>2
  <2>3. CASE t # s
    <3>1. slave'[t] = slave[t] /\ accepted'[t] = accepted[t]
      BY <1>1, <2>3
    <3>2. accepted[t] > 0 => link'[t][accepted[t]].order = link[t][accepted[t]].order
      BY <1>1 DEF SameOrders
    <3> QED
      BY <2>1, <3>1, <3>2 DEF IInv, Reported, Own
  <2> QED
    BY <2>2, <2>3
<1> QED
  BY <1>3, <1>4, MasterStays

\* Where a slave is now, and the connection it serves.
LEMMA SlaveNow ==
  ASSUME IInv, NEW s \in Slaves
  PROVE  /\ slave \in [Slaves -> SlaveStates] /\ slave[s] \in SlaveStates
         /\ accepted \in [Slaves -> Nat] /\ accepted[s] \in Nat
         /\ Len(link[s]) \in Nat /\ accepted[s] \in 0 .. Len(link[s])
         /\ slave[s].at \notin {"accept", "dead"} =>
              accepted[s] \in 1 .. Len(link[s]) /\ Own(s) \in Connections
         /\ slave[s].at \in {"run", "report"} =>
              slave[s].order = Own(s).order /\ slave[s].order # NoOrder
<1>1. /\ slave \in [Slaves -> SlaveStates] /\ accepted \in [Slaves -> Nat]
      /\ accepted[s] \in 0 .. Len(link[s]) /\ Len(link[s]) \in Nat
      /\ link[s] \in Seq(Connections)
  BY LenProperties DEF IInv, TypeOK, SlaveStates
<1>2. slave[s].at \notin {"accept", "dead"} => accepted[s] \in 1 .. Len(link[s])
  BY <1>1 DEF IInv, Reported
<1>3. accepted[s] \in 1 .. Len(link[s]) => Own(s) \in Connections
  BY <1>1, ElementOfSeq DEF Own
<1> QED
  BY <1>1, <1>2, <1>3 DEF IInv, Reported

\* A slave that accepts no connection.
LEMMA SameAccepted ==
  ASSUME IInv, NEW s \in Slaves, UNCHANGED accepted
  PROVE  accepted' = [accepted EXCEPT ![s] = accepted[s]]
  BY DEF IInv, TypeOK

\* A slave that goes on with its order.
LEMMA SlaveGoes ==
  ASSUME IInv, NEW s \in Slaves,
         NEW at \in {"accept", "order", "run", "report", "clean", "dead"},
         slave' = [slave EXCEPT ![s].at = at]
  PROVE  /\ [at |-> at, order |-> slave[s].order] \in SlaveStates
         /\ slave' = [slave EXCEPT ![s] = [at |-> at, order |-> slave[s].order]]
<1>1. slave \in [Slaves -> SlaveStates] /\ slave[s] \in SlaveStates
  BY SlaveNow
<1>2. [slave[s] EXCEPT !.at = at] = [at |-> at, order |-> slave[s].order]
  BY <1>1 DEF SlaveStates
<1> QED
  BY <1>1, <1>2 DEF SlaveStates

\* Nothing happens to the connections.
LEMMA LinkAsIs ==
  ASSUME TypeOK, UNCHANGED link
  PROVE  SameOrders /\ SameReports
  BY DEF TypeOK, SameOrders, SameReports

\* The process of a slave ends, in any of the ways it may.
LEMMA SlaveStopsKept ==
  ASSUME IInv, NEW s \in Slaves, SlaveStops(s), faults' \in 0 .. MaxFaults,
         UNCHANGED <<masterVars, accepted, masters, kills>>
  PROVE  IInv'
<1> DEFINE new == [at |-> "dead", order |-> NoOrder]
<1>1. SameOrders /\ SameReports
  BY SlaveClosed DEF IInv
<1>2. new \in SlaveStates /\ slave' = [slave EXCEPT ![s] = new]
  BY DEF SlaveStops, SlaveStates, NoOrder, Orders
<1>3. new.at = "dead"
  OBVIOUS
<1>4. accepted[s] \in 0 .. Len(link[s])
      /\ accepted' = [accepted EXCEPT ![s] = accepted[s]]
  BY SlaveNow, SameAccepted
<1>5. \A t \in Slaves : \A k \in 1 .. Len(link[t]) :
        link'[t][k].report \in {link[t][k].report, NoReport, link[t][k].order}
  BY <1>1 DEF SameReports
<1>6. UNCHANGED <<masterVars, masters, kills>>
  OBVIOUS
<1> HIDE DEF new
<1> QED
  BY <1>1, <1>2, <1>3, <1>4, <1>5, <1>6, OneSlave

\* A step of a slave that changes nothing but the slave itself.
LEMMA SlaveMovesKept ==
  ASSUME IInv, NEW s \in Slaves, UNCHANGED <<masterOnly, link>>,
         NEW new \in SlaveStates, slave' = [slave EXCEPT ![s] = new],
         NEW n \in 0 .. Len(link[s]), accepted' = [accepted EXCEPT ![s] = n],
         new.at \notin {"accept", "dead"} => n > 0,
         new.at \in {"run", "report"} =>
           new.order = link[s][n].order /\ new.order # NoOrder
  PROVE  IInv'
<1>1. SameOrders /\ UNCHANGED <<masterVars, masters, kills>>
      /\ faults' \in 0 .. MaxFaults
  BY LinkAsIs DEF IInv, TypeOK, masterOnly, boundVars
<1>2. \A t \in Slaves : \A k \in 1 .. Len(link[t]) :
        link'[t][k].report \in {link[t][k].report, NoReport, link[t][k].order}
  OBVIOUS
<1> QED
  BY <1>1, <1>2, OneSlave

\* accept: the connection served from now on is the oldest one not yet served.
LEMMA WaitMasterConnectionKept ==
  ASSUME IInv, NEW s \in Slaves, WaitMasterConnection(s) PROVE IInv'
<1> DEFINE new == [at |-> "order", order |-> slave[s].order]
           n == accepted[s] + 1
<1>1. new \in SlaveStates /\ slave' = [slave EXCEPT ![s] = new]
  BY SlaveGoes DEF WaitMasterConnection
<1>2. accepted[s] \in Nat /\ Len(link[s]) \in Nat
  BY SlaveNow
<1>3. n \in 0 .. Len(link[s]) /\ n > 0 /\ accepted' = [accepted EXCEPT ![s] = n]
  BY <1>2 DEF WaitMasterConnection
<1>4. new.at = "order" /\ UNCHANGED <<masterOnly, link>>
  BY DEF WaitMasterConnection
<1> HIDE DEF new, n
<1> QED
  BY <1>1, <1>3, <1>4, SlaveMovesKept

\* The order read is the one of the connection served; with too many clients
\* the process ends.
LEMMA WaitMasterOrderKept ==
  ASSUME IInv, NEW s \in Slaves, WaitMasterOrder(s) PROVE IInv'
<1>1. CASE Own(s).order.nb > MaxClients
  BY <1>1, SlaveStopsKept DEF WaitMasterOrder, masterOnly, boundVars, IInv, TypeOK
<1>2. CASE ~ (Own(s).order.nb > MaxClients)
  <2> DEFINE new == [at |-> "run", order |-> Own(s).order]
  <2>1. accepted[s] \in 1 .. Len(link[s]) /\ Own(s) \in Connections
    BY SlaveNow DEF WaitMasterOrder
  <2>2. accepted[s] \in 0 .. Len(link[s]) /\ accepted[s] > 0
        /\ accepted' = [accepted EXCEPT ![s] = accepted[s]]
    BY <2>1, SameAccepted DEF WaitMasterOrder
  <2>3. new \in SlaveStates
    BY <2>1 DEF SlaveStates, Connections
  <2>4. /\ slave' = [slave EXCEPT ![s] = new] /\ UNCHANGED <<masterOnly, link>>
        /\ new.order = link[s][accepted[s]].order /\ new.order # NoOrder
    BY <1>2 DEF WaitMasterOrder, Own
  <2> HIDE DEF new
  <2> QED
    BY <2>2, <2>3, <2>4, SlaveMovesKept
<1> QED
  BY <1>1, <1>2

\* The run is over: the order to report on is still that of the connection.
LEMMA RunEndsKept ==
  ASSUME IInv, NEW s \in Slaves, RunEnds(s) PROVE IInv'
<1> DEFINE new == [at |-> "report", order |-> slave[s].order]
<1>1. /\ slave' = [slave EXCEPT ![s].at = "report"] /\ slave[s].at = "run"
      /\ UNCHANGED <<masterOnly, link>> /\ UNCHANGED accepted
  BY DEF RunEnds
<1>2. new \in SlaveStates /\ slave' = [slave EXCEPT ![s] = new]
  BY <1>1, SlaveGoes
<1>3. /\ accepted[s] \in 1 .. Len(link[s])
      /\ slave[s].order = Own(s).order /\ slave[s].order # NoOrder
  BY <1>1, SlaveNow
<1>4. accepted[s] \in 0 .. Len(link[s]) /\ accepted[s] > 0
      /\ accepted' = [accepted EXCEPT ![s] = accepted[s]]
  BY <1>1, <1>3, SameAccepted
<1>5. new.order = link[s][accepted[s]].order /\ new.order # NoOrder
  BY <1>3 DEF Own
<1>6. UNCHANGED <<masterOnly, link>>
  BY <1>1
<1> HIDE DEF new
<1> QED
  BY <1>2, <1>4, <1>5, <1>6, SlaveMovesKept

\* The report goes over the connection that the order came by, or the slave
\* ends because the master has closed it.
LEMMA SendStatResponseKept ==
  ASSUME IInv, NEW s \in Slaves, SendStatResponse(s) PROVE IInv'
<1>1. CASE SlaveStops(s)
  BY <1>1, SlaveStopsKept DEF SendStatResponse, masterOnly, boundVars, IInv, TypeOK
<1>2. CASE ~ SlaveStops(s)
  <2> DEFINE new == [at |-> "clean", order |-> slave[s].order]
             c == [Own(s) EXCEPT !.report = slave[s].order, !.slaveOpen = FALSE]
  <2>1. /\ slave[s].at = "report" /\ slave' = [slave EXCEPT ![s].at = "clean"]
        /\ link' = [link EXCEPT ![s][accepted[s]] =
                      [@ EXCEPT !.report = slave[s].order, !.slaveOpen = FALSE]]
        /\ UNCHANGED <<masterVars, masters, kills>> /\ UNCHANGED <<faults, accepted>>
    BY <1>2 DEF SendStatResponse, masterOnly, boundVars
  <2>2. /\ accepted[s] \in 1 .. Len(link[s]) /\ Own(s) \in Connections
        /\ slave[s].order = Own(s).order
    BY <2>1, SlaveNow
  <2>3. accepted[s] \in 0 .. Len(link[s]) /\ accepted[s] > 0
        /\ accepted' = [accepted EXCEPT ![s] = accepted[s]]
    BY <2>1, <2>2, SameAccepted
  <2>4. new \in SlaveStates /\ slave' = [slave EXCEPT ![s] = new]
        /\ new.at = "clean"
    BY <2>1, SlaveGoes
  <2>5. c \in Connections /\ c.report = Own(s).order /\ c.order = Own(s).order
    BY <2>2 DEF Connections
  <2>6. link' = [link EXCEPT ![s] = [link[s] EXCEPT ![accepted[s]] = c]]
    BY <2>1 DEF Own
  <2> HIDE DEF new, c
  <2>7. OnlyChanged(s, accepted[s], c)
    BY <2>2, <2>5, <2>6, OneConnection DEF IInv
  <2>8. /\ SameOrders
        /\ \A t \in Slaves : \A k \in 1 .. Len(link[t]) :
             link'[t][k].report \in {link[t][k].report, NoReport, link[t][k].order}
    BY <2>5, <2>7 DEF OnlyChanged, SameOrders, Own
  <2>9. faults' \in 0 .. MaxFaults
    BY <2>1 DEF IInv, TypeOK
  <2> QED
    BY <2>1, <2>3, <2>4, <2>8, <2>9, OneSlave
<1> QED
  BY <1>1, <1>2

\* A slave that waits for the next master: at the end of its loop, or because
\* it has just been started, when it serves none of the earlier connections.
LEMMA SlaveCleanKept ==
  ASSUME IInv, NEW s \in Slaves, Clean(s) \/ SlaveStarts(s) PROVE IInv'
<1> DEFINE new == [at |-> "accept", order |-> slave[s].order]
<1>1. /\ slave' = [slave EXCEPT ![s].at = "accept"] /\ UNCHANGED <<masterOnly, link>>
      /\ \/ UNCHANGED accepted
         \/ accepted' = [accepted EXCEPT ![s] = Len(link[s])]
  BY DEF Clean, SlaveStarts
<1>2. new \in SlaveStates /\ slave' = [slave EXCEPT ![s] = new] /\ new.at = "accept"
  BY <1>1, SlaveGoes
<1>3. accepted[s] \in 0 .. Len(link[s]) /\ Len(link[s]) \in 0 .. Len(link[s])
  BY SlaveNow
<1>4. PICK n \in 0 .. Len(link[s]) : accepted' = [accepted EXCEPT ![s] = n]
  BY <1>1, <1>3, SameAccepted
<1> HIDE DEF new
<1> QED
  BY <1>1, <1>2, <1>4, SlaveMovesKept

\* Every step of a slave.
LEMMA SlaveKept ==
  ASSUME IInv, NEW s \in Slaves, SlaveStep(s) \/ SlaveFails(s) \/ SlaveStarts(s)
  PROVE  IInv'
<1>1. CASE MasterOrderFails(s)
  BY <1>1, SlaveStopsKept
  DEF MasterOrderFails, masterOnly, boundVars, IInv, TypeOK
<1>2. CASE SlaveFails(s)
  <2>1. faults' \in 0 .. MaxFaults
    BY <1>2, CampaignAssumption DEF SlaveFails, IInv, TypeOK
  <2> QED
    BY <1>2, <2>1, SlaveStopsKept DEF SlaveFails
<1> QED
  BY <1>1, <1>2, WaitMasterConnectionKept, WaitMasterOrderKept, RunEndsKept,
     SendStatResponseKept, SlaveCleanKept DEF SlaveStep

-----------------------------------------------------------------------------
(***************************************************************************)
(* The steps of the master: from slave to slave                            *)
(***************************************************************************)
MasterStates ==
  [at : {"wave", "connect", "send", "read", "fill", "end"}, i : Slaves,
   iter : 0 .. Iterations - 1, warm : BOOLEAN]

\* On to the next slave of a load: the tables and the order stay as they are.
LEMMA NextSlaveKept ==
  ASSUME IInv, NEW then \in UnderWay, master.at \in UnderWay,
         master' = NextSlave(then),
         UNCHANGED <<nb_clients, current_wave_number, master_stats, round>>
  PROVE  /\ master' \in MasterStates /\ master.i \in Slaves
         /\ \A s \in Slaves : s \in 0 .. NbSlaves - 1
         /\ master'.warm = master.warm
         /\ \/ master'.at = master.at /\ master'.i = master.i + 1
            \/ master'.at = then /\ master'.i = 0 /\ master.i = NbSlaves - 1
         /\ Order' = Order
         /\ Counters' /\ Older' /\ SamplesAreOneLoad'
<1>1. master \in MasterStates /\ NbSlaves \in Nat \ {0}
  BY CampaignAssumption DEF IInv, TypeOK, MasterStates
<1>2. /\ master'.iter = master.iter /\ master'.warm = master.warm
      /\ \/ /\ master.i + 1 < NbSlaves
            /\ master'.at = master.at /\ master'.i = master.i + 1
         \/ /\ ~ (master.i + 1 < NbSlaves)
            /\ master'.at = then /\ master'.i = 0
  BY <1>1 DEF NextSlave, MasterStates
<1>3. master' \in MasterStates
  <2>1. 0 \in Slaves /\ (master.i + 1 < NbSlaves => master.i + 1 \in Slaves)
    BY <1>1 DEF MasterStates, Slaves
  <2>2. CASE master.i + 1 < NbSlaves
    BY <1>1, <2>1, <2>2 DEF NextSlave, MasterStates
  <2>3. CASE ~ (master.i + 1 < NbSlaves)
    BY <1>1, <2>1, <2>3 DEF NextSlave, MasterStates, UnderWay
  <2> QED
    BY <2>2, <2>3
<1>4. master.i \in Slaves /\ (~ (master.i + 1 < NbSlaves) => master.i = NbSlaves - 1)
  BY <1>1 DEF MasterStates, Slaves
<1>5. master'.at \in UnderWay
  BY <1>2
<1>6. Counters'
  BY <1>2, <1>5 DEF IInv, Counters, SamplesOf, UnderWay
<1>7. Older' /\ SamplesAreOneLoad' /\ Order' = Order
  BY <1>2 DEF IInv, Older, SamplesAreOneLoad, Order
<1> QED
  BY <1>2, <1>3, <1>4, <1>6, <1>7 DEF Slaves

\* A new connection holds no order and no report, and becomes the latest.
LEMMA NewLink ==
  ASSUME IInv, NEW i \in Slaves,
         link' = [link EXCEPT ![i] = Append(link[i], NewConnection)]
  PROVE  /\ Len(link[i]) \in Nat /\ Len(link'[i]) = Len(link[i]) + 1
         /\ link' \in [Slaves -> Seq(Connections)] /\ link'[i] # <<>>
         /\ \A k \in 1 .. Len(link[i]) : link'[i][k] = link[i][k]
         /\ link'[i][Len(link[i]) + 1] = NewConnection
         /\ NewConnection.order = NoOrder /\ NewConnection.report = NoReport
         /\ \A s \in Slaves : s # i => link'[s] = link[s]
<1>1. /\ NewConnection \in Connections
      /\ NewConnection.order = NoOrder /\ NewConnection.report = NoReport
  BY DEF NewConnection, Connections, NoOrder, NoReport, Orders
<1>2. /\ link \in [Slaves -> Seq(Connections)] /\ link[i] \in Seq(Connections)
      /\ Len(link[i]) \in Nat
  BY LenProperties DEF IInv, TypeOK
<1>3. /\ link'[i] = Append(link[i], NewConnection)
      /\ link'[i] \in Seq(Connections) /\ link'[i] # <<>>
      /\ Len(link'[i]) = Len(link[i]) + 1
      /\ \A k \in 1 .. Len(link[i]) : link'[i][k] = link[i][k]
      /\ link'[i][Len(link[i]) + 1] = NewConnection
  BY <1>1, <1>2, AppendProperties
<1>4. \A s \in Slaves : s # i => link'[s] = link[s]
  BY <1>2
<1>5. link' \in [Slaves -> Seq(Connections)]
  BY <1>2, <1>3
<1> QED
  BY <1>1, <1>2, <1>3, <1>4, <1>5

\* The slaves that have been connected to have the order still to come.
LEMMA ConnectToSlaveKept == ASSUME IInv, ConnectToSlave PROVE IInv'
<1> DEFINE i == master.i
<1>1. CASE slave[i].at = "dead"
  BY <1>1, StoppedKept DEF ConnectToSlave, boundVars, IInv, TypeOK
<1>2. CASE slave[i].at # "dead"
  <2>1. /\ master.at = "connect" /\ master' = NextSlave("send")
        /\ link' = [link EXCEPT ![i] = Append(link[i], NewConnection)]
        /\ UNCHANGED <<masterUp, nb_clients, current_wave_number, slaves_stats,
                       master_stats, round, slave, accepted, boundVars>>
    BY <1>2 DEF ConnectToSlave, Master
  <2>2. /\ master' \in MasterStates /\ i \in Slaves
        /\ \A s \in Slaves : s \in 0 .. NbSlaves - 1
        /\ \/ master'.at = "connect" /\ master'.i = i + 1
           \/ master'.at = "send" /\ master'.i = 0 /\ i = NbSlaves - 1
        /\ Counters' /\ Older' /\ SamplesAreOneLoad'
    BY <2>1, NextSlaveKept DEF UnderWay
  <2>3. NewConnection.order = NoOrder /\ NewConnection.report = NoReport
    BY <2>1, <2>2, NewLink
  <2>4. \A s \in Slaves : Len(link[s]) \in Nat
    BY LenProperties DEF IInv, TypeOK
  <2>5. /\ link'[i] # <<>> /\ Len(link'[i]) = Len(link[i]) + 1
        /\ \A k \in 1 .. Len(link[i]) : link'[i][k] = link[i][k]
        /\ link'[i][Len(link[i]) + 1] = NewConnection
    BY <2>1, <2>2, NewLink
  <2>6. \A s \in Slaves : s # i => link'[s] = link[s]
    BY <2>1, <2>2, NewLink
  <2>7. link' \in [Slaves -> Seq(Connections)]
    BY <2>1, <2>2, NewLink
  <2>8. TypeOK'
    <3>1. \A s \in Slaves : accepted'[s] <= Len(link'[s])
      BY <2>1, <2>4, <2>5, <2>6 DEF IInv, TypeOK
    <3> QED
      BY <2>1, <2>2, <2>7, <3>1 DEF IInv, TypeOK, MasterStates, boundVars
  <2>9. Sent'
    <3>1. ASSUME NEW s \in Slaves, s < i \/ s = i
          PROVE  link'[s] # <<>> /\ Latest(s)'.order = NoOrder
      BY <2>1, <2>3, <2>5, <2>6, <3>1 DEF IInv, Sent, Latest
    <3>2. \A s \in Slaves : s < i + 1 => s < i \/ s = i
      BY <2>2
    <3> QED
      BY <2>2, <3>1, <3>2 DEF Sent
  <2>10. Reported'
    <3> SUFFICES ASSUME NEW s \in Slaves
                 PROVE  /\ \A k \in 1 .. Len(link'[s]) :
                             \/ link'[s][k].report = NoReport
                             \/ link'[s][k].report = link'[s][k].order
                        /\ slave[s].at \notin {"accept", "dead"} => accepted[s] > 0
                        /\ slave[s].at \in {"run", "report"} =>
                             /\ slave[s].order = link'[s][accepted[s]].order
                             /\ slave[s].order # NoOrder
      BY <2>1 DEF Reported, Own
    <3>1. CASE s = i
      <4>1. \A k \in 1 .. Len(link'[s]) : k \in 1 .. Len(link[s]) \/ k = Len(link[s]) + 1
        BY <2>4, <2>5, <3>1
      <4>2. slave[s].at \in {"run", "report"} =>
              link'[s][accepted[s]].order = link[s][accepted[s]].order
        BY <2>5, <3>1, SlaveNow
      <4> QED
        BY <2>3, <2>5, <3>1, <4>1, <4>2 DEF IInv, Reported, Own
    <3>2. CASE s # i
      BY <2>6, <3>2 DEF IInv, Reported, Own
    <3> QED
      BY <3>1, <3>2
  <2>11. Collected'
    BY <2>2 DEF Collected
  <2> QED
    BY <2>2, <2>8, <2>9, <2>10, <2>11 DEF IInv
<1> QED
  BY <1>1, <1>2

\* The order is written to the latest connection, which had none.
LEMMA OrderSent ==
  ASSUME IInv, SendOrder, ~ (MasterStops /\ UNCHANGED master)
  PROVE  LET i == master.i
         IN  /\ Len(link[i]) \in 1 .. Len(link[i])
             /\ Latest(i).order = NoOrder /\ Latest(i).report = NoReport
             /\ \E c \in Connections : /\ c.order = Order /\ c.report = NoReport
                                       /\ OnlyChanged(i, Len(link[i]), c)
<1> DEFINE i == master.i
           c == [Latest(i) EXCEPT !.order = Order]
           n == Len(link[i])
<1>1. /\ master.at = "send" /\ i \in Slaves
      /\ link' = [link EXCEPT ![i] = [link[i] EXCEPT ![n] = c]]
  BY DEF SendOrder, Master, SetLatest, IInv, TypeOK
<1>2. link[i] \in Seq(Connections) /\ link[i] # <<>> /\ Latest(i).order = NoOrder
  <2>1. ~ (i < i)
    BY <1>1 DEF Slaves
  <2> QED
    BY <1>1, <2>1 DEF IInv, TypeOK, Sent
<1>3. n \in 1 .. n /\ Latest(i) \in Connections
  BY <1>2, EmptySeq, LenProperties, ElementOfSeq DEF Latest
<1>4. Latest(i).report = NoReport
  BY <1>1, <1>2, <1>3 DEF IInv, Reported, Latest, NoReport
<1>5. Order \in Orders
  BY DEF IInv, TypeOK, Order, Orders
<1>6. c \in Connections /\ c.order = Order /\ c.report = NoReport
  BY <1>3, <1>4, <1>5 DEF Connections
<1> HIDE DEF c
<1>7. OnlyChanged(i, n, c)
  BY <1>1, <1>3, <1>6, OneConnection DEF IInv
<1> QED
  BY <1>2, <1>3, <1>4, <1>6, <1>7

\* The order goes over a connection that had none: no slave has it yet.
LEMMA SendOrderKept == ASSUME IInv, SendOrder PROVE IInv'
<1> DEFINE i == master.i
<1>1. CASE MasterStops /\ UNCHANGED master
  BY <1>1, StoppedKept DEF SendOrder, boundVars, IInv, TypeOK
<1>2. CASE ~ (MasterStops /\ UNCHANGED master)
  <2> DEFINE n == Len(link[i])
  <2>1. /\ master.at = "send" /\ master' = NextSlave("read")
        /\ UNCHANGED <<masterUp, nb_clients, current_wave_number, slaves_stats,
                       master_stats, round, slave, accepted, boundVars>>
    BY <1>2 DEF SendOrder, Master
  <2>2. /\ master' \in MasterStates /\ i \in Slaves
        /\ \A s \in Slaves : s \in 0 .. NbSlaves - 1
        /\ \/ master'.at = "send" /\ master'.i = i + 1
           \/ master'.at = "read" /\ master'.i = 0 /\ i = NbSlaves - 1
        /\ Order' = Order
        /\ Counters' /\ Older' /\ SamplesAreOneLoad'
    BY <2>1, NextSlaveKept DEF UnderWay
  <2>3. \A s \in Slaves : link[s] \in Seq(Connections) /\ Len(link[s]) \in Nat
    BY LenProperties DEF IInv, TypeOK
  <2>4. \A s \in Slaves : link[s] # <<>> => Len(link[s]) \in 1 .. Len(link[s])
    BY <2>3, EmptySeq
  <2>5. n \in 1 .. n /\ Latest(i).order = NoOrder /\ Latest(i).report = NoReport
    BY <1>2, OrderSent
  <2>8. PICK c \in Connections : /\ c.order = Order /\ c.report = NoReport
                                 /\ OnlyChanged(i, n, c)
    BY <1>2, OrderSent
  <2>9. OnlyChanged(i, n, c)
    BY <2>8
  <2> HIDE DEF n
  <2>10. TypeOK'
    BY <2>1, <2>2, <2>9 DEF IInv, TypeOK, MasterStates, boundVars, OnlyChanged
  <2>11. Sent'
    <3>1. ASSUME NEW s \in Slaves
          PROVE  /\ link'[s] # <<>>
                 /\ Latest(s)'.order = IF s < i \/ s = i THEN Order ELSE NoOrder
      <4>1. link[s] # <<>> /\ Latest(s).order = IF s < i THEN Order ELSE NoOrder
        BY <2>1 DEF IInv, Sent
      <4>2. /\ Len(link'[s]) = Len(link[s]) /\ Len(link[s]) \in 1 .. Len(link[s])
            /\ link'[s] \in Seq(Connections)
        BY <2>4, <2>9, <4>1 DEF OnlyChanged
      <4>3. link'[s] # <<>>
        BY <4>2, EmptySeq
      <4>4. Latest(s)' = IF s = i THEN c ELSE Latest(s)
        BY <2>9, <4>2 DEF OnlyChanged, Latest, n
      <4> QED
        BY <2>8, <4>1, <4>3, <4>4
    <3>2. \A s \in Slaves : s < i + 1 <=> s < i \/ s = i
      BY <2>2
    <3>3. CASE master'.at = "send"
      BY <2>2, <3>1, <3>2, <3>3 DEF Sent
    <3>4. CASE master'.at = "read"
      <4>1. \A s \in Slaves : s < i \/ s = i
        BY <2>2, <3>4
      <4> QED
        BY <2>2, <3>1, <3>4, <4>1 DEF Sent
    <3> QED
      BY <2>2, <3>3, <3>4
  <2>12. Reported'
    <3> SUFFICES ASSUME NEW s \in Slaves
                 PROVE  /\ \A k \in 1 .. Len(link'[s]) :
                             \/ link'[s][k].report = NoReport
                             \/ link'[s][k].report = link'[s][k].order
                        /\ slave[s].at \notin {"accept", "dead"} => accepted[s] > 0
                        /\ slave[s].at \in {"run", "report"} =>
                             /\ slave[s].order = link'[s][accepted[s]].order
                             /\ slave[s].order # NoOrder
      BY <2>1 DEF Reported, Own
    <3>1. \A k \in 1 .. Len(link'[s]) :
             \/ link'[s][k].report = NoReport
             \/ link'[s][k].report = link'[s][k].order
      BY <2>8, <2>9 DEF IInv, Reported, OnlyChanged
    <3>2. ASSUME slave[s].at \in {"run", "report"}
          PROVE  link'[s][accepted[s]].order = link[s][accepted[s]].order
      <4>1. /\ accepted[s] \in 1 .. Len(link[s])
            /\ link[s][accepted[s]].order # NoOrder
        BY <3>2, SlaveNow DEF Own
      <4>2. ~ (s = i /\ accepted[s] = n)
        BY <2>5, <4>1 DEF Latest, n
      <4> QED
        BY <2>9, <4>1, <4>2 DEF OnlyChanged
    <3> QED
      BY <3>1, <3>2 DEF IInv, Reported, Own
  <2>13. Collected'
    BY <2>1, <2>2 DEF Collected
  <2> QED
    BY <2>2, <2>10, <2>11, <2>12, <2>13 DEF IInv
<1> QED
  BY <1>1, <1>2

\* Reading a report writes nothing: the master closes its end.
LEMMA ReportRead ==
  ASSUME IInv, ReadReport
  PROVE  /\ SameOrders /\ SameReports
         /\ Latest(master.i).report = Order /\ Order \in Orders
<1> DEFINE i == master.i
           c == [Latest(i) EXCEPT !.masterOpen = FALSE]
           n == Len(link[i])
<1>1. /\ master.at = "read" /\ i \in Slaves /\ Latest(i).report # NoReport
      /\ link' = [link EXCEPT ![i] = [link[i] EXCEPT ![n] = c]]
  BY DEF ReadReport, Master, SetLatest, IInv, TypeOK
<1>2. link[i] \in Seq(Connections) /\ link[i] # <<>> /\ Latest(i).order = Order
  BY <1>1 DEF IInv, TypeOK, Sent
<1>3. n \in 1 .. n /\ Latest(i) \in Connections
  BY <1>2, EmptySeq, LenProperties, ElementOfSeq DEF Latest
<1>4. Latest(i).report = Order /\ Order \in Orders
  BY <1>1, <1>2, <1>3 DEF IInv, Reported, Latest, Connections
<1>5. c \in Connections /\ c.order = Latest(i).order /\ c.report = Latest(i).report
  BY <1>3 DEF Connections
<1> HIDE DEF c
<1>6. OnlyChanged(i, n, c)
  BY <1>1, <1>3, <1>5, OneConnection DEF IInv
<1>7. SameOrders /\ SameReports
  BY <1>5, <1>6 DEF OnlyChanged, SameOrders, SameReports, Latest
<1> QED
  BY <1>4, <1>7

\* The report read is the order of the connection it is read from.
LEMMA ReadReportKept == ASSUME IInv, ReadReport PROVE IInv'
<1> DEFINE i == master.i
<1>1. /\ master.at = "read" /\ master' = NextSlave("fill")
      /\ slaves_stats' = IF master.warm THEN slaves_stats
                         ELSE [slaves_stats EXCEPT ![i] = Latest(i).report]
      /\ UNCHANGED <<masterUp, nb_clients, current_wave_number, master_stats,
                     round, slave, accepted, boundVars>>
  BY DEF ReadReport, Master, AllRead
<1>2. /\ master' \in MasterStates /\ i \in Slaves
      /\ \A s \in Slaves : s \in 0 .. NbSlaves - 1
      /\ master'.warm = master.warm
      /\ \/ master'.at = "read" /\ master'.i = i + 1
         \/ master'.at = "fill" /\ master'.i = 0 /\ i = NbSlaves - 1
      /\ Order' = Order
      /\ Counters' /\ Older' /\ SamplesAreOneLoad'
  BY <1>1, NextSlaveKept DEF UnderWay
<1>5. Latest(i).report = Order /\ Latest(i).report \in Orders
  BY ReportRead
<1>8. SameOrders /\ SameReports
  BY ReportRead
<1>9. slaves_stats \in [Slaves -> Orders] /\ slaves_stats' \in [Slaves -> Orders]
  BY <1>1, <1>5 DEF IInv, TypeOK
<1>10. TypeOK'
  BY <1>1, <1>2, <1>8, <1>9 DEF IInv, TypeOK, MasterStates, boundVars, SameOrders
<1>11. Sent'
  <2> SUFFICES ASSUME NEW s \in Slaves, master'.at = "read"
               PROVE  link'[s] # <<>> /\ Latest(s)'.order = Order
    BY <1>2 DEF Sent
  <2>1. link[s] # <<>> /\ Latest(s).order = Order
    BY <1>1 DEF IInv, Sent
  <2> QED
    BY <1>8, <2>1, LatestKept
<1>12. Reported'
  BY <1>1, <1>8, ReportedKept
<1>13. Collected'
  <2> SUFFICES ASSUME NEW s \in Slaves, ~ master.warm, s < i \/ s = i
               PROVE  slaves_stats'[s] = Order
    BY <1>2 DEF Collected
  <2> QED
    BY <1>1, <1>5, <1>9 DEF IInv, Collected
<1> QED
  BY <1>2, <1>10, <1>11, <1>12, <1>13 DEF IInv

-----------------------------------------------------------------------------
(***************************************************************************)
(* The steps of the master: from load to load                              *)
(***************************************************************************)

\* The samples of a table are of types, loads and an order the tables need.
LEMMA Tables ==
  ASSUME IInv
  PROVE  /\ current_wave_number \in Nat /\ NbWaves \in Nat /\ round \in Nat
         /\ 0 \in Slaves
         /\ Iterations \in Nat \ {0}
         /\ master \in MasterStates
         /\ Load(current_wave_number) <= NbMax <=> current_wave_number < NbWaves
         /\ Load(current_wave_number + 1) = Load(current_wave_number) + Step
         /\ Load(current_wave_number) \in Nat
         /\ \A w \in 0 .. NbWaves - 1 : /\ master_stats[w] \in Seq([Slaves -> Orders])
                                        /\ Len(master_stats[w]) \in Nat
<1>1. current_wave_number \in Nat /\ NbWaves \in Nat
  BY WavesCounted DEF IInv, TypeOK
<1>2. 0 \in Slaves /\ Iterations \in Nat \ {0}
  BY CampaignAssumption DEF Slaves
<1> QED
  BY <1>1, <1>2, WavesCounted, LenProperties DEF IInv, TypeOK, MasterStates

\* A load that starts with the tables in order.
LEMMA NewLoad ==
  ASSUME IInv, NEW warm \in BOOLEAN, NEW iter \in 0 .. Iterations - 1,
         BeginLoad(warm, iter), warm => iter = 0,
         current_wave_number < NbWaves,
         UNCHANGED <<masterUp, nb_clients, current_wave_number, slave, link,
                     accepted, boundVars>>,
         slaves_stats' \in [Slaves -> Orders],
         master_stats' \in [0 .. NbWaves - 1 -> Seq([Slaves -> Orders])],
         \A w \in 0 .. NbWaves - 1 :
           Len(master_stats'[w]) = IF w < current_wave_number THEN Iterations
                                   ELSE IF w = current_wave_number THEN iter ELSE 0,
         \A w \in 0 .. NbWaves - 1 : \A k \in 1 .. Len(master_stats'[w]) :
           master_stats'[w][k][0].round \in Nat /\ master_stats'[w][k][0].round <= round,
         SamplesAreOneLoad'
  PROVE  IInv'
<1>1. /\ master' = [at |-> "connect", i |-> 0, iter |-> iter, warm |-> warm]
      /\ round' = round + 1 /\ round \in Nat
  BY Tables DEF BeginLoad
<1>2. /\ master'.at = "connect" /\ master'.i = 0 /\ master'.iter = iter
      /\ master'.warm = warm
  BY <1>1
<1>3. \A s \in Slaves : ~ (s < 0)
  BY DEF Slaves
<1>4. SameOrders /\ SameReports
  BY LinkAsIs DEF IInv
<1>5. TypeOK'
  <2>1. master' \in MasterStates
    BY <1>1, Tables DEF MasterStates
  <2> QED
    BY <1>1, <2>1 DEF IInv, TypeOK, MasterStates, boundVars
<1>6. Counters'
  BY <1>1, <1>2 DEF IInv, Counters, SamplesOf, UnderWay
<1>7. Sent' /\ Collected'
  BY <1>2, <1>3 DEF Sent, Collected
<1>8. Reported'
  BY <1>4, ReportedKept
<1>9. Older'
  BY <1>1 DEF Older
<1> QED
  BY <1>5, <1>6, <1>7, <1>8, <1>9 DEF IInv

\* The samples in the tables, when none is added.
LEMMA TablesKept ==
  ASSUME IInv, UNCHANGED <<master_stats, slaves_stats>>
  PROVE  /\ slaves_stats' \in [Slaves -> Orders]
         /\ master_stats' \in [0 .. NbWaves - 1 -> Seq([Slaves -> Orders])]
         /\ \A w \in 0 .. NbWaves - 1 : \A k \in 1 .. Len(master_stats'[w]) :
              /\ master_stats'[w][k][0].round \in Nat
              /\ master_stats'[w][k][0].round <= round
         /\ SamplesAreOneLoad'
<1>1. \A w \in 0 .. NbWaves - 1 : \A k \in 1 .. Len(master_stats[w]) :
        master_stats[w][k][0] \in Orders
  BY Tables, ElementOfSeq
<1>2. SamplesAreOneLoad'
  BY DEF IInv, SamplesAreOneLoad
<1> QED
  BY <1>1, <1>2 DEF IInv, TypeOK, Older, Orders

\* The loop over the waves goes on: there is a row of the table left for it.
LEMMA BeginWaveKept == ASSUME IInv, BeginWave PROVE IInv'
<1>1. /\ master.at = "wave" /\ nb_clients <= NbMax /\ BeginLoad(Warmup, 0)
      /\ UNCHANGED <<masterUp, nb_clients, current_wave_number, slaves_stats,
                     master_stats, slave, link, accepted, boundVars>>
  BY DEF BeginWave, Master
<1>2. current_wave_number < NbWaves
  BY <1>1, Tables DEF IInv, Counters
<1>3. 0 \in 0 .. Iterations - 1 /\ Warmup \in BOOLEAN
  BY CampaignAssumption
<1>4. \A w \in 0 .. NbWaves - 1 :
        Len(master_stats'[w]) = IF w < current_wave_number THEN Iterations
                                ELSE IF w = current_wave_number THEN 0 ELSE 0
  BY <1>1 DEF IInv, Counters, SamplesOf, UnderWay
<1> QED
  BY <1>1, <1>2, <1>3, <1>4, TablesKept, NewLoad

\* The reports of a warm-up are dropped, and the first measured load begins.
LEMMA EndWarmupKept == ASSUME IInv, EndWarmup PROVE IInv'
<1>1. /\ master.at = "fill" /\ master.warm /\ BeginLoad(FALSE, 0)
      /\ UNCHANGED <<masterUp, nb_clients, current_wave_number, slaves_stats,
                     master_stats, slave, link, accepted, boundVars>>
  BY DEF EndWarmup, Master
<1>2. current_wave_number < NbWaves /\ master.iter = 0
  BY <1>1 DEF IInv, Counters, UnderWay
<1>3. 0 \in 0 .. Iterations - 1
  BY CampaignAssumption
<1>4. \A w \in 0 .. NbWaves - 1 :
        Len(master_stats'[w]) = IF w < current_wave_number THEN Iterations
                                ELSE IF w = current_wave_number THEN 0 ELSE 0
  BY <1>1, <1>2 DEF IInv, Counters, SamplesOf, UnderWay
<1> QED
  BY <1>1, <1>2, <1>3, <1>4, TablesKept, NewLoad

\* The sample is one of the present load, and goes to the end of its wave.
LEMMA SampleAdded ==
  ASSUME IInv, EndIteration
  PROVE  /\ master.at = "fill" /\ master.iter \in 0 .. Iterations - 1
         /\ current_wave_number \in 0 .. NbWaves - 1
         /\ slaves_stats' \in [Slaves -> Orders]
         /\ master_stats' \in [0 .. NbWaves - 1 -> Seq([Slaves -> Orders])]
         /\ \A w \in 0 .. NbWaves - 1 :
              Len(master_stats'[w]) = IF w < current_wave_number THEN Iterations
                                      ELSE IF w = current_wave_number
                                      THEN master.iter + 1 ELSE 0
         /\ \A w \in 0 .. NbWaves - 1 : \A k \in 1 .. Len(master_stats'[w]) :
              /\ master_stats'[w][k][0].round \in Nat
              /\ master_stats'[w][k][0].round <= round
         /\ SamplesAreOneLoad'
<1> DEFINE cur == current_wave_number
           old == master_stats[cur]
<1>1. /\ master.at = "fill" /\ ~ master.warm /\ slaves_stats' = NoStats
      /\ master_stats' = [master_stats EXCEPT ![cur] = Append(old, slaves_stats)]
  BY DEF EndIteration, Master
<1>2. /\ cur \in 0 .. NbWaves - 1 /\ cur < NbWaves /\ cur \in Nat /\ NbWaves \in Nat
      /\ master.iter \in 0 .. Iterations - 1 /\ round \in Nat
      /\ nb_clients = Load(cur) /\ 0 \in Slaves
      /\ \A w \in 0 .. NbWaves - 1 :
           Len(master_stats[w]) = IF w < cur THEN Iterations
                                  ELSE IF w = cur THEN master.iter ELSE 0
  BY <1>1, Tables DEF IInv, Counters, SamplesOf, UnderWay, MasterStates
<1>3. /\ slaves_stats \in [Slaves -> Orders] /\ old \in Seq([Slaves -> Orders])
      /\ master_stats \in [0 .. NbWaves - 1 -> Seq([Slaves -> Orders])]
  BY <1>2 DEF IInv, TypeOK
<1>4. \A s \in Slaves : /\ slaves_stats[s] = slaves_stats[0]
                        /\ slaves_stats[s].round = round
                        /\ slaves_stats[s].nb = Load(cur) /\ ~ slaves_stats[s].warm
  BY <1>1, <1>2 DEF IInv, Collected, Order
<1>5. /\ master_stats'[cur] = Append(old, slaves_stats)
      /\ master_stats'[cur] \in Seq([Slaves -> Orders])
      /\ Len(master_stats'[cur]) = Len(old) + 1
      /\ \A k \in 1 .. Len(old) : master_stats'[cur][k] = old[k]
      /\ master_stats'[cur][Len(old) + 1] = slaves_stats
  BY <1>1, <1>2, <1>3, AppendProperties
<1>6. \A w \in 0 .. NbWaves - 1 : w # cur => master_stats'[w] = master_stats[w]
  BY <1>1, <1>3
<1>7. master_stats' \in [0 .. NbWaves - 1 -> Seq([Slaves -> Orders])]
  BY <1>1, <1>3, <1>5
<1>8. Len(old) = master.iter
  BY <1>2
<1> HIDE DEF old
<1>9. ASSUME NEW w \in 0 .. NbWaves - 1, NEW k \in 1 .. Len(master_stats'[w])
      PROVE  \/ /\ k \in 1 .. Len(master_stats[w])
                /\ master_stats'[w][k] = master_stats[w][k]
             \/ /\ w = cur /\ k = master.iter + 1
                /\ master_stats'[w][k] = slaves_stats
  <2>1. CASE w = cur
    <3>1. k \in 1 .. Len(old) \/ k = Len(old) + 1
      BY <1>2, <1>5, <1>8, <2>1
    <3> QED
      BY <1>5, <1>8, <2>1, <3>1 DEF old
  <2>2. CASE w # cur
    BY <1>6, <2>2
  <2>3. w = cur \/ w # cur
    OBVIOUS
  <2> QED
    BY <2>1, <2>2, <2>3, Zenon
<1>10. \A w \in 0 .. NbWaves - 1 :
         Len(master_stats'[w]) = IF w < cur THEN Iterations
                                 ELSE IF w = cur THEN master.iter + 1 ELSE 0
  <2> SUFFICES ASSUME NEW w \in 0 .. NbWaves - 1
               PROVE  Len(master_stats'[w]) = IF w < cur THEN Iterations
                                              ELSE IF w = cur THEN master.iter + 1 ELSE 0
    OBVIOUS
  <2>1. CASE w = cur
    BY <1>2, <1>5, <1>8, <2>1
  <2>2. CASE w # cur
    <3>1. Len(master_stats'[w]) = IF w < cur THEN Iterations
                                  ELSE IF w = cur THEN master.iter ELSE 0
      BY <1>2, <1>6, <2>2
    <3> QED BY <2>2, <3>1
  <2> QED BY <2>1, <2>2
<1>11. \A w \in 0 .. NbWaves - 1 : \A k \in 1 .. Len(master_stats[w]) :
         /\ master_stats[w][k][0].round \in Nat
         /\ master_stats[w][k][0].round < round
  <2>1. \A w \in 0 .. NbWaves - 1 : \A k \in 1 .. Len(master_stats[w]) :
          master_stats[w][k][0] \in Orders
    BY Tables, ElementOfSeq
  <2> QED
    BY <1>1, <2>1 DEF IInv, Older, UnderWay, Orders
<1>12. \A w \in 0 .. NbWaves - 1 : \A k \in 1 .. Len(master_stats'[w]) :
         /\ master_stats'[w][k][0].round \in Nat
         /\ master_stats'[w][k][0].round <= round
  <2> SUFFICES ASSUME NEW w \in 0 .. NbWaves - 1, NEW k \in 1 .. Len(master_stats'[w])
               PROVE  /\ master_stats'[w][k][0].round \in Nat
                      /\ master_stats'[w][k][0].round <= round
    OBVIOUS
  <2>1. CASE /\ k \in 1 .. Len(master_stats[w])
             /\ master_stats'[w][k] = master_stats[w][k]
    BY <1>2, <1>11, <2>1
  <2>2. CASE master_stats'[w][k] = slaves_stats
    BY <1>2, <1>4, <2>2
  <2> QED
    BY <1>9, <2>1, <2>2
<1>13. SamplesAreOneLoad'
  <2> SUFFICES ASSUME NEW w \in 0 .. NbWaves - 1, NEW k \in 1 .. Len(master_stats'[w])
               PROVE  /\ \A s \in Slaves :
                           /\ master_stats'[w][k][s] = master_stats'[w][k][0]
                           /\ master_stats'[w][k][s].nb = NbMin + w * Step
                           /\ ~ master_stats'[w][k][s].warm
                      /\ \A v \in 0 .. w : \A j \in 1 .. Len(master_stats'[v]) :
                           v < w \/ j < k =>
                             master_stats'[v][j][0].round < master_stats'[w][k][0].round
    BY DEF SamplesAreOneLoad
  <2>1. ASSUME NEW s \in Slaves
        PROVE  /\ master_stats'[w][k][s] = master_stats'[w][k][0]
               /\ master_stats'[w][k][s].nb = NbMin + w * Step
               /\ ~ master_stats'[w][k][s].warm
    BY <1>4, <1>9 DEF IInv, SamplesAreOneLoad, Load
  <2>2. ASSUME NEW v \in 0 .. w, NEW j \in 1 .. Len(master_stats'[v]), v < w \/ j < k
        PROVE  master_stats'[v][j][0].round < master_stats'[w][k][0].round
    <3>1. v \in 0 .. NbWaves - 1 /\ v <= w /\ w \in Nat /\ v \in Nat
      BY <1>2
    <3>2. CASE /\ v = cur /\ j = master.iter + 1
               /\ master_stats'[v][j] = slaves_stats
      <4>1. w = cur \/ w > cur
        BY <1>2, <3>1, <3>2
      <4>2. Len(master_stats'[w]) = IF w = cur THEN master.iter + 1 ELSE 0
        BY <1>2, <1>10, <4>1
      <4>3. k <= Len(master_stats'[w]) /\ k >= 1 /\ k \in Nat
        BY <1>2, <1>10, <4>2
      <4> QED
        BY <1>2, <2>2, <3>2, <4>1, <4>2, <4>3
    <3>3. CASE /\ j \in 1 .. Len(master_stats[v])
               /\ master_stats'[v][j] = master_stats[v][j]
      <4>1. CASE /\ k \in 1 .. Len(master_stats[w])
                 /\ master_stats'[w][k] = master_stats[w][k]
        BY <2>2, <3>3, <4>1 DEF IInv, SamplesAreOneLoad
      <4>2. CASE master_stats'[w][k] = slaves_stats
        BY <1>2, <1>4, <1>11, <3>1, <3>3, <4>2
      <4> QED
        BY <1>9, <4>1, <4>2
    <3> QED
      BY <1>9, <3>1, <3>2, <3>3
  <2> QED
    BY <2>1, <2>2
<1>14. slaves_stats' \in [Slaves -> Orders]
  BY <1>1 DEF NoStats, NoReport, NoOrder, Orders
<1> QED
  BY <1>1, <1>2, <1>7, <1>10, <1>12, <1>13, <1>14

\* A sample is added, and the next load of the wave begins, or the wave is over.
LEMMA EndIterationKept == ASSUME IInv, EndIteration PROVE IInv'
<1>1. UNCHANGED <<masterUp, slave, link, accepted, boundVars>>
  BY DEF EndIteration
<1>2. SameOrders /\ SameReports
  BY <1>1, LinkAsIs DEF IInv
<1>3. CASE MoreIterations
  <2>1. /\ BeginLoad(FALSE, master.iter + 1)
        /\ UNCHANGED <<nb_clients, current_wave_number>>
    BY <1>3 DEF EndIteration
  <2>2. master.iter + 1 \in 0 .. Iterations - 1 /\ current_wave_number < NbWaves
    BY <1>3, SampleAdded, Tables DEF MoreIterations
  <2> QED
    BY <1>1, <2>1, <2>2, SampleAdded, NewLoad
<1>4. CASE ~ MoreIterations
  <2>1. /\ master' = [master EXCEPT !.at = "wave"]
        /\ current_wave_number' = current_wave_number + 1
        /\ nb_clients' = nb_clients + Step /\ round' = round
    BY <1>4 DEF EndIteration, NextWave
  <2>2. /\ master \in MasterStates /\ Iterations \in Nat /\ round \in Nat
        /\ current_wave_number \in Nat /\ NbWaves \in Nat
        /\ nb_clients = Load(current_wave_number)
    BY Tables DEF IInv, Counters
  <2>3. /\ master' \in MasterStates /\ master'.at = "wave"
        /\ master'.iter = master.iter /\ master'.warm = master.warm
        /\ master.at = "fill"
    BY <2>1, <2>2, SampleAdded DEF MasterStates
  <2>4. master.iter + 1 = Iterations
    BY <1>4, <2>2, SampleAdded DEF MoreIterations
  <2>5. /\ nb_clients' = Load(current_wave_number') /\ nb_clients' \in Nat
        /\ current_wave_number' \in 0 .. NbWaves
    <3> DEFINE w == current_wave_number
    <3>1. w \in Nat /\ w + 1 \in Nat /\ w + 1 \in 0 .. NbWaves
      BY <2>2, SampleAdded
    <3>2. Load(w + 1) = Load(w) + Step /\ Load(w + 1) \in Nat
      BY <3>1, WavesCounted
    <3> QED BY <2>1, <2>2, <3>1, <3>2
  <2>6. TypeOK'
    BY <1>1, <2>1, <2>2, <2>3, <2>5, SampleAdded DEF IInv, TypeOK, MasterStates, boundVars
  <2>7. Counters'
    <3>1. \A w \in 0 .. NbWaves - 1 : Len(master_stats'[w]) = SamplesOf(w)'
      BY <2>1, <2>2, <2>3, <2>4, SampleAdded DEF SamplesOf, UnderWay
    <3> QED
      BY <2>3, <2>5, <3>1 DEF IInv, Counters, UnderWay
  <2>8. Sent' /\ Collected'
    BY <2>3 DEF Sent, Collected
  <2>9. Reported'
    BY <1>1, <1>2, ReportedKept
  <2>10. Older' /\ SamplesAreOneLoad'
    BY <2>1, <2>3, SampleAdded DEF Older, UnderWay
  <2> QED
    BY <2>6, <2>7, <2>8, <2>9, <2>10 DEF IInv
<1> QED
  BY <1>3, <1>4

\* The loop over the waves ends when nb_waves of them are over.
LEMMA FinishKept == ASSUME IInv, Finish PROVE IInv'
<1>1. /\ master.at = "wave" /\ nb_clients > NbMax
      /\ master' = [master EXCEPT !.at = "end"] /\ MasterStops
      /\ UNCHANGED <<nb_clients, current_wave_number, slaves_stats,
                     master_stats, round, slave, accepted, boundVars>>
  BY DEF Finish, Master
<1>2. /\ master \in MasterStates /\ nb_clients = Load(current_wave_number)
      /\ current_wave_number \in 0 .. NbWaves /\ NbWaves \in Nat
      /\ nb_clients \in Nat /\ NbMax \in Nat
  BY Tables, CampaignAssumption DEF IInv, Counters, TypeOK
<1>3. current_wave_number = NbWaves
  BY <1>1, <1>2, Tables
<1>4. /\ master' \in MasterStates /\ master'.at = "end"
      /\ master'.iter = master.iter /\ master'.warm = master.warm
  BY <1>1, <1>2 DEF MasterStates
<1>5. SameOrders /\ SameReports /\ masterUp' = FALSE
  BY <1>1, MasterClosed DEF IInv
<1>6. TypeOK'
  BY <1>1, <1>4, <1>5 DEF IInv, TypeOK, MasterStates, boundVars, SameOrders
<1>7. Counters'
  BY <1>1, <1>3, <1>4 DEF IInv, Counters, SamplesOf, UnderWay
<1>8. Sent' /\ Collected'
  BY <1>4 DEF Sent, Collected
<1>9. Reported'
  BY <1>1, <1>5, ReportedKept
<1>10. Older' /\ SamplesAreOneLoad'
  BY <1>1, <1>4 DEF IInv, Older, SamplesAreOneLoad, UnderWay
<1> QED
  BY <1>6, <1>7, <1>8, <1>9, <1>10 DEF IInv

\* What a master starts with: no sample, and the first wave.
LEMMA FirstTables ==
  ASSUME NEW t, t = [w \in 0 .. NbWaves - 1 |-> <<>>]
  PROVE  /\ t \in [0 .. NbWaves - 1 -> Seq([Slaves -> Orders])]
         /\ \A w \in 0 .. NbWaves - 1 : Len(t[w]) = 0 /\ 1 .. Len(t[w]) = {}
         /\ NbMin = Load(0) /\ NbMin \in Nat /\ NbWaves \in Nat
         /\ 0 \in 0 .. NbWaves
         /\ FirstMaster \in MasterStates /\ FirstMaster.at = "wave"
         /\ ~ FirstMaster.warm
         /\ NoStats \in [Slaves -> Orders]
<1>1. <<>> \in Seq([Slaves -> Orders]) /\ Len(<<>>) = 0
  BY EmptySeq
<1>2. \A w \in 0 .. NbWaves - 1 : t[w] = <<>>
  OBVIOUS
<1>3. NbMin \in Nat /\ Step \in Nat /\ NbMin = Load(0)
  BY CampaignAssumption DEF Load
<1>4. NbWaves \in Nat /\ 0 \in 0 .. NbWaves
  BY WavesCounted
<1>5. FirstMaster \in MasterStates /\ FirstMaster.at = "wave" /\ ~ FirstMaster.warm
  BY CampaignAssumption DEF FirstMaster, MasterStates, Slaves
<1>6. NoStats \in [Slaves -> Orders]
  BY DEF NoStats, NoReport, NoOrder, Orders
<1>7. t \in [0 .. NbWaves - 1 -> Seq([Slaves -> Orders])]
  BY <1>1
<1> QED
  BY <1>1, <1>2, <1>3, <1>4, <1>5, <1>6, <1>7

\* A master that is started again knows of no sample, whatever its slaves do.
LEMMA MasterStartsKept == ASSUME IInv, MasterStarts PROVE IInv'
<1>1. /\ masters' = masters + 1 /\ masters < MaxMasters /\ masterUp' = TRUE
      /\ master' = FirstMaster /\ nb_clients' = NbMin /\ current_wave_number' = 0
      /\ slaves_stats' = NoStats
      /\ master_stats' = [w \in 0 .. NbWaves - 1 |-> <<>>]
      /\ UNCHANGED <<slave, link, accepted, round, kills, faults>>
  BY DEF MasterStarts
<1>2. /\ master_stats' \in [0 .. NbWaves - 1 -> Seq([Slaves -> Orders])]
      /\ \A w \in 0 .. NbWaves - 1 :
           Len(master_stats'[w]) = 0 /\ 1 .. Len(master_stats'[w]) = {}
      /\ NbMin = Load(0) /\ NbMin \in Nat /\ NbWaves \in Nat
      /\ 0 \in 0 .. NbWaves
      /\ FirstMaster \in MasterStates /\ FirstMaster.at = "wave"
      /\ ~ FirstMaster.warm
      /\ NoStats \in [Slaves -> Orders]
  BY <1>1, FirstTables
<1>3. masters' \in 1 .. MaxMasters
  BY <1>1, CampaignAssumption DEF IInv, TypeOK
<1>4. SameOrders /\ SameReports
  BY <1>1, LinkAsIs DEF IInv
<1>5. TypeOK'
  BY <1>1, <1>2, <1>3 DEF IInv, TypeOK, MasterStates
<1>6. Counters'
  <2>1. \A w \in 0 .. NbWaves - 1 : SamplesOf(w)' = 0
    BY <1>1, <1>2 DEF SamplesOf, UnderWay
  <2> QED
    BY <1>1, <1>2, <2>1 DEF Counters, UnderWay
<1>7. Sent' /\ Collected'
  BY <1>1, <1>2 DEF Sent, Collected
<1>8. Reported'
  BY <1>1, <1>4, ReportedKept
<1>9. Older' /\ SamplesAreOneLoad'
  BY <1>2 DEF Older, SamplesAreOneLoad
<1> QED
  BY <1>5, <1>6, <1>7, <1>8, <1>9 DEF IInv

\* Every step of the master.
LEMMA MasterKept ==
  ASSUME IInv, MasterStep \/ MasterKilled \/ MasterStarts PROVE IInv'
<1>1. CASE ReadReportFails
  BY <1>1, StoppedKept DEF ReadReportFails, boundVars, IInv, TypeOK
<1>2. CASE MasterKilled
  <2>1. kills' \in 0 .. MaxKills
    BY <1>2, CampaignAssumption DEF MasterKilled, IInv, TypeOK
  <2> QED
    BY <1>2, <2>1, StoppedKept DEF MasterKilled, IInv, TypeOK
<1> QED
  BY <1>1, <1>2, BeginWaveKept, FinishKept, ConnectToSlaveKept, SendOrderKept,
     ReadReportKept, EndWarmupKept, EndIterationKept, MasterStartsKept
  DEF MasterStep

-----------------------------------------------------------------------------
(***************************************************************************)
(* The theorems                                                            *)
(***************************************************************************)
\* The invariant holds when master and slaves start.
LEMMA InitInv == ASSUME Init PROVE IInv
<1>1. /\ master = FirstMaster /\ masterUp = TRUE /\ nb_clients = NbMin
      /\ current_wave_number = 0 /\ slaves_stats = NoStats
      /\ master_stats = [w \in 0 .. NbWaves - 1 |-> <<>>]
      /\ slave = [s \in Slaves |-> [at |-> "accept", order |-> NoOrder]]
      /\ link = [s \in Slaves |-> <<>>] /\ accepted = [s \in Slaves |-> 0]
      /\ round = 0 /\ masters = 1 /\ kills = 0 /\ faults = 0
  BY DEF Init
<1>2. /\ master_stats \in [0 .. NbWaves - 1 -> Seq([Slaves -> Orders])]
      /\ \A w \in 0 .. NbWaves - 1 :
           Len(master_stats[w]) = 0 /\ 1 .. Len(master_stats[w]) = {}
      /\ NbMin = Load(0) /\ NbMin \in Nat /\ NbWaves \in Nat
      /\ 0 \in 0 .. NbWaves
      /\ FirstMaster \in MasterStates /\ FirstMaster.at = "wave"
      /\ ~ FirstMaster.warm
      /\ NoStats \in [Slaves -> Orders]
  BY <1>1, FirstTables
<1>3. /\ link \in [Slaves -> Seq(Connections)] /\ accepted \in [Slaves -> Nat]
      /\ \A s \in Slaves : Len(link[s]) = 0 /\ accepted[s] = 0
  BY <1>1, EmptySeq
<1>4. slave \in [Slaves -> SlaveStates] /\ \A s \in Slaves : slave[s].at = "accept"
  BY <1>1 DEF SlaveStates, NoOrder, Orders
<1>5. TypeOK
  BY <1>1, <1>2, <1>3, <1>4, CampaignAssumption
  DEF TypeOK, MasterStates, SlaveStates
<1>6. Counters
  <2>1. \A w \in 0 .. NbWaves - 1 : SamplesOf(w) = 0
    BY <1>1, <1>2 DEF SamplesOf, UnderWay
  <2> QED
    BY <1>1, <1>2, <2>1 DEF Counters, UnderWay
<1>7. Sent /\ Collected
  BY <1>1, <1>2 DEF Sent, Collected
<1>8. Reported
  BY <1>3, <1>4 DEF Reported
<1>9. Older /\ SamplesAreOneLoad
  BY <1>2 DEF Older, SamplesAreOneLoad
<1> QED
  BY <1>5, <1>6, <1>7, <1>8, <1>9 DEF IInv

\* No step of master, slave, operator or kernel breaks the invariant.
LEMMA NextInv == IInv /\ [Next]_vars => IInv'
<1> SUFFICES ASSUME IInv, [Next]_vars PROVE IInv'
  OBVIOUS
<1>1. CASE UNCHANGED vars
  BY <1>1 DEF vars, masterVars, boundVars, IInv, TypeOK, Counters, SamplesOf,
     Sent, Reported, Collected, Older, SamplesAreOneLoad, Latest, Own, Order
<1>2. CASE Terminated
  BY <1>1, <1>2 DEF Terminated
<1> QED
  BY <1>1, <1>2, MasterKept, SlaveKept DEF Next

\* The inductive invariant holds in every reachable state, whatever the number
\* of slaves, the configuration of the benchmark, and the processes that stop.
THEOREM CampaignInvariance == Spec => []IInv
  BY InitInv, NextInv, PTL DEF Spec

\* The variables of master and slaves keep their types, and no slave accepts
\* a connection that was not made.
THEOREM CampaignTypeCorrect == Spec => []TypeOK
<1>1. IInv => TypeOK
  BY DEF IInv
<1> QED
  BY <1>1, CampaignInvariance, PTL

\* Each sample of the table is made of one report of each slave, all for the
\* same measured load with the number of clients of its wave, and no load is
\* counted twice, whatever stops and starts again in between.
THEOREM SamplesAreOneLoadCorrect == Spec => []SamplesAreOneLoad
<1>1. IInv => SamplesAreOneLoad
  BY DEF IInv
<1> QED
  BY <1>1, CampaignInvariance, PTL

\* fill_master_stat_report never writes past the tables that main allocates,
\* insert_Lf's assertion holds, and a wave is printed with all its samples:
\* the number of waves from the division is the number of turns of the loop.
THEOREM TablesFitCorrect == Spec => []TablesFit
<1>1. IInv => TablesFit
  <2> SUFFICES ASSUME IInv PROVE TablesFit
    OBVIOUS
  <2>1. ASSUME master.at = "fill"
        PROVE  /\ current_wave_number < NbWaves
               /\ Len(master_stats[current_wave_number]) < Iterations
    <3>1. /\ current_wave_number < NbWaves
          /\ current_wave_number \in 0 .. NbWaves - 1
          /\ master.iter \in 0 .. Iterations - 1 /\ Iterations \in Nat
      BY <2>1, Tables DEF IInv, Counters, UnderWay, MasterStates
    <3>2. Len(master_stats[current_wave_number]) = master.iter
      BY <2>1, <3>1 DEF IInv, Counters, SamplesOf, UnderWay
    <3> QED
      BY <3>1, <3>2
  <2>2. \A w \in 0 .. NbWaves - 1 : w < current_wave_number =>
          Len(master_stats[w]) = Iterations
    BY DEF IInv, Counters, SamplesOf
  <2>3. master.at = "end" => current_wave_number = NbWaves
    BY DEF IInv, Counters
  <2> QED
    BY <2>1, <2>2, <2>3 DEF TablesFit
<1> QED
  BY <1>1, CampaignInvariance, PTL

-----------------------------------------------------------------------------
(***************************************************************************)
(* One slg_master at a time: the second invariant, which follows a load    *)
(* from slave to slave.                                                    *)
(***************************************************************************)

\* The master has not read the report of s that the present load is to bring.
AwaitsReport(s) ==
  \/ master.at = "connect" /\ s < master.i
  \/ master.at = "send"
  \/ master.at = "read" /\ ~ (s < master.i)

\* A connection that a slave has not served to the end has no report.
Unreported ==
  \A s \in Slaves :
    /\ slave[s].at \in {"order", "run", "report"} => Own(s).report = NoReport
    /\ \A k \in 1 .. Len(link[s]) : k > accepted[s] => link[s][k].report = NoReport

\* All other connections have one: the master makes none before it has read
\* the reports of all slaves over the ones before.
AllReported ==
  \A s \in Slaves : \A k \in 1 .. Len(link[s]) :
    link[s][k].report = NoReport => k = Len(link[s]) /\ AwaitsReport(s)

\* The slaves to which the master is connected for the present load.
ConnectedTo(s) == \/ master.at \in {"send", "read", "fill"}
                  \/ master.at = "connect" /\ s < master.i

\* Orders of earlier loads are told apart by their round.
Rounds ==
  \A s \in Slaves :
    /\ \A k \in 1 .. Len(link[s]) :
         /\ link[s][k].order.round <= round
         /\ master.at \in UnderWay /\ (k # Len(link[s]) \/ ~ ConnectedTo(s))
              => link[s][k].order.round < round
    /\ master.at = "fill" => link[s] # <<>> /\ Latest(s).order.round = round

\* The loads of a wave, and how many of them the present one has behind it.
PerWave == Iterations + (IF Warmup THEN 1 ELSE 0)
Within == IF master.warm THEN 0 ELSE (IF Warmup THEN 1 ELSE 0) + master.iter

Position ==
  /\ master.at \in UnderWay => round = current_wave_number * PerWave + Within + 1
  /\ master.at \notin UnderWay => round = current_wave_number * PerWave
  /\ master.at \in UnderWay /\ master.warm => Warmup

LoadInv == Unreported /\ AllReported /\ Rounds /\ Position

\* Connections and positions have the types the steps need.
LEMMA Links ==
  ASSUME IInv, NEW s \in Slaves
  PROVE  /\ link \in [Slaves -> Seq(Connections)] /\ link[s] \in Seq(Connections)
         /\ Len(link[s]) \in Nat
         /\ link[s] # <<>> <=> Len(link[s]) \in 1 .. Len(link[s])
         /\ \A k \in 1 .. Len(link[s]) :
              /\ link[s][k] \in Connections /\ link[s][k].order.round \in Nat
              /\ link[s][k].report \in {NoReport, link[s][k].order}
         /\ round \in Nat /\ accepted[s] \in Nat /\ accepted[s] <= Len(link[s])
<1>1. /\ link \in [Slaves -> Seq(Connections)] /\ link[s] \in Seq(Connections)
      /\ Len(link[s]) \in Nat
      /\ round \in Nat /\ accepted[s] \in Nat /\ accepted[s] <= Len(link[s])
  BY LenProperties DEF IInv, TypeOK
<1>2. link[s] # <<>> <=> Len(link[s]) \in 1 .. Len(link[s])
  BY <1>1, EmptySeq
<1>3. \A k \in 1 .. Len(link[s]) : link[s][k] \in Connections
  BY <1>1, ElementOfSeq
<1>4. \A k \in 1 .. Len(link[s]) : link[s][k].order.round \in Nat
  BY <1>3 DEF Connections, Orders
<1>5. \A k \in 1 .. Len(link[s]) : link[s][k].report \in {NoReport, link[s][k].order}
  BY DEF IInv, Reported
<1> QED
  BY <1>1, <1>2, <1>3, <1>4, <1>5

\* A slave that serves a connection serves the latest one, which is of the
\* present load, and loads the server with the order of that.
LEMMA ServesPresent ==
  ASSUME IInv, LoadInv, NEW s \in Slaves, slave[s].at \in {"order", "run", "report"}
  PROVE  /\ accepted[s] = Len(link[s]) /\ Len(link[s]) \in 1 .. Len(link[s])
         /\ AwaitsReport(s) /\ Own(s) = Latest(s) /\ Latest(s).report = NoReport
         /\ slave[s].at \in {"run", "report"} =>
              slave[s].order = Order /\ master.at \in {"send", "read"}
<1>1. /\ accepted[s] \in 1 .. Len(link[s]) /\ Own(s).report = NoReport
      /\ slave[s].at \in {"run", "report"} =>
           slave[s].order = Own(s).order /\ slave[s].order # NoOrder
  BY SlaveNow DEF LoadInv, Unreported
<1>2. accepted[s] = Len(link[s]) /\ AwaitsReport(s)
  BY <1>1 DEF LoadInv, AllReported, Own
<1>3. Own(s) = Latest(s)
  BY <1>2 DEF Own, Latest
<1>4. slave[s].at \in {"run", "report"} =>
        slave[s].order = Order /\ master.at \in {"send", "read"}
  BY <1>1, <1>2, <1>3 DEF AwaitsReport, IInv, Sent
<1> QED
  BY <1>1, <1>2, <1>3, <1>4

-----------------------------------------------------------------------------
(***************************************************************************)
(* The second invariant: every step keeps it.                              *)
(***************************************************************************)

\* Before the first load.
LEMMA InitLoad == ASSUME Init PROVE LoadInv
<1>1. /\ master.at = "wave" /\ ~ master.warm /\ current_wave_number = 0 /\ round = 0
      /\ \A s \in Slaves : slave[s].at = "accept" /\ link[s] = <<>>
  BY DEF Init, FirstMaster
<1>2. \A s \in Slaves : 1 .. Len(link[s]) = {}
  BY <1>1, EmptySeq
<1>3. PerWave \in Nat
  BY CampaignAssumption DEF PerWave
<1>4. Position
  BY <1>1, <1>3 DEF Position, UnderWay
<1> QED
  BY <1>1, <1>2, <1>4 DEF LoadInv, Unreported, AllReported, Rounds

\* The master stays where it is, and no message is written.
LEMMA NoMessage ==
  ASSUME IInv, LoadInv, SameOrders, SameReports,
         UNCHANGED <<master, current_wave_number, round>>, Unreported'
  PROVE  LoadInv'
<1>1. \A s \in Slaves : Len(link'[s]) = Len(link[s])
  BY DEF SameOrders
<1>2. AllReported' /\ Position'
  BY <1>1 DEF LoadInv, AllReported, AwaitsReport, Position, Within, SameReports
<1>3. Rounds'
  <2>1. \A s \in Slaves : link[s] # <<>> => link'[s] # <<>> /\ Latest(s)'.order = Latest(s).order
    BY LatestKept
  <2> QED
    BY <1>1, <2>1 DEF LoadInv, Rounds, ConnectedTo, SameOrders
<1> QED
  BY <1>2, <1>3 DEF LoadInv

\* No slave moves, and no report is written.
LEMMA NoSlave ==
  ASSUME IInv, LoadInv, SameOrders, SameReports, UNCHANGED <<slave, accepted>>
  PROVE  Unreported'
<1> SUFFICES ASSUME NEW s \in Slaves
             PROVE  /\ slave[s].at \in {"order", "run", "report"}
                         => link'[s][accepted[s]].report = NoReport
                    /\ \A k \in 1 .. Len(link'[s]) : k > accepted[s]
                         => link'[s][k].report = NoReport
  BY DEF Unreported, Own
<1>1. slave[s].at \in {"order", "run", "report"} => accepted[s] \in 1 .. Len(link[s])
  BY SlaveNow
<1> QED
  BY <1>1 DEF LoadInv, Unreported, Own, SameOrders, SameReports

\* A slave moves, or stops, or starts.
LEMMA SlaveMovesLoad ==
  ASSUME IInv, LoadInv, NEW s \in Slaves, SameOrders, SameReports,
         UNCHANGED <<master, current_wave_number, round>>,
         \A t \in Slaves \ {s} : slave'[t] = slave[t] /\ accepted'[t] = accepted[t],
         slave'[s].at \in {"order", "run", "report"} =>
           accepted'[s] \in 1 .. Len(link[s]) /\ link[s][accepted'[s]].report = NoReport,
         accepted'[s] \in Nat, accepted[s] <= accepted'[s]
  PROVE  LoadInv'
<1>1. ASSUME NEW t \in Slaves
      PROVE  /\ slave'[t].at \in {"order", "run", "report"}
                  => link'[t][accepted'[t]].report = NoReport
             /\ \A k \in 1 .. Len(link'[t]) : k > accepted'[t]
                  => link'[t][k].report = NoReport
  <2>1. /\ Len(link'[t]) = Len(link[t])
        /\ \A k \in 1 .. Len(link[t]) : link'[t][k].report = link[t][k].report
    BY DEF SameOrders, SameReports
  <2>2. CASE t = s
    <3>1. accepted[s] \in Nat /\ \A k \in 1 .. Len(link[s]) : k > accepted'[s] => k > accepted[s]
      BY Links
    <3> QED
      BY <2>1, <2>2, <3>1 DEF LoadInv, Unreported
  <2>3. CASE t # s
    <3>1. slave[t].at \in {"order", "run", "report"} => accepted[t] \in 1 .. Len(link[t])
      BY SlaveNow
    <3> QED
      BY <2>1, <2>3, <3>1 DEF LoadInv, Unreported, Own
  <2> QED
    BY <2>2, <2>3
<1>2. Unreported'
  BY <1>1 DEF Unreported, Own
<1> QED
  BY <1>2, NoMessage

\* The process of a slave ends.
LEMMA SlaveStopsLoad ==
  ASSUME IInv, LoadInv, NEW s \in Slaves, SlaveStops(s), UNCHANGED <<masterVars, accepted>>
  PROVE  LoadInv'
<1>1. SameOrders /\ SameReports
  BY SlaveClosed DEF IInv
<1>2. /\ slave'[s].at = "dead" /\ accepted[s] \in Nat
      /\ \A t \in Slaves \ {s} : slave'[t] = slave[t] /\ accepted'[t] = accepted[t]
  BY SlaveNow DEF SlaveStops
<1> QED
  BY <1>1, <1>2, SlaveMovesLoad DEF masterVars

\* The report over the connection the slave serves.
LEMMA SendStatResponseLoad ==
  ASSUME IInv, LoadInv, NEW s \in Slaves, SendStatResponse(s)
  PROVE  LoadInv'
<1>1. CASE SlaveStops(s)
  BY <1>1, SlaveStopsLoad DEF SendStatResponse, masterOnly
<1>2. CASE ~ SlaveStops(s)
  <2> DEFINE n == accepted[s]
             c == [Own(s) EXCEPT !.report = slave[s].order, !.slaveOpen = FALSE]
  <2>1. /\ slave[s].at = "report" /\ slave' = [slave EXCEPT ![s].at = "clean"]
        /\ link' = [link EXCEPT ![s] = [link[s] EXCEPT ![n] = c]]
        /\ UNCHANGED masterVars /\ UNCHANGED accepted
    BY <1>2 DEF SendStatResponse, masterOnly, Own
  <2>2. /\ n \in 1 .. Len(link[s]) /\ Own(s) \in Connections
        /\ slave[s].order = Own(s).order /\ slave[s].order # NoOrder
        /\ slave \in [Slaves -> SlaveStates]
    BY <2>1, SlaveNow
  <2>3. c \in Connections /\ c.order = Own(s).order /\ c.report # NoReport
    BY <2>2 DEF Connections, NoReport
  <2> HIDE DEF c
  <2>4. OnlyChanged(s, n, c)
    BY <2>1, <2>2, <2>3, OneConnection DEF IInv
  <2>5. SameOrders
    BY <2>3, <2>4 DEF OnlyChanged, SameOrders, Own
  <2>6. Unreported'
    <3> SUFFICES ASSUME NEW t \in Slaves
                 PROVE  /\ slave'[t].at \in {"order", "run", "report"}
                             => link'[t][accepted[t]].report = NoReport
                        /\ \A k \in 1 .. Len(link'[t]) : k > accepted[t]
                             => link'[t][k].report = NoReport
      BY <2>1 DEF Unreported, Own
    <3>1. CASE t = s
      <4>1. slave'[s].at = "clean"
        BY <2>1, <2>2 DEF SlaveStates
      <4>2. \A k \in 1 .. Len(link[s]) : k > n => k # n
        BY Links
      <4> QED
        BY <2>4, <3>1, <4>1, <4>2 DEF OnlyChanged, LoadInv, Unreported
    <3>2. CASE t # s
      <4>1. slave'[t] = slave[t]
        BY <2>1, <2>2, <3>2
      <4>2. slave[t].at \in {"order", "run", "report"} => accepted[t] \in 1 .. Len(link[t])
        BY SlaveNow
      <4> QED
        BY <2>4, <3>2, <4>1, <4>2 DEF OnlyChanged, LoadInv, Unreported, Own
    <3> QED
      BY <3>1, <3>2
  <2>7. AllReported'
    <3>1. \A t \in Slaves : \A k \in 1 .. Len(link[t]) :
            link'[t][k].report = NoReport => link[t][k].report = NoReport
      BY <2>3, <2>4 DEF OnlyChanged
    <3>2. \A t \in Slaves : Len(link'[t]) = Len(link[t]) /\ AwaitsReport(t)' = AwaitsReport(t)
      BY <2>1, <2>4 DEF OnlyChanged, AwaitsReport, masterVars
    <3> QED
      BY <3>1, <3>2 DEF LoadInv, AllReported
  <2>8. Rounds'
    <3>1. \A t \in Slaves : link[t] # <<>> => link'[t] # <<>> /\ Latest(t)'.order = Latest(t).order
      BY <2>5, LatestKept
    <3>2. \A t \in Slaves : /\ Len(link'[t]) = Len(link[t])
                            /\ \A k \in 1 .. Len(link[t]) : link'[t][k].order = link[t][k].order
      BY <2>5 DEF SameOrders
    <3> QED
      BY <2>1, <3>1, <3>2 DEF LoadInv, Rounds, ConnectedTo, masterVars
  <2>9. Position'
    BY <2>1 DEF LoadInv, Position, Within, masterVars
  <2> QED
    BY <2>6, <2>7, <2>8, <2>9 DEF LoadInv
<1> QED
  BY <1>1, <1>2

\* Every step of a slave.
LEMMA SlaveLoad ==
  ASSUME IInv, LoadInv, NEW s \in Slaves, SlaveStep(s) \/ SlaveFails(s) \/ SlaveStarts(s)
  PROVE  LoadInv'
<1>1. /\ slave \in [Slaves -> SlaveStates] /\ accepted \in [Slaves -> Nat]
      /\ accepted[s] \in Nat /\ Len(link[s]) \in Nat /\ accepted[s] <= Len(link[s])
      /\ slave[s].at \notin {"accept", "dead"} => accepted[s] \in 1 .. Len(link[s])
  BY SlaveNow, Links
<1>2. ASSUME UNCHANGED link PROVE SameOrders /\ SameReports
  BY <1>2, LinkAsIs DEF IInv
<1>3. CASE WaitMasterConnection(s)
  <2>1. /\ accepted[s] < Len(link[s]) /\ accepted' = [accepted EXCEPT ![s] = accepted[s] + 1]
        /\ slave' = [slave EXCEPT ![s].at = "order"] /\ UNCHANGED <<masterOnly, link>>
    BY <1>3 DEF WaitMasterConnection
  <2>2. /\ accepted'[s] \in 1 .. Len(link[s]) /\ accepted'[s] > accepted[s]
        /\ \A t \in Slaves \ {s} : slave'[t] = slave[t] /\ accepted'[t] = accepted[t]
    BY <1>1, <2>1
  <2>3. link[s][accepted'[s]].report = NoReport
    BY <2>2 DEF LoadInv, Unreported
  <2> QED
    BY <1>1, <1>2, <2>1, <2>2, <2>3, SlaveMovesLoad DEF masterOnly, masterVars
<1>4. ASSUME slave[s].at \in {"order", "run"}, UNCHANGED <<masterOnly, link, accepted>>,
             \A t \in Slaves \ {s} : slave'[t] = slave[t]
      PROVE  LoadInv'
  <2>1. link[s][accepted[s]].report = NoReport
    BY <1>4 DEF LoadInv, Unreported, Own
  <2> QED
    BY <1>1, <1>2, <1>4, <2>1, SlaveMovesLoad DEF masterOnly, masterVars
<1>5. CASE WaitMasterOrder(s)
  <2>1. CASE SlaveStops(s)
    BY <1>5, <2>1, SlaveStopsLoad DEF WaitMasterOrder, masterOnly
  <2>2. CASE ~ SlaveStops(s)
    BY <1>1, <1>4, <1>5, <2>2 DEF WaitMasterOrder
  <2> QED
    BY <2>1, <2>2
<1>6. CASE MasterOrderFails(s)
  BY <1>6, SlaveStopsLoad DEF MasterOrderFails, masterOnly
<1>7. CASE RunEnds(s)
  BY <1>1, <1>4, <1>7 DEF RunEnds
<1>8. CASE Clean(s) \/ SlaveStarts(s)
  <2>1. /\ slave' = [slave EXCEPT ![s].at = "accept"] /\ UNCHANGED <<masterOnly, link>>
        /\ \/ UNCHANGED accepted
           \/ accepted' = [accepted EXCEPT ![s] = Len(link[s])]
    BY <1>8 DEF Clean, SlaveStarts
  <2>2. /\ slave'[s].at = "accept" /\ accepted'[s] \in Nat /\ accepted[s] <= accepted'[s]
        /\ \A t \in Slaves \ {s} : slave'[t] = slave[t] /\ accepted'[t] = accepted[t]
    BY <1>1, <2>1 DEF SlaveStates
  <2> QED
    BY <1>2, <2>1, <2>2, SlaveMovesLoad DEF masterOnly, masterVars
<1>9. CASE SlaveFails(s)
  BY <1>9, SlaveStopsLoad DEF SlaveFails
<1> QED
  BY <1>3, <1>5, <1>6, <1>7, <1>8, <1>9, SendStatResponseLoad DEF SlaveStep

-----------------------------------------------------------------------------
(***************************************************************************)
(* The steps of the master                                                 *)
(***************************************************************************)

\* Writing to a connection, or making one, gives no slave a report.
LEMMA NoReportMade ==
  ASSUME IInv, LoadInv, UNCHANGED <<slave, accepted>>,
         \A t \in Slaves :
           /\ \A k \in 1 .. Len(link[t]) : link'[t][k].report = link[t][k].report
           /\ \A k \in 1 .. Len(link'[t]) :
                k \in 1 .. Len(link[t]) \/ link'[t][k].report = NoReport
  PROVE  Unreported'
<1> SUFFICES ASSUME NEW s \in Slaves
             PROVE  /\ slave[s].at \in {"order", "run", "report"}
                         => link'[s][accepted[s]].report = NoReport
                    /\ \A k \in 1 .. Len(link'[s]) : k > accepted[s]
                         => link'[s][k].report = NoReport
  BY DEF Unreported, Own
<1>1. slave[s].at \in {"order", "run", "report"} => accepted[s] \in 1 .. Len(link[s])
  BY SlaveNow
<1> QED
  BY <1>1 DEF LoadInv, Unreported, Own

\* The master goes on to the next slave of the load.
LEMMA SamePosition ==
  ASSUME IInv, LoadInv, NEW then \in UnderWay, master.at \in UnderWay,
         master' = NextSlave(then), UNCHANGED <<current_wave_number, round>>
  PROVE  Position' /\ master'.at \in UnderWay
<1>1. master \in MasterStates
  BY Tables
<1>2. /\ master'.iter = master.iter /\ master'.warm = master.warm
      /\ master'.at \in UnderWay
  BY <1>1 DEF NextSlave, MasterStates
<1> QED
  BY <1>2 DEF LoadInv, Position, Within

\* The master ends where it is.
LEMMA StoppedLoad ==
  ASSUME IInv, LoadInv, MasterStops,
         UNCHANGED <<master, current_wave_number, round, slave, accepted>>
  PROVE  LoadInv'
<1>1. SameOrders /\ SameReports
  BY MasterClosed DEF IInv
<1> QED
  BY <1>1, NoSlave, NoMessage

\* The slave has reported over every earlier connection: the master waits for
\* no report of it before it has made the new one.
LEMMA ConnectToSlaveLoad == ASSUME IInv, LoadInv, ConnectToSlave PROVE LoadInv'
<1> PICK i \in Slaves : i = master.i
  BY DEF IInv, TypeOK
<1>1. CASE slave[i].at = "dead"
  BY <1>1, StoppedLoad DEF ConnectToSlave
<1>2. CASE slave[i].at # "dead"
  <2>1. /\ master.at = "connect" /\ master' = NextSlave("send")
        /\ link' = [link EXCEPT ![i] = Append(link[i], NewConnection)]
        /\ UNCHANGED <<nb_clients, current_wave_number, master_stats, round>>
        /\ UNCHANGED <<slave, accepted>>
    BY <1>2 DEF ConnectToSlave, Master
  <2>2. /\ \A s \in Slaves : s \in 0 .. NbSlaves - 1
        /\ \/ master'.at = "connect" /\ master'.i = i + 1
           \/ master'.at = "send" /\ master'.i = 0 /\ i = NbSlaves - 1
    BY <2>1, NextSlaveKept DEF UnderWay
  <2>3. Position' /\ master'.at \in UnderWay
    BY <2>1, SamePosition DEF UnderWay
  <2>4. /\ Len(link[i]) \in Nat /\ Len(link'[i]) = Len(link[i]) + 1
        /\ \A k \in 1 .. Len(link[i]) : link'[i][k] = link[i][k]
        /\ link'[i][Len(link[i]) + 1] = NewConnection
        /\ \A s \in Slaves : s # i => link'[s] = link[s]
    BY <2>1, <2>2, NewLink
  <2>5. \A k \in 1 .. Len(link'[i]) :
          k \in 1 .. Len(link[i]) \/ k = Len(link[i]) + 1
    BY <2>4
  <2>6. /\ NewConnection.report = NoReport /\ NewConnection.order.round = 0
        /\ round \in Nat
    BY Tables DEF NewConnection, NoOrder
  <2>7. Unreported'
    <3>1. ASSUME NEW t \in Slaves
          PROVE  /\ \A k \in 1 .. Len(link[t]) : link'[t][k].report = link[t][k].report
                 /\ \A k \in 1 .. Len(link'[t]) :
                      k \in 1 .. Len(link[t]) \/ link'[t][k].report = NoReport
      BY <2>4, <2>5, <2>6
    <3> QED
      BY <2>1, <3>1, NoReportMade
  <2>8. /\ ~ ConnectedTo(i) /\ ~ AwaitsReport(i)
        /\ ConnectedTo(i)' /\ AwaitsReport(i)'
        /\ \A s \in Slaves : /\ ConnectedTo(s) => ConnectedTo(s)'
                             /\ AwaitsReport(s) => AwaitsReport(s)'
    <3>1. /\ i \in Int /\ \A s \in Slaves : s \in Int
          /\ \A s \in Slaves : s < i => s < i + 1
          /\ ~ (i < i) /\ i < i + 1
      BY <2>2
    <3>2. CASE master'.at = "connect" /\ master'.i = i + 1
      BY <2>1, <2>2, <3>1, <3>2 DEF ConnectedTo, AwaitsReport
    <3>3. CASE master'.at = "send"
      BY <2>1, <2>2, <3>1, <3>3 DEF ConnectedTo, AwaitsReport
    <3> QED
      BY <2>2, <3>2, <3>3
  <2>9. AllReported'
    <3> SUFFICES ASSUME NEW s \in Slaves, NEW k \in 1 .. Len(link'[s]),
                        link'[s][k].report = NoReport
                 PROVE  k = Len(link'[s]) /\ AwaitsReport(s)'
      BY DEF AllReported
    <3>1. CASE s = i
      <4>1. k \notin 1 .. Len(link[i])
        BY <2>4, <2>8, <3>1 DEF LoadInv, AllReported
      <4> QED
        BY <2>4, <2>5, <2>8, <3>1, <4>1
    <3>2. CASE s # i
      BY <2>4, <2>8, <3>2 DEF LoadInv, AllReported
    <3> QED
      BY <3>1, <3>2
  <2>10. Rounds'
    <3>1. ASSUME NEW s \in Slaves, NEW k \in 1 .. Len(link'[s])
          PROVE  /\ link'[s][k].order.round <= round
                 /\ k # Len(link'[s]) \/ ~ ConnectedTo(s)'
                      => link'[s][k].order.round < round
      <4>1. CASE s = i /\ k = Len(link[i]) + 1
        BY <2>4, <2>6, <2>8, <4>1
      <4>2. CASE s = i /\ k \in 1 .. Len(link[i])
        <5>1. link[i][k].order.round <= round /\ link[i][k].order.round < round
          BY <2>1, <2>8, <4>2 DEF LoadInv, Rounds, UnderWay
        <5> QED
          BY <2>4, <4>2, <5>1
      <4>3. CASE s # i
        BY <2>1, <2>4, <2>8, <4>3 DEF LoadInv, Rounds, UnderWay
      <4> QED
        BY <2>5, <4>1, <4>2, <4>3
    <3> QED
      BY <2>1, <2>2, <3>1 DEF Rounds
  <2> QED
    BY <2>3, <2>7, <2>9, <2>10 DEF LoadInv
<1> QED
  BY <1>1, <1>2

\* The order gets the number of the load, over the latest connection.
LEMMA SendOrderLoad == ASSUME IInv, LoadInv, SendOrder PROVE LoadInv'
<1> DEFINE i == master.i
<1>1. CASE MasterStops /\ UNCHANGED master
  BY <1>1, StoppedLoad DEF SendOrder
<1>2. CASE ~ (MasterStops /\ UNCHANGED master)
  <2>1. /\ master.at = "send" /\ master' = NextSlave("read")
        /\ UNCHANGED <<nb_clients, current_wave_number, master_stats, round>>
        /\ UNCHANGED <<slave, accepted>>
    BY <1>2 DEF SendOrder, Master
  <2>2. /\ i \in Slaves /\ \A s \in Slaves : s \in 0 .. NbSlaves - 1
        /\ \/ master'.at = "send" /\ master'.i = i + 1
           \/ master'.at = "read" /\ master'.i = 0 /\ i = NbSlaves - 1
    BY <2>1, NextSlaveKept DEF UnderWay
  <2>3. Position' /\ master'.at \in UnderWay
    BY <2>1, SamePosition DEF UnderWay
  <2>4. PICK c \in Connections :
          /\ c.order = Order /\ c.report = NoReport
          /\ Latest(i).report = NoReport
          /\ OnlyChanged(i, Len(link[i]), c)
    BY <1>2, OrderSent
  <2>5. c.order.round = round /\ round \in Nat
    BY <2>4, Tables DEF Order
  <2>6. \A t \in Slaves :
          /\ Len(link'[t]) = Len(link[t])
          /\ \A k \in 1 .. Len(link[t]) : link'[t][k].report = link[t][k].report
    BY <2>4 DEF OnlyChanged, Latest
  <2>7. Unreported'
    <3>1. \A t \in Slaves :
            /\ \A k \in 1 .. Len(link[t]) : link'[t][k].report = link[t][k].report
            /\ \A k \in 1 .. Len(link'[t]) :
                 k \in 1 .. Len(link[t]) \/ link'[t][k].report = NoReport
      BY <2>6
    <3> QED
      BY <2>1, <3>1, NoReportMade
  <2>8. \A s \in Slaves : ConnectedTo(s) /\ ConnectedTo(s)' /\ AwaitsReport(s)'
    BY <2>1, <2>2 DEF ConnectedTo, AwaitsReport
  <2>9. AllReported'
    BY <2>6, <2>8 DEF LoadInv, AllReported
  <2>10. Rounds'
    <3>1. ASSUME NEW s \in Slaves, NEW k \in 1 .. Len(link'[s])
          PROVE  /\ link'[s][k].order.round <= round
                 /\ k # Len(link'[s]) => link'[s][k].order.round < round
      <4>1. CASE s = i /\ k = Len(link[i])
        BY <2>4, <2>5, <2>6, <4>1 DEF OnlyChanged
      <4>2. CASE ~ (s = i /\ k = Len(link[i]))
        <5>1. link'[s][k] = link[s][k] /\ k \in 1 .. Len(link[s])
          BY <2>4, <2>6, <4>2 DEF OnlyChanged
        <5> QED
          BY <2>1, <2>6, <5>1 DEF LoadInv, Rounds, UnderWay
      <4> QED
        BY <4>1, <4>2
    <3> QED
      BY <2>1, <2>2, <2>8, <3>1 DEF Rounds
  <2> QED
    BY <2>3, <2>7, <2>9, <2>10 DEF LoadInv
<1> QED
  BY <1>1, <1>2

\* After the last report is read none is missing.
LEMMA ReadReportLoad == ASSUME IInv, LoadInv, ReadReport PROVE LoadInv'
<1> DEFINE i == master.i
<1>1. /\ master.at = "read" /\ master' = NextSlave("fill")
      /\ Latest(i).report # NoReport
      /\ UNCHANGED <<nb_clients, current_wave_number, master_stats, round>>
      /\ UNCHANGED <<slave, accepted>>
  BY DEF ReadReport, Master, AllRead
<1>2. /\ i \in Slaves /\ \A s \in Slaves : s \in 0 .. NbSlaves - 1
      /\ \/ master'.at = "read" /\ master'.i = i + 1
         \/ master'.at = "fill" /\ master'.i = 0 /\ i = NbSlaves - 1
  BY <1>1, NextSlaveKept DEF UnderWay
<1>3. Position' /\ master'.at \in UnderWay
  BY <1>1, SamePosition DEF UnderWay
<1>4. SameOrders /\ SameReports
  BY ReportRead
<1>5. Unreported'
  BY <1>1, <1>4, NoSlave
<1>6. AllReported'
  <2> SUFFICES ASSUME NEW s \in Slaves, NEW k \in 1 .. Len(link[s]),
                      link[s][k].report = NoReport
               PROVE  k = Len(link[s]) /\ AwaitsReport(s)'
    BY <1>4 DEF AllReported, SameOrders, SameReports
  <2>1. k = Len(link[s]) /\ ~ (s < i)
    BY <1>1 DEF LoadInv, AllReported, AwaitsReport
  <2>2. s # i
    BY <1>1, <2>1 DEF Latest
  <2> QED
    BY <1>2, <2>1, <2>2 DEF AwaitsReport
<1>7. Rounds'
  <2>1. \A s \in Slaves : ConnectedTo(s) /\ ConnectedTo(s)'
    BY <1>1, <1>2 DEF ConnectedTo
  <2>2. \A s \in Slaves : \A k \in 1 .. Len(link'[s]) :
          /\ link'[s][k].order.round <= round
          /\ k # Len(link'[s]) => link'[s][k].order.round < round
    BY <1>1, <1>4 DEF LoadInv, Rounds, UnderWay, SameOrders
  <2>3. \A s \in Slaves : link'[s] # <<>> /\ Latest(s)'.order.round = round
    <3>1. \A s \in Slaves : link[s] # <<>> /\ Latest(s).order.round = round
      BY <1>1 DEF IInv, Sent, Order
    <3> QED
      BY <1>4, <3>1, LatestKept
  <2> QED
    BY <1>1, <2>1, <2>2, <2>3 DEF Rounds
<1> QED
  BY <1>3, <1>5, <1>6, <1>7 DEF LoadInv

\* Between loads no report is missing, and what is there is of earlier loads.
LEMMA BetweenLoads ==
  ASSUME IInv, LoadInv, master.at \in {"wave", "fill"},
         master'.at \in {"connect", "wave", "end"},
         master'.at = "connect" => master'.i = 0 /\ round' = round + 1,
         master'.at # "connect" => round' = round,
         SameOrders, SameReports, UNCHANGED <<slave, accepted>>
  PROVE  Unreported' /\ AllReported' /\ Rounds'
<1>1. Unreported'
  BY NoSlave
<1>2. AllReported'
  BY DEF LoadInv, AllReported, AwaitsReport, SameOrders, SameReports
<1>3. Rounds'
  <2>1. /\ round \in Nat
        /\ \A s \in Slaves : \A k \in 1 .. Len(link'[s]) :
             link'[s][k].order.round \in Nat /\ link'[s][k].order.round <= round
    <3>1. /\ round \in Nat
          /\ \A s \in Slaves : \A k \in 1 .. Len(link[s]) :
               link[s][k].order.round \in Nat /\ link[s][k].order.round <= round
      BY Links, Tables DEF LoadInv, Rounds
    <3> QED
      BY <3>1 DEF SameOrders
  <2> QED
    BY <2>1 DEF Rounds, UnderWay
<1> QED
  BY <1>1, <1>2, <1>3

\* The first load of a wave, and the end of the loop over the waves.
LEMMA WaveLoad == ASSUME IInv, LoadInv, BeginWave \/ Finish PROVE LoadInv'
<1>1. /\ round = current_wave_number * PerWave /\ master \in MasterStates
      /\ master.at = "wave" /\ Warmup \in BOOLEAN
  BY Tables, CampaignAssumption DEF LoadInv, Position, BeginWave, Finish, Master, UnderWay
<1>2. CASE BeginWave
  <2>1. /\ master' = [at |-> "connect", i |-> 0, iter |-> 0, warm |-> Warmup]
        /\ round' = round + 1 /\ UNCHANGED <<link, current_wave_number>>
        /\ UNCHANGED <<slave, accepted>>
    BY <1>2 DEF BeginWave, BeginLoad
  <2>2. SameOrders /\ SameReports
    BY <2>1, LinkAsIs DEF IInv
  <2>3. /\ master'.at = "connect" /\ master'.i = 0 /\ master'.iter = 0
        /\ master'.warm = Warmup
    BY <2>1
  <2>4. Unreported' /\ AllReported' /\ Rounds'
    BY <1>1, <2>1, <2>2, <2>3, BetweenLoads
  <2>5. Within' = 0 /\ PerWave' = PerWave
    BY <2>3 DEF Within, PerWave
  <2>6. round \in Nat
    BY Tables
  <2>7. Position'
    BY <1>1, <2>1, <2>3, <2>5, <2>6 DEF Position, UnderWay
  <2> QED
    BY <2>4, <2>7 DEF LoadInv
<1>3. CASE Finish
  <2>1. /\ master' = [master EXCEPT !.at = "end"] /\ MasterStops
        /\ UNCHANGED <<round, current_wave_number>> /\ UNCHANGED <<slave, accepted>>
    BY <1>3 DEF Finish
  <2>2. SameOrders /\ SameReports
    BY <2>1, MasterClosed DEF IInv
  <2>3. master'.at = "end"
    BY <1>1, <2>1 DEF MasterStates
  <2>4. Unreported' /\ AllReported' /\ Rounds'
    BY <1>1, <2>1, <2>2, <2>3, BetweenLoads
  <2>5. Position'
    BY <1>1, <2>1, <2>3 DEF Position, UnderWay
  <2> QED
    BY <2>4, <2>5 DEF LoadInv
<1> QED
  BY <1>2, <1>3

\* The warm-up of a wave is its first load.
LEMMA EndWarmupLoad == ASSUME IInv, LoadInv, EndWarmup PROVE LoadInv'
<1>1. /\ master.at = "fill" /\ master.warm
      /\ master' = [at |-> "connect", i |-> 0, iter |-> 0, warm |-> FALSE]
      /\ round' = round + 1 /\ UNCHANGED <<link, current_wave_number>>
      /\ UNCHANGED <<slave, accepted>>
  BY DEF EndWarmup, BeginLoad, Master
<1>2. SameOrders /\ SameReports
  BY <1>1, LinkAsIs DEF IInv
<1>3. /\ master'.at = "connect" /\ master'.i = 0 /\ master'.iter = 0
      /\ ~ master'.warm
  BY <1>1
<1>4. Unreported' /\ AllReported' /\ Rounds'
  <2>1. master.at \in {"wave", "fill"} /\ UNCHANGED <<slave, accepted>>
    BY <1>1
  <2>2. master'.at = "connect" /\ master'.i = 0 /\ round' = round + 1
    BY <1>1, <1>3
  <2> QED
    BY <1>2, <2>1, <2>2, BetweenLoads
<1>5. /\ round = current_wave_number * PerWave + Within + 1 /\ Warmup
      /\ Within = 0 /\ Within' = 1
  BY <1>1, <1>3 DEF LoadInv, Position, UnderWay, Within
<1>6. current_wave_number * PerWave \in Nat
  BY Tables, CampaignAssumption DEF PerWave
<1>7. Position'
  BY <1>1, <1>3, <1>5, <1>6 DEF Position, UnderWay
<1> QED
  BY <1>4, <1>7 DEF LoadInv

\* The wave is over after its last iteration.
LEMMA EndIterationLoad == ASSUME IInv, LoadInv, EndIteration PROVE LoadInv'
<1>1. /\ master.at = "fill" /\ ~ master.warm /\ UNCHANGED link
      /\ UNCHANGED <<slave, accepted>>
  BY DEF EndIteration, Master
<1>2. SameOrders /\ SameReports
  BY <1>1, LinkAsIs DEF IInv
<1> DEFINE first == IF Warmup THEN 1 ELSE 0
<1>3. first \in Nat /\ PerWave = Iterations + first /\ Within = first + master.iter
  BY <1>1 DEF PerWave, Within
<1>4. /\ current_wave_number \in Nat /\ Iterations \in Nat /\ master \in MasterStates
      /\ master.iter \in Nat /\ master.iter < Iterations /\ round \in Nat
  BY Tables DEF MasterStates
<1>5. round = current_wave_number * PerWave + Within + 1
  BY <1>1 DEF LoadInv, Position, UnderWay
<1>6. /\ PerWave \in Nat /\ current_wave_number * PerWave \in Nat
      /\ (current_wave_number + 1) * PerWave = current_wave_number * PerWave + PerWave
  <2>1. PerWave \in Nat
    BY <1>3, <1>4
  <2> HIDE DEF PerWave
  <2> QED
    BY <1>4, <2>1
<1>7. CASE MoreIterations
  <2>1. /\ master' = [at |-> "connect", i |-> 0, iter |-> master.iter + 1, warm |-> FALSE]
        /\ round' = round + 1 /\ UNCHANGED current_wave_number
    BY <1>7 DEF EndIteration, BeginLoad
  <2>2. /\ master'.at = "connect" /\ master'.i = 0 /\ ~ master'.warm
        /\ master'.iter = master.iter + 1
    BY <2>1
  <2>3. Unreported' /\ AllReported' /\ Rounds'
    BY <1>1, <1>2, <2>1, <2>2, BetweenLoads
  <2>4. Within' = first + master'.iter
    BY <2>2 DEF Within
  <2>5. Within' = Within + 1
    BY <1>3, <1>4, <2>2, <2>4
  <2>6. round' = current_wave_number * PerWave + Within' + 1
    BY <1>3, <1>4, <1>5, <1>6, <2>1, <2>5
  <2>7. Position'
    BY <2>1, <2>2, <2>6 DEF Position, UnderWay
  <2> QED
    BY <2>3, <2>7 DEF LoadInv
<1>8. CASE ~ MoreIterations
  <2>1. /\ master' = [master EXCEPT !.at = "wave"] /\ UNCHANGED round
        /\ current_wave_number' = current_wave_number + 1
    BY <1>8 DEF EndIteration, NextWave
  <2>2. master'.at = "wave"
    BY <1>4, <2>1 DEF MasterStates
  <2>3. Unreported' /\ AllReported' /\ Rounds'
    BY <1>1, <1>2, <2>1, <2>2, BetweenLoads
  <2>4. master.iter + 1 = Iterations
    BY <1>4, <1>8 DEF MoreIterations
  <2>5. round = current_wave_number * PerWave + PerWave
    BY <1>3, <1>4, <1>5, <1>6, <2>4
  <2>6. Position'
    BY <1>6, <2>1, <2>2, <2>5 DEF Position, UnderWay
  <2> QED
    BY <2>3, <2>6 DEF LoadInv
<1> QED
  BY <1>7, <1>8

\* With one master, the invariant of loads holds in every reachable state.
LEMMA LoadInvariance ==
  ASSUME MaxMasters = 1
  PROVE  Spec => [](IInv /\ LoadInv)
<1>1. Init => IInv /\ LoadInv
  BY InitInv, InitLoad
<1>2. IInv /\ LoadInv /\ [Next]_vars => (IInv /\ LoadInv)'
  <2> SUFFICES ASSUME IInv, LoadInv, [Next]_vars PROVE LoadInv'
    BY NextInv
  <2>1. CASE UNCHANGED vars
    BY <2>1 DEF vars, masterVars, LoadInv, Unreported, AllReported, Rounds, Position,
       AwaitsReport, ConnectedTo, Within, Own, Latest
  <2>2. CASE Terminated
    BY <2>1, <2>2 DEF Terminated
  <2>3. CASE MasterStep
    BY <2>3, WaveLoad, ConnectToSlaveLoad, SendOrderLoad, ReadReportLoad,
       EndWarmupLoad, EndIterationLoad, StoppedLoad
    DEF MasterStep, ReadReportFails
  <2>4. CASE MasterKilled
    BY <2>4, StoppedLoad DEF MasterKilled
  <2>5. ~ MasterStarts
    BY DEF IInv, TypeOK, MasterStarts
  <2> QED
    BY <2>1, <2>2, <2>3, <2>4, <2>5, SlaveLoad DEF Next
<1> QED
  BY <1>1, <1>2, PTL DEF Spec

\* The slaves that put load on the server at one time all run the order of
\* the present load, and the master is then collecting reports: with one
\* slg_master loads never overlap, however many slaves there are and whatever
\* process stops.
THEOREM LoadsInStepCorrect ==
  ASSUME MaxMasters = 1
  PROVE  Spec => []LoadsInStep
<1>1. IInv /\ LoadInv => LoadsInStep
  BY ServesPresent DEF LoadsInStep
<1> QED
  BY <1>1, LoadInvariance, PTL

-----------------------------------------------------------------------------
(***************************************************************************)
(* The refinement of Benchmark.tla                                         *)
(***************************************************************************)
\* The values the refinement mapping gives Benchmark's loading, ended and
\* counted.
Loading == {s \in Slaves : slave[s].at = "run"}

HasReported(s) == \E k \in DOMAIN link[s] : link[s][k].report.round = Done + 1

Ended == {s \in Slaves :
            \/ slave[s].at = "report" /\ slave[s].order.round = Done + 1
            \/ HasReported(s)}

Counted == [w \in 0 .. NbWaves - 1 |-> Len(master_stats[w])]

\* Nothing of this is seen from Benchmark.
NotSeen == UNCHANGED <<Done, Loading, Ended, Counted>>

\* What division and remainder answer about a load's position in its wave.
LEMMA WavePosition ==
  ASSUME NEW c \in Nat, NEW p \in Nat \ {0}, NEW w \in Nat, w < p
  PROVE  (c * p + w) \div p = c /\ (c * p + w) % p = w
<1> DEFINE d == c * p + w
           q == d \div p
<1>1. c * p \in Nat /\ d \in Nat
  OBVIOUS
<1>2. q \in Nat /\ q * p <= d /\ d < q * p + p /\ d = q * p + (d % p)
  <2> HIDE DEF d
  <2> QED
    BY <1>1
<1> HIDE DEF q
<1>3. /\ (q + 1) * p = q * p + p /\ (c + 1) * p = c * p + p
      /\ q * p \in Nat
  BY <1>2
<1>4. ASSUME q < c PROVE FALSE
  <2>1. (q + 1) * p <= c * p
    BY <1>2, <1>4, MulMonotone
  <2> QED
    BY <1>1, <1>2, <1>3, <2>1
<1>5. ASSUME c < q PROVE FALSE
  <2>1. (c + 1) * p <= q * p
    BY <1>2, <1>5, MulMonotone
  <2> QED
    BY <1>1, <1>2, <1>3, <2>1
<1>6. q = c
  BY <1>2, <1>4, <1>5
<1>7. d % p = w
  <2>1. d % p \in Int
    BY <1>1
  <2> QED
    BY <1>1, <1>2, <1>6, <2>1
<1> QED
  BY <1>6, <1>7 DEF q

\* Where Benchmark is during a load.
LEMMA DuringLoad ==
  ASSUME IInv, LoadInv, master.at \in UnderWay
  PROVE  /\ round \in Nat /\ round > 0 /\ Done \in Nat /\ Done + 1 = round
         /\ PerWave \in Nat /\ current_wave_number \in 0 .. NbWaves - 1
         /\ Done \div PerWave = current_wave_number
         /\ Done % PerWave = Within /\ Within \in Nat
         /\ master.warm => Warmup /\ Within = 0
         /\ ~ master.warm => (Warmup => Within # 0)
<1>1. /\ round \in Nat /\ round > 0 /\ current_wave_number < NbWaves
      /\ current_wave_number \in Nat /\ NbWaves \in Nat
      /\ master \in MasterStates /\ Iterations \in Nat \ {0}
      /\ round = current_wave_number * PerWave + Within + 1
      /\ master.warm => Warmup
  BY Tables DEF IInv, Counters, LoadInv, Position
<1>2. Done = round - 1
  BY DEF Done, UnderWay
<1>3. /\ PerWave \in Nat \ {0} /\ Within \in Nat /\ Within < PerWave
      /\ master.warm => Within = 0
      /\ ~ master.warm => (Warmup => Within # 0)
  <2>1. master.iter \in Nat /\ master.iter < Iterations /\ Warmup \in BOOLEAN
    BY <1>1, CampaignAssumption DEF MasterStates
  <2> QED
    BY <1>1, <2>1 DEF PerWave, Within
<1> HIDE DEF PerWave, Within
<1>4. current_wave_number * PerWave \in Nat
  BY <1>1, <1>3
<1>5. Done = current_wave_number * PerWave + Within
  BY <1>1, <1>2, <1>3, <1>4
<1>6. Done \div PerWave = current_wave_number /\ Done % PerWave = Within
  BY <1>1, <1>3, <1>5, WavePosition
<1> QED
  BY <1>1, <1>2, <1>3, <1>4, <1>5, <1>6

\* Reports are counted from one connection to the last.
LEMMA ReportsOf ==
  ASSUME IInv, NEW s \in Slaves
  PROVE  HasReported(s) <=> \E k \in 1 .. Len(link[s]) :
                              link[s][k].report.round = Done + 1
  BY LenProperties DEF IInv, TypeOK, HasReported

\* A slave that serves a connection has not ended the present load before it
\* reports.
LEMMA NotReported ==
  ASSUME IInv, LoadInv, NEW s \in Slaves, slave[s].at \in {"order", "run", "report"}
  PROVE  ~ HasReported(s) /\ master.at \in UnderWay
<1>1. /\ AwaitsReport(s) /\ Own(s) = Latest(s) /\ Latest(s).report = NoReport
  BY ServesPresent
<1>2. master.at \in UnderWay /\ ConnectedTo(s)
  BY <1>1 DEF AwaitsReport, ConnectedTo, UnderWay
<1>3. round > 0 /\ Done + 1 = round /\ round \in Nat
  BY <1>2, DuringLoad
<1>4. ASSUME NEW k \in 1 .. Len(link[s]) PROVE link[s][k].report.round # round
  <2>1. CASE k = Len(link[s])
    BY <1>1, <1>3, <2>1 DEF Latest, NoReport, NoOrder
  <2>2. CASE k # Len(link[s])
    <3>1. link[s][k].order.round < round /\ link[s][k].order.round \in Nat
      BY <1>2, <2>2, Links DEF LoadInv, Rounds
    <3>2. link[s][k].report \in {NoReport, link[s][k].order} /\ NoReport.round = 0
      BY Links DEF NoReport, NoOrder
    <3> QED
      BY <1>3, <3>1, <3>2
  <2> QED
    BY <2>1, <2>2
<1> QED
  BY <1>2, <1>3, <1>4, ReportsOf

\* At rest: no load is under way, or it has only just begun.
AtRest == master.at \notin UnderWay \/ (master.at = "connect" /\ master.i = 0)

\* Then no slave puts load on the server, and none has ended the load to come.
Resting == AtRest => Loading = {} /\ Ended = {}

\* The invariants say so.
LEMMA RestsNow == IInv /\ LoadInv => Resting
<1> SUFFICES ASSUME IInv, LoadInv, AtRest PROVE Loading = {} /\ Ended = {}
  BY DEF Resting
<1>1. \A s \in Slaves : slave[s].at \notin {"run", "report"}
  BY ServesPresent DEF AtRest, UnderWay
<1>2. \A s \in Slaves : ~ ConnectedTo(s)
  BY DEF AtRest, ConnectedTo, UnderWay, Slaves
<1>3. /\ round \in Nat /\ Done \in Int
      /\ master.at \in UnderWay => Done + 1 = round /\ round > 0
      /\ master.at \notin UnderWay => Done + 1 = round + 1
  <2>1. round \in Nat /\ master \in MasterStates
    BY Tables
  <2>2. master.at \notin UnderWay => master.at \in {"wave", "end"}
    BY <2>1 DEF MasterStates, UnderWay
  <2> QED
    BY <2>1, <2>2, DuringLoad DEF Done
<1>4. ASSUME NEW s \in Slaves PROVE ~ HasReported(s)
  <2>1. ASSUME NEW k \in 1 .. Len(link[s]) PROVE link[s][k].report.round # Done + 1
    <3>1. /\ link[s][k].order.round \in Nat /\ link[s][k].order.round <= round
          /\ master.at \in UnderWay => link[s][k].order.round < round
      BY <1>2, Links DEF LoadInv, Rounds
    <3>2. link[s][k].report \in {NoReport, link[s][k].order} /\ NoReport.round = 0
      BY Links DEF NoReport, NoOrder
    <3> QED
      BY <1>3, <3>1, <3>2
  <2> QED
    BY <2>1, ReportsOf
<1> QED
  BY <1>1, <1>4 DEF Loading, Ended

\* When all reports are read, all slaves have ended the load.
LEMMA AllEnded ==
  ASSUME IInv, LoadInv, master.at = "fill"
  PROVE  Ended = Slaves
<1> SUFFICES ASSUME NEW s \in Slaves PROVE HasReported(s)
  BY DEF Ended
<1>1. /\ link[s] # <<>> /\ Latest(s).order.round = round
      /\ Len(link[s]) \in 1 .. Len(link[s])
  BY Links DEF LoadInv, Rounds
<1>2. ~ AwaitsReport(s)
  BY DEF AwaitsReport
<1>3. Latest(s).report = Latest(s).order
  BY <1>1, <1>2, Links DEF LoadInv, AllReported, Latest
<1>4. Done + 1 = round
  BY DuringLoad DEF UnderWay
<1> QED
  BY <1>1, <1>3, <1>4, ReportsOf DEF Latest

\* The mapping of Campaign's state gives a state of Benchmark to begin with.
LEMMA InitBenchmark == ASSUME Init PROVE TheBenchmark!Init
<1>1. IInv /\ LoadInv /\ AtRest
  BY InitInv, InitLoad DEF Init, FirstMaster, AtRest, UnderWay
<1>2. Loading = {} /\ Ended = {}
  BY <1>1, RestsNow DEF Resting
<1>3. Done = 0
  BY DEF Init, FirstMaster, Done
<1>4. Counted = [w \in 0 .. NbWaves - 1 |-> 0]
  BY EmptySeq DEF Init, Counted
<1> QED
  BY <1>2, <1>3, <1>4
  DEF TheBenchmark!Init, Loading, Ended, Counted, HasReported

\* Each kind of step of Benchmark, in terms of the mapping.
LEMMA BenchmarkSteps ==
  /\ NotSeen => UNCHANGED TheBenchmark!vars
  /\ \A s \in Slaves :
       \/ /\ Done \div PerWave < NbWaves
          /\ s \notin Loading \cup Ended
          /\ Loading' = Loading \cup {s}
          /\ UNCHANGED <<Done, Ended, Counted>>
       \/ /\ s \in Loading
          /\ Loading' = Loading \ {s} /\ Ended' = Ended \cup {s}
          /\ UNCHANGED <<Done, Counted>>
       \/ /\ Loading' = Loading \ {s} /\ Ended' = Ended \ {s}
          /\ UNCHANGED <<Done, Counted>>
       => TheBenchmark!Next
  /\ /\ Ended = Slaves
     /\ Done' = Done + 1 /\ Ended' = {} /\ UNCHANGED Loading
     /\ Counted' = IF Warmup /\ Done % PerWave = 0 THEN Counted
                   ELSE [Counted EXCEPT ![Done \div PerWave] = @ + 1]
     => TheBenchmark!Next
<1>1. NotSeen => UNCHANGED TheBenchmark!vars
  BY DEF NotSeen, TheBenchmark!vars, Loading, Ended, Counted, HasReported
<1>2. ASSUME NEW s \in Slaves, Done \div PerWave < NbWaves,
             s \notin Loading \cup Ended, Loading' = Loading \cup {s},
             UNCHANGED <<Done, Ended, Counted>>
      PROVE  TheBenchmark!Next
  <2>1. TheBenchmark!Begin(s)
    BY <1>2 DEF TheBenchmark!Begin, TheBenchmark!Wave, TheBenchmark!LoadsPerWave,
       PerWave, Loading, Ended, Counted, HasReported
  <2> QED
    BY <2>1 DEF TheBenchmark!Next
<1>3. ASSUME NEW s \in Slaves, s \in Loading, Loading' = Loading \ {s},
             Ended' = Ended \cup {s}, UNCHANGED <<Done, Counted>>
      PROVE  TheBenchmark!Next
  <2>1. TheBenchmark!End(s)
    BY <1>3 DEF TheBenchmark!End, Loading, Ended, Counted, HasReported
  <2> QED
    BY <2>1 DEF TheBenchmark!Next
<1>4. ASSUME NEW s \in Slaves, Loading' = Loading \ {s}, Ended' = Ended \ {s},
             UNCHANGED <<Done, Counted>>
      PROVE  TheBenchmark!Next
  <2>1. TheBenchmark!Lose(s)
    BY <1>4 DEF TheBenchmark!Lose, Loading, Ended, Counted, HasReported
  <2> QED
    BY <2>1 DEF TheBenchmark!Next
<1>5. ASSUME Ended = Slaves, Done' = Done + 1, Ended' = {}, UNCHANGED Loading,
             Counted' = IF Warmup /\ Done % PerWave = 0 THEN Counted
                        ELSE [Counted EXCEPT ![Done \div PerWave] = @ + 1]
      PROVE  TheBenchmark!Next
  <2>1. TheBenchmark!Complete
    BY <1>5 DEF TheBenchmark!Complete, TheBenchmark!Wave, TheBenchmark!IsWarmup,
       TheBenchmark!LoadsPerWave, PerWave, Loading, Ended, Counted, HasReported
  <2> QED
    BY <2>1 DEF TheBenchmark!Next
<1> QED
  BY <1>1, <1>2, <1>3, <1>4, <1>5

\* What a step of slave s may change of the mapping.
LEMMA SlaveSeen ==
  ASSUME IInv, IInv', NEW s \in Slaves, UNCHANGED masterVars,
         slave' = [slave EXCEPT ![s] = slave'[s]],
         \A t \in Slaves \ {s} : link'[t] = link[t]
  PROVE  /\ UNCHANGED <<Done, Counted>>
         /\ Loading' = IF slave'[s].at = "run" THEN Loading \cup {s} ELSE Loading \ {s}
         /\ Ended' = IF \/ /\ slave'[s].at = "report"
                           /\ slave'[s].order.round = Done + 1
                        \/ HasReported(s)'
                       THEN Ended \cup {s} ELSE Ended \ {s}
<1>1. UNCHANGED <<Done, Counted>>
  BY DEF masterVars, Done, Counted
<1>2. \A t \in Slaves \ {s} : slave'[t] = slave[t]
  BY DEF IInv, TypeOK
<1>3. \A t \in Slaves \ {s} : HasReported(t)' <=> HasReported(t)
  BY <1>1 DEF HasReported
<1> QED
  BY <1>1, <1>2, <1>3 DEF Loading, Ended

\* The same reports on connections as before.
LEMMA ReportsSeen ==
  ASSUME IInv, IInv', SameOrders, SameReports, UNCHANGED Done, NEW s \in Slaves
  PROVE  HasReported(s)' <=> HasReported(s)
<1>1. link[s] \in Seq(Connections) /\ link'[s] \in Seq(Connections)
      /\ Len(link'[s]) = Len(link[s])
  BY DEF IInv, TypeOK, SameOrders
<1>2. DOMAIN link'[s] = DOMAIN link[s] /\ DOMAIN link[s] = 1 .. Len(link[s])
  BY <1>1, LenProperties
<1> QED
  BY <1>2 DEF HasReported, SameReports

\* A slave that stops is lost for the load it has not reported on.
LEMMA SlaveStopsSeen ==
  ASSUME IInv, LoadInv, IInv', NEW s \in Slaves, SlaveStops(s),
         UNCHANGED <<masterVars, accepted>>
  PROVE  [TheBenchmark!Next]_TheBenchmark!vars
<1>1. SameOrders /\ SameReports
  BY SlaveClosed DEF IInv
<1>2. /\ slave' = [slave EXCEPT ![s] = slave'[s]] /\ slave'[s].at = "dead"
      /\ \A t \in Slaves \ {s} : link'[t] = link[t]
  BY DEF SlaveStops, IInv, TypeOK
<1>3. /\ UNCHANGED <<Done, Counted>> /\ Loading' = Loading \ {s}
      /\ Ended' = IF HasReported(s)' THEN Ended \cup {s} ELSE Ended \ {s}
  BY <1>2, SlaveSeen
<1>4. HasReported(s)' <=> HasReported(s)
  BY <1>1, <1>3, ReportsSeen
<1>5. CASE HasReported(s)
  <2>1. slave[s].at \notin {"order", "run", "report"}
    BY <1>5, NotReported
  <2>2. s \notin Loading /\ s \in Ended
    BY <1>5, <2>1 DEF Loading, Ended
  <2>3. NotSeen
    BY <1>3, <1>4, <1>5, <2>2 DEF NotSeen
  <2> QED
    BY <2>3, BenchmarkSteps
<1>6. CASE ~ HasReported(s)
  BY <1>3, <1>4, <1>6, BenchmarkSteps
<1> QED
  BY <1>5, <1>6

\* A slave that waits, or is about to.
LEMMA SlaveIdleSeen ==
  ASSUME IInv, IInv', NEW s \in Slaves, UNCHANGED masterVars, UNCHANGED link,
         slave' = [slave EXCEPT ![s] = slave'[s]],
         slave[s].at \notin {"run", "report"}, slave'[s].at \notin {"run", "report"}
  PROVE  [TheBenchmark!Next]_TheBenchmark!vars
<1>1. SameOrders /\ SameReports
  BY LinkAsIs DEF IInv
<1>2. /\ UNCHANGED <<Done, Counted>> /\ Loading' = Loading \ {s}
      /\ Ended' = IF HasReported(s)' THEN Ended \cup {s} ELSE Ended \ {s}
  BY SlaveSeen
<1>3. HasReported(s)' <=> HasReported(s)
  BY <1>1, <1>2, ReportsSeen
<1>4. s \notin Loading /\ (s \in Ended <=> HasReported(s))
  BY DEF Loading, Ended
<1>5. NotSeen
  BY <1>2, <1>3, <1>4 DEF NotSeen
<1> QED
  BY <1>5, BenchmarkSteps

\* An order that is read is the one of the present load.
LEMMA WaitMasterOrderSeen ==
  ASSUME IInv, LoadInv, IInv', NEW s \in Slaves, WaitMasterOrder(s)
  PROVE  [TheBenchmark!Next]_TheBenchmark!vars
<1>1. CASE SlaveStops(s)
  BY <1>1, SlaveStopsSeen DEF WaitMasterOrder, masterOnly
<1>2. CASE ~ SlaveStops(s)
  <2>1. /\ slave[s].at = "order" /\ UNCHANGED link /\ UNCHANGED masterVars
        /\ slave' = [slave EXCEPT ![s] = [at |-> "run", order |-> Own(s).order]]
    BY <1>2 DEF WaitMasterOrder, masterOnly
  <2>2. slave' = [slave EXCEPT ![s] = slave'[s]] /\ slave'[s].at = "run"
    BY <2>1 DEF IInv, TypeOK
  <2>3. SameOrders /\ SameReports
    BY <2>1, LinkAsIs DEF IInv
  <2>4. /\ UNCHANGED <<Done, Counted>> /\ Loading' = Loading \cup {s}
        /\ Ended' = IF HasReported(s)' THEN Ended \cup {s} ELSE Ended \ {s}
    BY <2>1, <2>2, SlaveSeen
  <2>5. ~ HasReported(s) /\ ~ HasReported(s)' /\ master.at \in UnderWay
    BY <2>1, <2>3, <2>4, NotReported, ReportsSeen
  <2>6. s \notin Loading \cup Ended
    BY <2>1, <2>5 DEF Loading, Ended
  <2>7. Done \div PerWave < NbWaves
    BY <2>5, DuringLoad, Tables
  <2>8. UNCHANGED <<Done, Ended, Counted>>
    BY <2>4, <2>5, <2>6
  <2> QED
    BY <2>4, <2>6, <2>7, <2>8, BenchmarkSteps
<1> QED
  BY <1>1, <1>2

\* The slave that has run the present load has ended it.
LEMMA RunEndsSeen ==
  ASSUME IInv, LoadInv, IInv', NEW s \in Slaves, RunEnds(s)
  PROVE  [TheBenchmark!Next]_TheBenchmark!vars
<1>1. /\ slave[s].at = "run" /\ UNCHANGED link /\ UNCHANGED masterVars
      /\ slave' = [slave EXCEPT ![s].at = "report"]
      /\ slave \in [Slaves -> SlaveStates]
  BY SlaveNow DEF RunEnds, masterOnly
<1>2. /\ slave' = [slave EXCEPT ![s] = slave'[s]] /\ slave'[s].at = "report"
      /\ slave'[s].order = slave[s].order
  BY <1>1 DEF SlaveStates
<1>3. slave[s].order = Order /\ master.at \in UnderWay
  BY <1>1, ServesPresent DEF UnderWay
<1>4. slave'[s].order.round = Done + 1
  BY <1>2, <1>3, DuringLoad DEF Order
<1>5. /\ UNCHANGED <<Done, Counted>> /\ Loading' = Loading \ {s}
      /\ Ended' = Ended \cup {s}
  BY <1>1, <1>2, <1>4, SlaveSeen
<1>6. s \in Loading
  BY <1>1 DEF Loading
<1> QED
  BY <1>5, <1>6, BenchmarkSteps

\* A report that is written shows what the slave has done already.
LEMMA SendStatResponseSeen ==
  ASSUME IInv, LoadInv, IInv', NEW s \in Slaves, SendStatResponse(s)
  PROVE  [TheBenchmark!Next]_TheBenchmark!vars
<1>1. CASE SlaveStops(s)
  BY <1>1, SlaveStopsSeen DEF SendStatResponse, masterOnly
<1>2. CASE ~ SlaveStops(s)
  <2> DEFINE n == accepted[s]
             c == [Own(s) EXCEPT !.report = slave[s].order, !.slaveOpen = FALSE]
  <2>1. /\ slave[s].at = "report" /\ slave' = [slave EXCEPT ![s].at = "clean"]
        /\ link' = [link EXCEPT ![s] = [link[s] EXCEPT ![n] = c]]
        /\ UNCHANGED masterVars
    BY <1>2 DEF SendStatResponse, masterOnly, Own
  <2>2. /\ n \in 1 .. Len(link[s]) /\ Own(s) \in Connections
        /\ slave \in [Slaves -> SlaveStates]
        /\ slave[s].order = Order /\ master.at \in UnderWay
    BY <2>1, SlaveNow, ServesPresent DEF UnderWay
  <2>3. c \in Connections /\ c.report = Order
    <3>1. Order \in Orders
      BY <2>2 DEF SlaveStates
    <3> QED
      BY <2>2, <3>1 DEF Connections
  <2> HIDE DEF c
  <2>4. OnlyChanged(s, n, c)
    BY <2>1, <2>2, <2>3, OneConnection DEF IInv
  <2>5. /\ slave' = [slave EXCEPT ![s] = slave'[s]] /\ slave'[s].at = "clean"
        /\ \A t \in Slaves \ {s} : link'[t] = link[t]
    BY <2>1, <2>2 DEF SlaveStates, IInv, TypeOK
  <2>6. /\ UNCHANGED <<Done, Counted>> /\ Loading' = Loading \ {s}
        /\ Ended' = IF HasReported(s)' THEN Ended \cup {s} ELSE Ended \ {s}
    BY <2>1, <2>5, SlaveSeen
  <2>7. Done + 1 = round /\ Order.round = round
    BY <2>2, DuringLoad DEF Order
  <2>8. HasReported(s)'
    <3>1. /\ n \in DOMAIN link'[s] /\ link'[s][n] = c
      <4>1. link'[s] \in Seq(Connections) /\ Len(link'[s]) = Len(link[s])
        BY <2>4 DEF OnlyChanged
      <4>2. link'[s][n] = c
        BY <2>2, <2>4 DEF OnlyChanged
      <4> QED
        BY <2>2, <4>1, <4>2, LenProperties
    <3> QED
      BY <2>3, <2>6, <2>7, <3>1 DEF HasReported
  <2>9. s \notin Loading /\ s \in Ended
    BY <2>1, <2>2, <2>7 DEF Loading, Ended
  <2>10. NotSeen
    BY <2>6, <2>8, <2>9 DEF NotSeen
  <2> QED
    BY <2>10, BenchmarkSteps
<1> QED
  BY <1>1, <1>2

\* Every step of a slave is one of the benchmark, or none.
LEMMA SlaveBenchmark ==
  ASSUME IInv, LoadInv, IInv', NEW s \in Slaves,
         SlaveStep(s) \/ SlaveFails(s) \/ SlaveStarts(s)
  PROVE  [TheBenchmark!Next]_TheBenchmark!vars
<1>1. slave \in [Slaves -> SlaveStates]
  BY SlaveNow
<1>2. CASE WaitMasterConnection(s) \/ Clean(s) \/ SlaveStarts(s)
  <2>1. /\ UNCHANGED masterVars /\ UNCHANGED link
        /\ slave[s].at \in {"accept", "clean", "dead"}
        /\ \/ slave' = [slave EXCEPT ![s].at = "order"]
           \/ slave' = [slave EXCEPT ![s].at = "accept"]
    BY <1>2 DEF WaitMasterConnection, Clean, SlaveStarts, masterOnly
  <2>2. /\ slave' = [slave EXCEPT ![s] = slave'[s]]
        /\ slave'[s].at \in {"order", "accept"}
    BY <1>1, <2>1 DEF SlaveStates
  <2> QED
    BY <2>1, <2>2, SlaveIdleSeen
<1>3. CASE MasterOrderFails(s)
  BY <1>3, SlaveStopsSeen DEF MasterOrderFails, masterOnly
<1>4. CASE SlaveFails(s)
  BY <1>4, SlaveStopsSeen DEF SlaveFails
<1> QED
  BY <1>2, <1>3, <1>4, WaitMasterOrderSeen, RunEndsSeen, SendStatResponseSeen
  DEF SlaveStep

\* A step of the master that sends or reads, or ends it.
LEMMA MasterUnseen ==
  ASSUME IInv, IInv', UNCHANGED <<Done, slave, master_stats>>,
         \A s \in Slaves : HasReported(s)' <=> HasReported(s)
  PROVE  [TheBenchmark!Next]_TheBenchmark!vars
<1>1. NotSeen
  BY DEF NotSeen, Loading, Ended, Counted
<1> QED
  BY <1>1, BenchmarkSteps

\* The master ends where it is.
LEMMA StoppedSeen ==
  ASSUME IInv, IInv', MasterStops, UNCHANGED <<master, round, slave, master_stats>>
  PROVE  [TheBenchmark!Next]_TheBenchmark!vars
<1>1. SameOrders /\ SameReports /\ UNCHANGED Done
  BY MasterClosed DEF IInv, Done
<1> QED
  BY <1>1, ReportsSeen, MasterUnseen

\* On to the next slave: the same load.
LEMMA SameLoad ==
  ASSUME IInv, NEW then \in UnderWay, master.at \in UnderWay,
         master' = NextSlave(then), UNCHANGED round
  PROVE  UNCHANGED Done
<1>1. master \in MasterStates
  BY Tables
<1>2. master'.at \in UnderWay
  BY <1>1 DEF NextSlave, MasterStates
<1> QED
  BY <1>2 DEF Done, UnderWay

\* Connecting, sending and reading.
LEMMA MasterMovesSeen ==
  ASSUME IInv, IInv', LoadInv, ConnectToSlave \/ SendOrder \/ ReadReport
  PROVE  [TheBenchmark!Next]_TheBenchmark!vars
<1>1. CASE MasterStops /\ UNCHANGED <<master, round, slave, master_stats>>
  BY <1>1, StoppedSeen
<1>2. CASE ConnectToSlave /\ slave[master.i].at # "dead"
  <2> PICK i \in Slaves : i = master.i
    BY DEF IInv, TypeOK
  <2>1. /\ master.at = "connect" /\ master' = NextSlave("send")
        /\ link' = [link EXCEPT ![i] = Append(link[i], NewConnection)]
        /\ UNCHANGED <<round, slave, master_stats>>
    BY <1>2 DEF ConnectToSlave, Master
  <2>2. UNCHANGED Done /\ Done + 1 = round /\ round > 0 /\ round \in Nat
    BY <2>1, SameLoad, DuringLoad DEF UnderWay
  <2>3. /\ Len(link[i]) \in Nat /\ Len(link'[i]) = Len(link[i]) + 1
        /\ \A k \in 1 .. Len(link[i]) : link'[i][k] = link[i][k]
        /\ link'[i][Len(link[i]) + 1].report.round = 0
        /\ \A s \in Slaves : s # i => link'[s] = link[s]
    <3>1. NewConnection.report.round = 0
      BY DEF NewConnection, NoReport, NoOrder
    <3> QED
      BY <2>1, <3>1, NewLink
  <2>4. ASSUME NEW s \in Slaves PROVE HasReported(s)' <=> HasReported(s)
    <3>1. CASE s = i
      <4>1. \A k : k \in 1 .. Len(link'[i]) <=>
                     k \in 1 .. Len(link[i]) \/ k = Len(link[i]) + 1
        BY <2>3
      <4>2. link[i] \in Seq(Connections) /\ link'[i] \in Seq(Connections)
        BY DEF IInv, TypeOK
      <4>3. DOMAIN link[i] = 1 .. Len(link[i]) /\ DOMAIN link'[i] = 1 .. Len(link'[i])
        BY <4>2, LenProperties
      <4>4. \A k \in 1 .. Len(link'[i]) :
              link'[i][k].report.round = Done + 1
                <=> k \in 1 .. Len(link[i]) /\ link[i][k].report.round = Done + 1
        <5>1. \A k \in 1 .. Len(link[i]) : link'[i][k] = link[i][k]
          BY <2>3
        <5>2. /\ Len(link[i]) + 1 \notin 1 .. Len(link[i])
              /\ link'[i][Len(link[i]) + 1].report.round # Done + 1
          BY <2>2, <2>3
        <5> QED
          BY <4>1, <5>1, <5>2
      <4> QED
        BY <2>2, <3>1, <4>1, <4>3, <4>4 DEF HasReported
    <3>2. CASE s # i
      BY <2>2, <2>3, <3>2 DEF HasReported
    <3> QED
      BY <3>1, <3>2
  <2> QED
    BY <2>1, <2>2, <2>4, MasterUnseen
<1>3. CASE SendOrder /\ ~ (MasterStops /\ UNCHANGED master)
  <2>1. /\ master.at = "send" /\ master' = NextSlave("read")
        /\ UNCHANGED <<round, slave, master_stats>>
    BY <1>3 DEF SendOrder, Master
  <2>2. UNCHANGED Done
    BY <2>1, SameLoad DEF UnderWay
  <2>3. PICK c \in Connections : /\ c.report = Latest(master.i).report
                                 /\ OnlyChanged(master.i, Len(link[master.i]), c)
    BY <1>3, OrderSent
  <2>4. ASSUME NEW s \in Slaves PROVE HasReported(s)' <=> HasReported(s)
    <3>1. /\ link[s] \in Seq(Connections) /\ link'[s] \in Seq(Connections)
          /\ Len(link'[s]) = Len(link[s])
      BY <2>3 DEF IInv, TypeOK, OnlyChanged
    <3>2. DOMAIN link'[s] = DOMAIN link[s] /\ DOMAIN link[s] = 1 .. Len(link[s])
      BY <3>1, LenProperties
    <3>3. \A k \in 1 .. Len(link[s]) : link'[s][k].report = link[s][k].report
      BY <2>3 DEF OnlyChanged, Latest
    <3> QED
      BY <2>2, <3>2, <3>3 DEF HasReported
  <2> QED
    BY <2>1, <2>2, <2>4, MasterUnseen
<1>4. CASE ReadReport
  <2>1. /\ master.at = "read" /\ master' = NextSlave("fill")
        /\ UNCHANGED <<round, slave, master_stats>>
    BY <1>4 DEF ReadReport, Master, AllRead
  <2>2. UNCHANGED Done /\ SameOrders /\ SameReports
    BY <1>4, <2>1, SameLoad, ReportRead DEF UnderWay
  <2> QED
    BY <2>1, <2>2, ReportsSeen, MasterUnseen
<1> QED
  BY <1>1, <1>2, <1>3, <1>4 DEF ConnectToSlave, SendOrder

\* A step from rest to rest: between loads, or the first of a wave.
LEMMA RestingSeen ==
  ASSUME IInv, LoadInv, Resting', AtRest, AtRest',
         UNCHANGED <<Done, master_stats>>
  PROVE  [TheBenchmark!Next]_TheBenchmark!vars
<1>1. NotSeen
  BY RestsNow DEF NotSeen, Counted, Resting
<1> QED
  BY <1>1, BenchmarkSteps

\* The loop over the waves, which the benchmark does not see.
LEMMA WaveSeen ==
  ASSUME IInv, LoadInv, Resting', BeginWave \/ Finish
  PROVE  [TheBenchmark!Next]_TheBenchmark!vars
<1>1. master.at = "wave" /\ master \in MasterStates /\ round \in Nat
  BY Tables DEF BeginWave, Finish, Master
<1>2. /\ UNCHANGED master_stats
      /\ \/ master'.at = "connect" /\ master'.i = 0 /\ round' = round + 1
         \/ master'.at = "end" /\ UNCHANGED round
  BY <1>1 DEF BeginWave, BeginLoad, Finish, MasterStates
<1>3. Done = round /\ AtRest
  BY <1>1 DEF AtRest, UnderWay, Done
<1>4. AtRest' /\ Done' = round
  <2>1. CASE master'.at = "connect" /\ master'.i = 0 /\ round' = round + 1
    <3>1. Done' = round' - 1
      BY <2>1 DEF Done
    <3> QED
      BY <1>1, <2>1, <3>1 DEF AtRest
  <2>2. CASE master'.at = "end" /\ UNCHANGED round
    BY <2>2 DEF AtRest, UnderWay, Done
  <2> QED
    BY <1>2, <2>1, <2>2
<1> QED
  BY <1>2, <1>3, <1>4, RestingSeen

\* The end of a load that all slaves have ended: it is over, and counted when
\* it is not a warm-up.
LEMMA LoadOver ==
  ASSUME IInv, LoadInv, Resting', EndWarmup \/ EndIteration
  PROVE  [TheBenchmark!Next]_TheBenchmark!vars
<1>1. /\ master.at = "fill" /\ master \in MasterStates /\ round \in Nat
      /\ slave' = slave
  BY Tables DEF EndWarmup, EndIteration, Master
<1>2. /\ Done + 1 = round /\ Done \div PerWave = current_wave_number
      /\ Done \in Nat
      /\ current_wave_number \in 0 .. NbWaves - 1
      /\ master.warm => Warmup /\ Done % PerWave = 0
      /\ ~ master.warm => (Warmup => Done % PerWave # 0)
  BY <1>1, DuringLoad DEF UnderWay
<1>3. \/ master'.at = "connect" /\ master'.i = 0 /\ round' = round + 1
      \/ master'.at = "wave" /\ round' = round
  BY <1>1 DEF EndWarmup, EndIteration, BeginLoad, NextWave, MasterStates
<1>4. AtRest' /\ Done' = Done + 1
  <2>1. CASE master'.at = "connect" /\ master'.i = 0 /\ round' = round + 1
    <3>1. Done' = round' - 1
      BY <2>1 DEF Done
    <3> QED
      BY <1>1, <1>2, <2>1, <3>1 DEF AtRest
  <2>2. CASE master'.at = "wave" /\ round' = round
    BY <1>2, <2>2 DEF AtRest, UnderWay, Done
  <2> QED
    BY <1>3, <2>1, <2>2
<1>5. Ended = Slaves /\ Ended' = {} /\ UNCHANGED Loading
  BY <1>1, <1>4, AllEnded DEF Loading, Resting
<1>6. Counted' = IF Warmup /\ Done % PerWave = 0 THEN Counted
                 ELSE [Counted EXCEPT ![Done \div PerWave] = @ + 1]
  <2>1. CASE EndWarmup
    BY <1>2, <2>1 DEF EndWarmup, Counted
  <2>2. CASE EndIteration
    <3>1. /\ ~ master.warm
          /\ master_stats' = [master_stats EXCEPT ![current_wave_number] =
                                Append(master_stats[current_wave_number], slaves_stats)]
      BY <2>2 DEF EndIteration
    <3>2. /\ slaves_stats \in [Slaves -> Orders]
          /\ master_stats \in [0 .. NbWaves - 1 -> Seq([Slaves -> Orders])]
      BY DEF IInv, TypeOK
    <3>3. Len(Append(master_stats[current_wave_number], slaves_stats))
            = Len(master_stats[current_wave_number]) + 1
      BY <1>2, <3>2, AppendProperties
    <3>4. \A w \in 0 .. NbWaves - 1 :
            Len(master_stats'[w]) = IF w = current_wave_number
                                      THEN Len(master_stats[w]) + 1
                                      ELSE Len(master_stats[w])
      BY <1>2, <3>1, <3>2, <3>3
    <3>5. Counted' = [Counted EXCEPT ![current_wave_number] = @ + 1]
      BY <1>2, <3>4 DEF Counted
    <3> QED
      BY <1>2, <3>1, <3>5
  <2> QED
    BY <2>1, <2>2
<1> QED
  BY <1>4, <1>5, <1>6, BenchmarkSteps

\* Every step of slg_master and its slaves is one of the benchmark, or none.
LEMMA NextBenchmark ==
  ASSUME MaxMasters = 1, IInv, LoadInv, IInv', Resting', [Next]_vars
  PROVE  [TheBenchmark!Next]_TheBenchmark!vars
<1>1. CASE UNCHANGED vars
  <2>1. NotSeen
    BY <1>1 DEF NotSeen, vars, masterVars, Loading, Ended, Counted, Done, HasReported
  <2> QED
    BY <2>1, BenchmarkSteps
<1>2. CASE ReadReportFails \/ MasterKilled
  BY <1>2, StoppedSeen DEF ReadReportFails, MasterKilled
<1>3. ~ MasterStarts
  BY DEF IInv, TypeOK, MasterStarts
<1> QED
  BY <1>1, <1>2, <1>3, SlaveBenchmark, MasterMovesSeen, WaveSeen, LoadOver
  DEF Next, MasterStep, Terminated

\* What slg_master and its slaves do together is the benchmark that the table
\* claims to show: a load begins after every slave has ended the one before,
\* and only loads that all slaves have ended are counted, under their own
\* wave, whatever process stops and whichever slave is started again.
THEOREM ImplementsBenchmarkCorrect ==
  ASSUME MaxMasters = 1
  PROVE  Spec => ImplementsBenchmark
<1>1. IInv /\ LoadInv => Resting
  BY RestsNow
<1>2. IInv /\ LoadInv /\ IInv' /\ Resting' /\ [Next]_vars
      => [TheBenchmark!Next]_TheBenchmark!vars
  BY NextBenchmark
<1>3. Init => TheBenchmark!Init
  BY InitBenchmark
<1> QED
  BY <1>1, <1>2, <1>3, LoadInvariance, PTL
  DEF Spec, ImplementsBenchmark, TheBenchmark!Spec
=============================================================================
