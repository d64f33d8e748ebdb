---------------------------- MODULE LoadSession ----------------------------
(***************************************************************************)
(* What the injector promises the server it loads and the master it        *)
(* reports to: N clients in a closed loop.  A client connects, then sends  *)
(* up to MsgPerConn requests over its connection, each one only after the  *)
(* answer to the one before, closes, and connects again.  An error ends    *)
(* the connection.  sent, answered and failed are the run's totals.        *)
(*                                                                         *)
(* Injector.tla implements this with two threads that hand the clients to  *)
(* each other.                                                             *)
(***************************************************************************)
EXTENDS Integers

CONSTANTS N,            \* nb_clients
          MsgPerConn    \* nb_msg_per_connection

Clients == 0 .. N - 1

VARIABLES session,     \* what each client is doing
          served,      \* answers each client got over its connection
          sent,        \* requests sent in this run
          answered,    \* answers received in this run
          failed       \* connections this run lost to an error

vars == <<session, served, sent, answered, failed>>

Init == /\ session = [i \in Clients |-> "closed"]
        /\ served = [i \in Clients |-> 0]
        /\ sent = 0
        /\ answered = 0
        /\ failed = 0

Connect(i) == /\ session[i] = "closed"
              /\ session' = [session EXCEPT ![i] = "ready"]
              /\ UNCHANGED <<served, sent, answered, failed>>

Send(i) == /\ session[i] = "ready"
           /\ session' = [session EXCEPT ![i] = "waiting"]
           /\ sent' = sent + 1
           /\ UNCHANGED <<served, answered, failed>>

\* The answer, and with the last one the end of the connection.
Answer(i) ==
  /\ session[i] = "waiting"
  /\ answered' = answered + 1
  /\ \/ /\ served[i] + 1 < MsgPerConn
        /\ session' = [session EXCEPT ![i] = "ready"]
        /\ served' = [served EXCEPT ![i] = @ + 1]
     \/ /\ served[i] + 1 = MsgPerConn
        /\ session' = [session EXCEPT ![i] = "closed"]
        /\ served' = [served EXCEPT ![i] = 0]
  /\ UNCHANGED <<sent, failed>>

Fail(i) == /\ session[i] = "waiting"
           /\ session' = [session EXCEPT ![i] = "closed"]
           /\ served' = [served EXCEPT ![i] = 0]
           /\ failed' = failed + 1
           /\ UNCHANGED <<sent, answered>>

\* The run is over and its totals reported: everything starts afresh.
Reset == /\ session' = [i \in Clients |-> "closed"]
         /\ served' = [i \in Clients |-> 0]
         /\ sent' = 0
         /\ answered' = 0
         /\ failed' = 0

Next == \/ \E i \in Clients : Connect(i) \/ Send(i) \/ Answer(i) \/ Fail(i)
        \/ Reset

Spec == Init /\ [][Next]_vars
=============================================================================
